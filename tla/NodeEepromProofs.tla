-------------------------- MODULE NodeEepromProofs --------------------------
(***************************************************************************)
(* For any number of threads, locations, retries and configurations: every *)
(* variable keeps its type; and while only one thread at a time calls the  *)
(* Node until the protocol is known, no protocol is destroyed that is in   *)
(* use, and threads do not wait for each other.  Both rest on the holder   *)
(* of the protocol's mutex being alone.  And with one writer, which uses   *)
(* discovery packets while they are fresh, the cache is the device: while  *)
(* one of the two has a value the other has not, the writer knows.         *)
(* A value that is written then moves one way, to the device, to the       *)
(* readers and to the cache, and every location behaves as one register.   *)
(***************************************************************************)
EXTENDS NodeEeprom, TLAPS

Partial == UNION {[D -> Values] : D \in SUBSET Locations}

Places == {"idle", "lookup", "lock", "group", "single", "parse", "lookupWrite", "write",
           "update", "clear", "failed", "answered", "written", "reset", "ping", "forget",
           "import", "forgetProtocol"}

Call == [op : {"none", "read", "write", "apply", "ping", "clear", "import"}, at : Places,
         todo : Seq(Item), tries : Nat, ref : BOOLEAN, stage : {"none", "v1_1", "v1_0"},
         fetched : Partial]

\* Where a thread has a location it reads or writes.
AtLocation == {"lookup", "lock", "group", "single", "parse", "lookupWrite", "write", "update", "clear"}

CallOK(c) ==
  /\ c \in Call
  /\ c.at \in AtLocation => c.todo # <<>>
  /\ c.at = "parse" => Head(c.todo).loc \in DOMAIN c.fetched
  /\ c.at = "written" => c.tries = 0
  /\ c.at = "reset" => c.tries <= 3
  /\ c.tries <= NumRetries + 3

CallsOK == DOMAIN call = Threads /\ call = [t \in Threads |-> call[t]] /\ \A t \in Threads : CallOK(call[t])

NodeOK ==
  /\ device \in [Locations -> Values] /\ active \in [Configured -> Values]
  /\ packet \in Partial /\ cache \in Partial

LocksOK ==
  /\ cacheMutex \in Threads \cup {Nobody} /\ protocolMutex \in Threads \cup {Nobody}
  /\ protocol \in {"none", "assumed", "determined"} /\ settings \in {"own", "temporary"}

TypeInv == CallsOK /\ NodeOK /\ LocksOK

-----------------------------------------------------------------------------
(* Functions and records *)

LEMMA Constants ==
  /\ Nobody \notin Threads /\ NumRetries \in Nat /\ Initial \in Values
  /\ Version \in Locations /\ Volatile \subseteq Locations /\ Discovered \subseteq Locations
  /\ Plain \subseteq Locations /\ Configured \subseteq Locations
  /\ Config \in Seq(Item) /\ Config # <<>>
  /\ \A l \in Locations : Group[l] \subseteq Locations /\ (Group[l] # {} => l \in Group[l])
<1>1. Config \in Seq(Item)
  BY EepromAssumption DEF EepromAssumption
<1>2. Configured \subseteq Locations
  <2>1. ASSUME NEW i \in DOMAIN Config
        PROVE  Config[i].loc \in Locations
    <3>1. Config[i] \in Item
      BY <1>1
    <3> QED
      BY <3>1 DEF Item
  <2> QED
    BY <2>1 DEF Configured
<1> QED
  BY <1>1, <1>2, EepromAssumption DEF EepromAssumption

LEMMA PartialIs ==
  ASSUME NEW f, NEW D \in SUBSET Locations, f \in [D -> Values]
  PROVE  f \in Partial
  BY DEF Partial

LEMMA PartialHas ==
  ASSUME NEW f \in Partial
  PROVE  /\ DOMAIN f \in SUBSET Locations /\ f \in [DOMAIN f -> Values]
         /\ \A l \in DOMAIN f : f[l] \in Values
  BY DEF Partial

LEMMA NothingIsPartial == <<>> \in Partial
<1>1. <<>> \in [{} -> Values]
  OBVIOUS
<1> QED
  BY <1>1, PartialIs

LEMMA WithIsPartial ==
  ASSUME NEW f \in Partial, NEW g \in Partial
  PROVE  /\ With(f, g) \in Partial
         /\ DOMAIN With(f, g) = DOMAIN f \cup DOMAIN g
         /\ \A l \in DOMAIN With(f, g) : With(f, g)[l] \in Values
<1>1. With(f, g) \in [DOMAIN f \cup DOMAIN g -> Values]
  BY PartialHas DEF With
<1> QED
  BY <1>1, PartialHas, PartialIs

LEMMA OnlyIsPartial ==
  ASSUME NEW l \in Locations, NEW v \in Values
  PROVE  Only(l, v) \in Partial /\ DOMAIN Only(l, v) = {l}
<1>1. Only(l, v) \in [{l} -> Values]
  BY DEF Only
<1> QED
  BY <1>1, PartialIs

LEMMA RestrictIsPartial ==
  ASSUME NEW D \in SUBSET Locations, NEW f \in [Locations -> Values]
  PROVE  Restrict(f, D) \in Partial /\ Restrict(f, D) \in [D -> Values]
<1>1. Restrict(f, D) \in [D -> Values]
  BY DEF Restrict
<1> QED
  BY <1>1, PartialIs

LEMMA WithoutIsPartial ==
  ASSUME NEW f \in Partial, NEW l
  PROVE  Without(f, l) \in Partial
<1>1. Without(f, l) \in [DOMAIN f \ {l} -> Values]
  BY PartialHas DEF Without, Restrict
<1> QED
  BY <1>1, PartialHas, PartialIs

\* What a thread that has a location reads or writes.
LEMMA ItemIs ==
  ASSUME NEW c, CallOK(c), c.at \in AtLocation
  PROVE  /\ c.todo \in Seq(Item) /\ c.todo # <<>> /\ Head(c.todo) = c.todo[1] /\ 1 \in DOMAIN c.todo
         /\ Head(c.todo).loc \in Locations /\ Head(c.todo).val \in Values
<1>1. c.todo \in Seq(Item) /\ c.todo # <<>>
  BY DEF CallOK, Call
<1>2. Head(c.todo) \in Item /\ Head(c.todo) = c.todo[1] /\ 1 \in DOMAIN c.todo
  BY <1>1
<1> QED
  BY <1>1, <1>2 DEF Item

LEMMA UpdateCall ==
  ASSUME CallsOK, NEW t \in Threads, NEW c, CallOK(c), call' = [call EXCEPT ![t] = c]
  PROVE  CallsOK'
  BY DEF CallsOK

\* A call goes on somewhere else, and nothing but that.
LEMMA Moves ==
  ASSUME CallsOK, NEW t \in Threads, NEW to \in Places \ {"parse", "written", "reset"},
         to \in AtLocation => call[t].at \in AtLocation,
         NEW c, c = [call[t] EXCEPT !.at = to]
  PROVE  CallOK(c)
  BY DEF CallsOK, CallOK, Call

\* A command is sent again, or another one in its place.
LEMMA TriesAgain ==
  ASSUME CallsOK, NEW t \in Threads, NEW at \in {"group", "single", "write"},
         call[t].at \in {"group", "single", "write"},
         NEW n \in Nat, n <= NumRetries + 3,
         NEW d, d = [call[t] EXCEPT !.at = at, !.ref = FALSE, !.tries = n]
  PROVE  CallOK(d)
<1>1. CallOK(call[t]) /\ call[t] \in Call
  BY DEF CallsOK, CallOK
<1>2. d \in Call /\ d.at = at /\ d.todo = call[t].todo /\ d.tries = n
  BY <1>1 DEF Call, Places
<1> QED
  BY <1>1, <1>2 DEF CallOK, AtLocation

LEMMA ThrownOK ==
  ASSUME CallsOK, NEW t \in Threads
  PROVE  CallOK(Thrown(t)) /\ Thrown(t).at \in {"clear", "failed"}
<1>1. CallOK(call[t]) /\ <<>> \in Partial /\ NumRetries \in Nat
  BY NothingIsPartial, Constants DEF CallsOK
<1>2. Thrown(t) \in Call
  BY <1>1 DEF Thrown, CallOK, Call, Places
<1> QED
  BY <1>1, <1>2 DEF Thrown, CallOK, Call, At, AtLocation

LEMMA NoCallOK == CallOK(NoCall)
  BY NothingIsPartial, Constants DEF NoCall, CallOK, Call, Places, AtLocation

LEMMA AnsweredOK ==
  ASSUME NEW c, CallOK(c), c.todo # <<>>
  PROVE  CallOK(Answered(c)) /\ Answered(c).at \in {"lookupWrite", "written", "answered"}
<1>1. c \in Call /\ <<>> \in Partial /\ NumRetries \in Nat /\ c.todo \in Seq(Item)
  BY NothingIsPartial, Constants DEF CallOK, Call
<1>2. Tail(c.todo) \in Seq(Item) /\ Len(Tail(c.todo)) = Len(c.todo) - 1 /\ Len(c.todo) \in Nat
  BY <1>1
<1>3. ASSUME NEW todo \in Seq(Item), NEW at \in {"lookupWrite", "written", "answered"},
             at = "lookupWrite" => todo # <<>>,
             NEW d, d = [c EXCEPT !.todo = todo, !.ref = FALSE, !.tries = 0, !.fetched = <<>>, !.at = at]
      PROVE  CallOK(d) /\ d.at = at
  <2>1. d \in Call /\ d.at = at /\ d.todo = todo /\ d.tries = 0
    BY <1>1, <1>3 DEF Call, Places
  <2> QED
    BY <1>1, <1>3, <2>1 DEF CallOK, AtLocation
<1>4. CASE c.op = "apply" /\ Len(c.todo) > 1
  <2>1. Tail(c.todo) # <<>>
    <3>1. ASSUME NEW s, s = <<>>
          PROVE  Len(s) = 0
      BY <3>1
    <3>2. ASSUME NEW m \in Nat, NEW n, m > 1, n = m - 1
          PROVE  n # 0
      BY <3>2
    <3>3. Len(Tail(c.todo)) # 0
      BY <1>2, <1>4, <3>2
    <3> QED
      BY <3>1, <3>3
  <2>2. Answered(c) = [c EXCEPT !.todo = Tail(c.todo), !.ref = FALSE, !.tries = 0,
                                !.fetched = <<>>, !.at = "lookupWrite"]
    BY <1>4 DEF Answered
  <2> QED
    BY <1>2, <1>3, <2>1, <2>2
<1>5. CASE c.op = "apply" /\ ~(Len(c.todo) > 1)
  <2>1. Answered(c) = [c EXCEPT !.todo = Tail(c.todo), !.ref = FALSE, !.tries = 0,
                                !.fetched = <<>>, !.at = "written"]
    BY <1>5 DEF Answered
  <2> QED
    BY <1>2, <1>3, <2>1
<1>6. CASE c.op # "apply"
  <2>1. Answered(c) = [c EXCEPT !.todo = c.todo, !.ref = FALSE, !.tries = 0,
                                !.fetched = <<>>, !.at = "answered"]
    BY <1>1, <1>6 DEF Answered, Call
  <2> QED
    BY <1>1, <1>3, <2>1
<1> QED
  BY <1>4, <1>5, <1>6

LEMMA ThrowKeeps ==
  ASSUME CallsOK, LocksOK, NEW t \in Threads, Throw(t)
  PROVE  CallsOK' /\ cacheMutex' \in Threads \cup {Nobody}
  BY ThrownOK, UpdateCall DEF Throw, LocksOK

-----------------------------------------------------------------------------
(* The type invariant *)

LEMMA InitType == Init => TypeInv
<1> SUFFICES ASSUME Init PROVE TypeInv
  OBVIOUS
<1>1. CallsOK
  BY NoCallOK DEF Init, CallsOK
<1>2. device \in [Locations -> Values] /\ active \in [Configured -> Values]
  BY Constants DEF Init
<1>3. packet \in [Discovered -> Values]
  BY <1>2, Constants DEF Init
<1>4. packet \in Partial /\ cache \in Partial
  BY <1>3, Constants, PartialIs, NothingIsPartial DEF Init
<1> QED
  BY <1>1, <1>2, <1>4 DEF Init, TypeInv, NodeOK, LocksOK

LEMMA CallsKeepType ==
  ASSUME TypeInv, NEW t \in Threads, Calls(t)
  PROVE  TypeInv'
<1> USE DEF TypeInv, NodeOK, LocksOK, node, locks, shared
<1>1. ASSUME NEW op \in {"read", "write", "apply", "ping", "clear", "import"}, NEW todo \in Seq(Item),
             NEW at \in Places \ {"parse", "written", "reset"}, at \in AtLocation => todo # <<>>,
             Start(t, op, todo, at)
      PROVE  CallsOK'
  <2>1. CallOK([NoCall EXCEPT !.op = op, !.todo = todo, !.at = at])
    BY <1>1, NoCallOK DEF CallOK, Call, NoCall
  <2> QED
    BY <1>1, <2>1, UpdateCall DEF Start
<1>2. ASSUME NEW l \in Locations, NEW v \in Values
      PROVE  <<[loc |-> l, val |-> v]>> \in Seq(Item) /\ <<[loc |-> l, val |-> v]>> # <<>>
  BY DEF Item
<1>3. <<>> \in Seq(Item)
  OBVIOUS
<1>4. CASE \E l \in Locations : ReadEeprom(t, l)
  BY <1>1, <1>2, <1>4, Constants DEF ReadEeprom, Places, AtLocation
<1>5. CASE \E l \in Plain, v \in Values : WriteEeprom(t, l, v)
  BY <1>1, <1>2, <1>5, Constants DEF WriteEeprom, Places, AtLocation
<1>6. CASE ApplyConfig(t)
  BY <1>1, <1>6, Constants DEF ApplyConfig, Places, AtLocation
<1>7. CASE Ping(t)
  BY <1>1, <1>3, <1>7 DEF Ping, Places, AtLocation
<1>8. CASE ClearEepromCache(t)
  BY <1>1, <1>3, <1>8 DEF ClearEepromCache, Places, AtLocation
<1>9. CASE UpdateEepromCacheFromNodeDiscovery(t)
  BY <1>1, <1>3, <1>9 DEF UpdateEepromCacheFromNodeDiscovery, Places, AtLocation
<1> QED
  BY <1>4, <1>5, <1>6, <1>7, <1>8, <1>9 DEF Calls

LEMMA ProtocolKeepsType ==
  ASSUME TypeInv, NEW t \in Threads, ProtocolStep(t)
  PROVE  TypeInv'
<1> USE DEF TypeInv, NodeOK, LocksOK, node, locks, shared
<1>1. ASSUME NEW stage \in {"none", "v1_1", "v1_0"}, NEW ref \in BOOLEAN
      PROVE  CallOK([call[t] EXCEPT !.stage = stage, !.ref = ref])
  BY DEF CallsOK, CallOK, Call
<1>2. CallOK(call[t]) /\ call[t] \in Call
  BY DEF CallsOK, CallOK
<1>3. CASE GetProtocol(t)
  <2>1. CASE call' = [call EXCEPT ![t].ref = TRUE]
    <3>1. CallOK([call[t] EXCEPT !.ref = TRUE])
      BY <1>2 DEF CallOK, Call
    <3> QED
      BY <1>3, <2>1, <3>1, UpdateCall DEF GetProtocol
  <2>2. CASE call' = [call EXCEPT ![t].stage = "v1_1"]
    <3>1. CallOK([call[t] EXCEPT !.stage = "v1_1"])
      BY <1>2 DEF CallOK, Call
    <3> QED
      BY <1>3, <2>2, <3>1, UpdateCall DEF GetProtocol
  <2> QED
    BY <1>3, <2>1, <2>2 DEF GetProtocol
<1>4. CASE VersionRead(t)
  <2>1. CallsOK'
    BY <1>1, <1>4, UpdateCall DEF VersionRead
  <2>2. With(cache, Only(Version, device[Version])) \in Partial
    BY OnlyIsPartial, WithIsPartial, Constants
  <2> QED
    BY <1>4, <2>1, <2>2 DEF VersionRead
<1>5. CASE OlderProtocol(t)
  <2>1. CallOK([call[t] EXCEPT !.stage = "v1_0"])
    BY <1>2 DEF CallOK, Call
  <2> QED
    BY <1>5, <2>1, UpdateCall DEF OlderProtocol
<1>6. CASE NotDetermined(t)
  BY <1>6, ThrowKeeps DEF NotDetermined
<1>7. CASE PortFailsDetermining(t)
  BY <1>7, ThrowKeeps DEF PortFailsDetermining
<1> QED
  BY <1>3, <1>4, <1>5, <1>6, <1>7 DEF ProtocolStep

LEMMA ReadKeepsType ==
  ASSUME TypeInv, NEW t \in Threads, ReadStep(t)
  PROVE  TypeInv'
<1> USE DEF TypeInv, NodeOK, LocksOK, node, locks, shared
<1>1. CallOK(call[t]) /\ call[t] \in Call
  BY DEF CallsOK, CallOK
<1>2. ASSUME call[t].at \in AtLocation
      PROVE  /\ call[t].todo \in Seq(Item) /\ call[t].todo # <<>>
             /\ Loc(t) \in Locations /\ Loc(t) = Head(call[t].todo).loc
             /\ Head(call[t].todo) = call[t].todo[1] /\ 1 \in DOMAIN call[t].todo
  BY <1>1, <1>2, ItemIs DEF Loc
<1>3. ASSUME call[t].at \in AtLocation, NEW v \in Values, NEW at \in {"parse", "answered"},
             at = "parse" => Loc(t) \in DOMAIN call[t].fetched,
             NEW d, d = [call[t] EXCEPT !.at = at, !.todo[1].val = v]
      PROVE  CallOK(d) /\ d.todo # <<>>
  <2>1. call[t].todo[1] \in Item
    BY <1>2, <1>3
  <2>2. [call[t].todo[1] EXCEPT !.val = v] \in Item /\ [call[t].todo[1] EXCEPT !.val = v].loc = Loc(t)
    BY <1>2, <1>3, <2>1 DEF Item
  <2> DEFINE todo == [call[t].todo EXCEPT ![1].val = v]
  <2>3. todo \in Seq(Item) /\ todo # <<>> /\ Head(todo).loc = Loc(t)
    <3>1. call[t].todo \in Seq(Item) /\ 1 \in DOMAIN call[t].todo
      BY <1>2, <1>3
    <3>2. todo = [call[t].todo EXCEPT ![1] = [call[t].todo[1] EXCEPT !.val = v]]
      OBVIOUS
    <3> HIDE DEF todo
    <3>3. todo \in Seq(Item) /\ Len(todo) = Len(call[t].todo)
      BY <2>2, <3>1, <3>2
    <3>4. todo[1] = [call[t].todo[1] EXCEPT !.val = v] /\ 1 \in DOMAIN todo
      BY <3>1, <3>2
    <3>5. todo # <<>> /\ Head(todo) = todo[1]
      BY <3>3, <3>4
    <3> QED
      BY <2>2, <3>3, <3>4, <3>5
  <2>4. d = [call[t] EXCEPT !.at = at, !.todo = todo]
    BY <1>1, <1>3 DEF Call
  <2> HIDE DEF todo
  <2>5. /\ d \in Call /\ d.at = at /\ d.todo = todo /\ d.fetched = call[t].fetched
        /\ d.tries = call[t].tries
    BY <1>1, <1>3, <2>3, <2>4 DEF Call, Places
  <2> QED
    BY <1>1, <1>3, <2>3, <2>5 DEF CallOK
<1>4. CASE Lookup(t)
  <2>1. CASE Loc(t) \in DOMAIN cache \ Volatile
    <3>1. cache[Loc(t)] \in Values
      BY <2>1, PartialHas
    <3>2. CallOK([call[t] EXCEPT !.at = "answered", !.todo[1].val = cache[Loc(t)]])
      BY <1>3, <1>4, <3>1 DEF Lookup, At, AtLocation
    <3>3. call' = [call EXCEPT ![t] = [call[t] EXCEPT !.at = "answered", !.todo[1].val = cache[Loc(t)]]]
      BY <1>4, <2>1 DEF Lookup
    <3> QED
      BY <1>4, <3>2, <3>3, UpdateCall DEF Lookup
  <2>2. CASE ~(Loc(t) \in DOMAIN cache \ Volatile)
    <3>1. CallOK([call[t] EXCEPT !.at = "lock"])
      BY <1>4, Moves DEF Lookup, At, AtLocation, Places
    <3> QED
      BY <1>4, <2>2, <3>1, UpdateCall DEF Lookup, Goto
  <2> QED
    BY <2>1, <2>2
<1>5. CASE LockCache(t)
  <2>1. ASSUME NEW to \in {"group", "single"}
        PROVE  CallOK([call[t] EXCEPT !.at = to])
    BY <1>5, Moves DEF LockCache, At, AtLocation, Places
  <2>2. CallsOK'
    BY <1>5, <2>1, UpdateCall DEF LockCache, Goto
  <2> QED
    BY <1>5, <2>2 DEF LockCache
<1>6. CASE GroupRead(t)
  <2>1. CASE /\ Group[Loc(t)] # {}
             /\ call' = [call EXCEPT ![t].at = "parse", ![t].fetched = Restrict(device, Group[Loc(t)])]
    <3> DEFINE f == Restrict(device, Group[Loc(t)])
    <3>1. Loc(t) \in Locations
      BY <1>2, <1>6 DEF GroupRead, Commanding, At, AtLocation
    <3>2. Group[Loc(t)] \in SUBSET Locations /\ Loc(t) \in Group[Loc(t)]
      BY <2>1, <3>1, Constants
    <3>3. f \in Partial /\ f \in [Group[Loc(t)] -> Values]
      BY <3>2, RestrictIsPartial
    <3>4. f \in Partial /\ Loc(t) \in DOMAIN f
      BY <3>2, <3>3
    <3> HIDE DEF f
    <3>5. CallOK([call[t] EXCEPT !.at = "parse", !.fetched = f])
      BY <1>1, <1>2, <1>6, <3>4 DEF GroupRead, Commanding, At, AtLocation, CallOK, Call, Places
    <3>6. call' = [call EXCEPT ![t] = [call[t] EXCEPT !.at = "parse", !.fetched = f]]
      BY <2>1 DEF f
    <3> QED
      BY <1>6, <3>5, <3>6, UpdateCall DEF GroupRead
  <2>2. CASE call' = [call EXCEPT ![t].at = "single", ![t].ref = FALSE, ![t].tries = 1]
    <3>1. CallOK([call[t] EXCEPT !.at = "single", !.ref = FALSE, !.tries = 1])
      <4>1. call[t].at = "group"
        BY <1>6 DEF GroupRead, Commanding, At
      <4>2. 1 \in Nat /\ 1 <= NumRetries + 3
        BY Constants
      <4> QED
        BY <4>1, <4>2, TriesAgain
    <3>2. call' = [call EXCEPT ![t] = [call[t] EXCEPT !.at = "single", !.ref = FALSE, !.tries = 1]]
      BY <2>2
    <3> QED
      BY <1>6, <3>1, <3>2, UpdateCall DEF GroupRead
  <2> QED
    BY <1>6, <2>1, <2>2 DEF GroupRead
<1>7. CASE SingleRead(t)
  <2> DEFINE f == Only(Loc(t), device[Loc(t)])
  <2>1. Loc(t) \in Locations /\ device[Loc(t)] \in Values
    BY <1>2, <1>7 DEF SingleRead, Commanding, At, AtLocation
  <2>2. f \in Partial /\ Loc(t) \in DOMAIN f
    BY <2>1, OnlyIsPartial
  <2> HIDE DEF f
  <2>3. CallOK([call[t] EXCEPT !.at = "parse", !.fetched = f])
    BY <1>1, <1>2, <1>7, <2>2 DEF SingleRead, Commanding, At, AtLocation, CallOK, Call, Places
  <2>4. call' = [call EXCEPT ![t] = [call[t] EXCEPT !.at = "parse", !.fetched = f]]
    BY <1>7 DEF f, SingleRead
  <2> QED
    BY <1>7, <2>3, <2>4, UpdateCall DEF SingleRead
<1>8. CASE SingleReadFails(t)
  <2>1. CASE call[t].tries < Retries
    <3>1. call[t].tries + 1 \in Nat /\ call[t].tries + 1 <= NumRetries + 3
      BY <1>1, <2>1, Constants DEF Call, Retries
    <3>2. call[t].at = "single"
      BY <1>8 DEF SingleReadFails, Commanding, At
    <3>3. CallOK([call[t] EXCEPT !.at = "single", !.ref = FALSE, !.tries = call[t].tries + 1])
      BY <3>1, <3>2, TriesAgain
    <3>4. call' = [call EXCEPT ![t] = [call[t] EXCEPT !.tries = call[t].tries + 1, !.ref = FALSE]]
      BY <1>8, <2>1 DEF SingleReadFails
    <3>5. [call[t] EXCEPT !.tries = call[t].tries + 1, !.ref = FALSE]
             = [call[t] EXCEPT !.at = "single", !.ref = FALSE, !.tries = call[t].tries + 1]
      BY <1>1, <3>2 DEF Call
    <3>6. CallOK([call[t] EXCEPT !.tries = call[t].tries + 1, !.ref = FALSE])
      BY <3>3, <3>5
    <3>7. CallsOK'
      BY <3>4, <3>6, UpdateCall
    <3> QED
      BY <1>8, <2>1, <3>7 DEF SingleReadFails
  <2>2. CASE ~(call[t].tries < Retries)
    BY <1>8, <2>2, ThrowKeeps DEF SingleReadFails
  <2> QED
    BY <2>1, <2>2
<1>9. CASE ParseRead(t)
  <2>1. call[t].fetched \in Partial /\ Loc(t) \in DOMAIN call[t].fetched
    BY <1>1, <1>9 DEF ParseRead, At, CallOK, Call, Loc
  <2>2. cache' \in Partial /\ cache'[Loc(t)] \in Values
    BY <1>9, <2>1, WithIsPartial DEF ParseRead
  <2>3. call[t].at = "parse"
    BY <1>9 DEF ParseRead, At
  <2> DEFINE c == [call[t] EXCEPT !.todo[1].val = cache'[Loc(t)]]
  <2>4. c = [call[t] EXCEPT !.at = "parse", !.todo[1].val = cache'[Loc(t)]]
    BY <1>1, <2>3 DEF Call
  <2>5. CallOK(c) /\ c.todo # <<>>
    BY <1>3, <2>1, <2>2, <2>3, <2>4 DEF AtLocation
  <2>6. call' = [call EXCEPT ![t] = Answered(c)]
    BY <1>9 DEF ParseRead
  <2> HIDE DEF c
  <2>7. CallsOK'
    BY <2>5, <2>6, AnsweredOK, UpdateCall
  <2> QED
    BY <1>9, <2>2, <2>7 DEF ParseRead
<1> QED
  BY <1>4, <1>5, <1>6, <1>7, <1>8, <1>9 DEF ReadStep

LEMMA WriteKeepsType ==
  ASSUME TypeInv, NEW t \in Threads, WriteStep(t)
  PROVE  TypeInv'
<1> USE DEF TypeInv, NodeOK, LocksOK, node, locks, shared
<1>1. CallOK(call[t]) /\ call[t] \in Call
  BY DEF CallsOK, CallOK
<1>2. ASSUME call[t].at \in AtLocation
      PROVE  /\ call[t].todo # <<>> /\ Loc(t) \in Locations
             /\ Head(call[t].todo).val \in Values
  BY <1>1, <1>2, ItemIs DEF Loc
<1>3. ASSUME call[t].at \in AtLocation
      PROVE  [device EXCEPT ![Loc(t)] = Head(call[t].todo).val] \in [Locations -> Values]
  BY <1>2, <1>3
<1>4. CASE LookupWrite(t)
  <2>1. call[t].at = "lookupWrite"
    BY <1>4 DEF LookupWrite, At
  <2>2. CallOK(Answered(call[t]))
    BY <1>1, <1>2, <2>1, AnsweredOK DEF AtLocation
  <2>3. CallOK([call[t] EXCEPT !.at = "write"])
    BY <2>1, Moves DEF AtLocation, Places
  <2>4. \/ call' = [call EXCEPT ![t] = Answered(call[t])]
        \/ call' = [call EXCEPT ![t] = [call[t] EXCEPT !.at = "write"]]
    BY <1>4 DEF LookupWrite
  <2>5. CallsOK'
    BY <2>2, <2>3, <2>4, UpdateCall
  <2> QED
    BY <1>4, <2>5 DEF LookupWrite
<1>5. CASE WriteCommand(t)
  <2>1. call[t].at = "write"
    BY <1>5 DEF WriteCommand, Commanding, At
  <2>2. CallOK([call[t] EXCEPT !.at = "update"])
    BY <2>1, Moves DEF AtLocation, Places
  <2>3. CallsOK'
    BY <1>5, <2>2, UpdateCall DEF WriteCommand, Goto
  <2>4. device' \in [Locations -> Values]
    BY <1>3, <1>5, <2>1 DEF WriteCommand, AtLocation
  <2> QED
    BY <1>5, <2>3, <2>4 DEF WriteCommand
<1>6. CASE WriteCommandFails(t)
  <2>1. call[t].at = "write"
    BY <1>6 DEF WriteCommandFails, Commanding, At
  <2>2. device' \in [Locations -> Values]
    BY <1>3, <1>6, <2>1 DEF WriteCommandFails, AtLocation
  <2>3. CASE call[t].tries < Retries
    <3>1. call[t].tries + 1 \in Nat /\ call[t].tries + 1 <= NumRetries + 3
      BY <1>1, <2>3, Constants DEF Call, Retries
    <3>2. CallOK([call[t] EXCEPT !.at = "write", !.ref = FALSE, !.tries = call[t].tries + 1])
      BY <2>1, <3>1, TriesAgain
    <3>3. [call[t] EXCEPT !.tries = call[t].tries + 1, !.ref = FALSE]
             = [call[t] EXCEPT !.at = "write", !.ref = FALSE, !.tries = call[t].tries + 1]
      BY <1>1, <2>1 DEF Call
    <3>4. call' = [call EXCEPT ![t] = [call[t] EXCEPT !.tries = call[t].tries + 1, !.ref = FALSE]]
      BY <1>6, <2>3 DEF WriteCommandFails
    <3>5. CallOK([call[t] EXCEPT !.tries = call[t].tries + 1, !.ref = FALSE])
      BY <3>2, <3>3
    <3>6. CallsOK'
      BY <3>4, <3>5, UpdateCall
    <3> QED
      BY <1>6, <2>2, <3>6 DEF WriteCommandFails
  <2>4. CASE ~(call[t].tries < Retries)
    <3>1. CallsOK'
      BY <1>6, <2>4, ThrownOK, UpdateCall DEF WriteCommandFails
    <3> QED
      BY <1>6, <2>2, <3>1 DEF WriteCommandFails
  <2> QED
    BY <2>3, <2>4
<1>7. CASE UpdateCache(t)
  <2>1. call[t].at = "update"
    BY <1>7 DEF UpdateCache, At
  <2>2. CallsOK'
    BY <1>1, <1>2, <1>7, <2>1, AnsweredOK, UpdateCall DEF UpdateCache, AtLocation
  <2>3. cache' \in Partial
    BY <1>2, <1>7, <2>1, OnlyIsPartial, WithIsPartial DEF UpdateCache, AtLocation
  <2> QED
    BY <1>7, <2>2, <2>3 DEF UpdateCache
<1>8. CASE ClearCacheLocation(t)
  <2>1. CallOK([call[t] EXCEPT !.at = "failed"])
    BY Moves DEF AtLocation, Places
  <2>2. CallsOK'
    BY <1>8, <2>1, UpdateCall DEF ClearCacheLocation, Goto
  <2>3. cache' \in Partial
    BY <1>8, WithoutIsPartial DEF ClearCacheLocation
  <2> QED
    BY <1>8, <2>2, <2>3 DEF ClearCacheLocation
<1> QED
  BY <1>4, <1>5, <1>6, <1>7, <1>8 DEF WriteStep

LEMMA OtherKeepsType ==
  ASSUME TypeInv, NEW t \in Threads, OtherStep(t)
  PROVE  TypeInv'
<1> USE DEF TypeInv, NodeOK, LocksOK, node, locks, shared
<1>1. CallOK(call[t]) /\ call[t] \in Call
  BY DEF CallsOK, CallOK
<1>2. ASSUME NEW to \in {"answered", "forgetProtocol"}, Goto(t, to)
      PROVE  CallsOK'
  <2>1. CallOK([call[t] EXCEPT !.at = to])
    BY Moves DEF AtLocation, Places
  <2> QED
    BY <1>2, <2>1, UpdateCall DEF Goto
<1>3. Restrict(device, Configured) \in [Configured -> Values]
  BY Constants, RestrictIsPartial
<1>4. CASE Written(t)
  <2>1. CallOK([call[t] EXCEPT !.at = "reset"])
    BY <1>1, <1>4 DEF Written, At, CallOK, Call, AtLocation, Places
  <2>2. CallsOK'
    BY <1>2, <1>4, <2>1, UpdateCall DEF Written, Goto
  <2> QED
    BY <1>4, <2>2 DEF Written
<1>5. CASE ResetNode(t)
  <2>1. active' \in [Configured -> Values]
    BY <1>3, <1>5 DEF ResetNode
  <2>2. call[t].at = "reset" /\ call[t].tries \in Nat /\ call[t].tries <= 3
    BY <1>1, <1>5 DEF ResetNode, Commanding, At, CallOK, Call
  <2>3. CallOK([call[t] EXCEPT !.at = "answered", !.ref = FALSE, !.tries = 0])
    <3> DEFINE d == [call[t] EXCEPT !.at = "answered", !.ref = FALSE, !.tries = 0]
    <3>1. d \in Call /\ d.at = "answered" /\ d.tries = 0
      BY <1>1 DEF Call, Places
    <3> HIDE DEF d
    <3>2. CallOK(d)
      BY <3>1, Constants DEF CallOK, AtLocation
    <3> QED
      BY <3>2 DEF d
  <2>4. CASE call' = [call EXCEPT ![t] = [call[t] EXCEPT !.at = "answered", !.ref = FALSE, !.tries = 0]]
    <3>1. CallsOK'
      BY <2>3, <2>4, UpdateCall
    <3> QED
      BY <1>5, <2>1, <3>1 DEF ResetNode
  <2>5. CASE call[t].tries # 3 /\ call' = [call EXCEPT ![t].tries = @ + 1, ![t].ref = FALSE]
    <3> DEFINE d == [call[t] EXCEPT !.tries = call[t].tries + 1, !.ref = FALSE]
    <3>1. call[t].tries + 1 \in Nat /\ call[t].tries + 1 <= 3 /\ call[t].tries + 1 <= NumRetries + 3
      BY <2>2, <2>5, Constants
    <3>2. d \in Call /\ d.at = "reset" /\ d.tries = call[t].tries + 1
      BY <1>1, <2>2, <3>1 DEF Call
    <3>3. call' = [call EXCEPT ![t] = d]
      BY <2>5
    <3> HIDE DEF d
    <3>4. CallOK(d)
      BY <3>1, <3>2 DEF CallOK, AtLocation
    <3>5. CallsOK'
      BY <3>3, <3>4, UpdateCall
    <3> QED
      BY <1>5, <2>1, <3>5 DEF ResetNode
  <2> QED
    BY <1>5, <2>4, <2>5 DEF ResetNode
<1>6. CASE PingDone(t)
  <2>1. CallOK([call[t] EXCEPT !.at = "answered", !.ref = FALSE])
    BY <1>1 DEF CallOK, Call, AtLocation, Places
  <2>2. call' = [call EXCEPT ![t] = [call[t] EXCEPT !.at = "answered", !.ref = FALSE]]
    BY <1>6 DEF PingDone
  <2>3. CallsOK'
    BY <2>1, <2>2, UpdateCall
  <2> QED
    BY <1>6, <2>3 DEF PingDone
<1>7. CASE PortFails(t)
  <2>1. CASE device' = device
    BY <1>7, <2>1, ThrowKeeps DEF PortFails
  <2>2. CASE At(t, "write") /\ device' = [device EXCEPT ![Loc(t)] = Head(call[t].todo).val]
    <3>1. Loc(t) \in Locations /\ Head(call[t].todo).val \in Values
      BY <1>1, <2>2, ItemIs DEF Loc, At, AtLocation
    <3>2. device' \in [Locations -> Values]
      BY <2>2, <3>1
    <3> QED
      BY <1>7, <3>2, ThrowKeeps DEF PortFails
  <2> QED
    BY <1>7, <2>1, <2>2 DEF PortFails
<1>8. CASE ClearCache(t)
  BY <1>2, <1>8, NothingIsPartial DEF ClearCache
<1>9. CASE ImportCache(t)
  <2>1. cache' \in Partial
    BY <1>9, WithIsPartial DEF ImportCache
  <2> QED
    BY <1>2, <1>9, <2>1 DEF ImportCache
<1>10. CASE ForgetProtocol(t)
  BY <1>2, <1>10 DEF ForgetProtocol
<1>11. CASE Return(t)
  BY <1>11, NoCallOK, UpdateCall DEF Return
<1> QED
  BY <1>4, <1>5, <1>6, <1>7, <1>8, <1>9, <1>10, <1>11 DEF OtherStep

LEMMA TypeKept == TypeInv /\ [Next]_vars => TypeInv'
<1> SUFFICES ASSUME TypeInv, [Next]_vars
             PROVE  TypeInv'
  OBVIOUS
<1> USE DEF TypeInv, NodeOK, LocksOK
<1>1. CASE NodeActs
  <2>1. CASE \E l \in Volatile, v \in Values : device' = [device EXCEPT ![l] = v] /\ UNCHANGED packet
    BY <1>1, <2>1, Constants DEF NodeActs, locks, shared, CallsOK
  <2>2. CASE packet' = [l \in Discovered |-> device[l]] /\ UNCHANGED device
    <3>1. packet' \in [Discovered -> Values]
      BY <2>2, Constants
    <3> QED
      BY <1>1, <2>2, <3>1, Constants, PartialIs DEF NodeActs, locks, shared, CallsOK
  <2> QED
    BY <1>1, <2>1, <2>2 DEF NodeActs
<1>2. ASSUME NEW t \in Threads, Calls(t) \/ Step(t)
      PROVE  TypeInv'
  BY <1>2, CallsKeepType, ProtocolKeepsType, ReadKeepsType, WriteKeepsType, OtherKeepsType DEF Step
<1>3. CASE UNCHANGED vars
  BY <1>3 DEF vars, node, locks, shared, CallsOK
<1> QED
  BY <1>1, <1>2, <1>3 DEF Next

\* Every variable has its type, and no command is repeated more often than the
\* settings and applyEepromChanges allow.
THEOREM TypeCorrect == Spec => []TypeOK
<1>1. TypeInv => TypeOK
  <2> SUFFICES ASSUME TypeInv PROVE TypeOK
    OBVIOUS
  <2>1. \A t \in Threads : call[t].tries \in 0 .. NumRetries + 3
    BY Constants DEF TypeInv, CallsOK, CallOK, Call
  <2> QED
    BY <2>1, PartialHas DEF TypeInv, NodeOK, LocksOK, TypeOK
<1> QED
  BY <1>1, InitType, TypeKept, PTL DEF Spec

-----------------------------------------------------------------------------
(* Who may be where while another thread is elsewhere *)

CacheCalls   == {"forget", "import", "forgetProtocol"}
WithProtocol == Commands \cup {"parse", "update"}
WithCache    == {"group", "single", "parse"}

Alone(t) == \A u \in Threads : u # t => At(u, "idle")

IdleIsNothing ==
  \A t \in Threads : At(t, "idle") => call[t].op = "none" /\ ~call[t].ref /\ call[t].stage = "none"

ReferenceIsUsed ==
  \A t \in Threads : call[t].ref => call[t].at \in WithProtocol /\ protocol # "none"

DeterminingIsAlone ==
  \A t \in Threads : call[t].stage # "none"
    => Alone(t) /\ protocolMutex = t /\ ~call[t].ref /\ call[t].at \in Commands

CacheCallIsAlone ==
  \A t \in Threads :
    /\ call[t].op \in {"clear", "import"} => Alone(t) /\ call[t].at \in CacheCalls \cup {"answered"}
    /\ call[t].at \in CacheCalls => call[t].op \in {"clear", "import"}

UnknownIsAlone ==
  protocol = "none" => \A t, u \in Threads : t = u \/ At(t, "idle") \/ At(u, "idle")

HoldersKnown ==
  \A t \in Threads :
    /\ protocolMutex = t => call[t].stage # "none" \/ At(t, "forget")
    /\ cacheMutex = t => call[t].at \in WithCache

Control ==
  /\ IdleIsNothing /\ ReferenceIsUsed /\ DeterminingIsAlone
  /\ CacheCallIsAlone /\ UnknownIsAlone /\ HoldersKnown

\* No thread is in a call at first.
LEMMA InitControl == Init => Control
  BY Constants
     DEF Init, NoCall, Control, IdleIsNothing, ReferenceIsUsed, DeterminingIsAlone, CacheCallIsAlone,
         UnknownIsAlone, HoldersKnown, At, CacheCalls

\* A thread in a call goes on, without the mutex of the protocol.
LEMMA Continues ==
  ASSUME CallsOK, LocksOK, Control, NEW t \in Threads,
         call[t].stage = "none", call[t].at \notin CacheCalls \cup {"idle", "answered"},
         NEW c, call' = [call EXCEPT ![t] = c],
         c.op = call[t].op, c.stage = "none", c.at \notin CacheCalls \cup {"idle"},
         c.ref => c.at \in WithProtocol /\ protocol # "none",
         UNCHANGED <<protocol, protocolMutex>>,
         cacheMutex' = cacheMutex \/ cacheMutex' \in {t, Nobody},
         cacheMutex' = t => c.at \in WithCache
  PROVE  Control'
<1>1. call'[t] = c /\ \A u \in Threads : u # t => call'[u] = call[u]
  BY DEF CallsOK
<1>2. \A u \in Threads : At(u, "idle")' <=> At(u, "idle")
  BY <1>1 DEF At, CacheCalls
<1>3. \A u \in Threads : Alone(u) => Alone(u)'
  BY <1>2 DEF Alone
<1>4. IdleIsNothing'
  BY <1>1 DEF Control, IdleIsNothing, At, CacheCalls
<1>5. ReferenceIsUsed'
  BY <1>1 DEF Control, ReferenceIsUsed
<1>6. DeterminingIsAlone'
  BY <1>1, <1>3 DEF Control, DeterminingIsAlone
<1>7. CacheCallIsAlone'
  BY <1>1, <1>3 DEF Control, CacheCallIsAlone
<1>8. UnknownIsAlone'
  BY <1>2 DEF Control, UnknownIsAlone
<1>9. HoldersKnown'
  BY <1>1, Constants DEF Control, HoldersKnown, At, CacheCalls
<1> QED
  BY <1>4, <1>5, <1>6, <1>7, <1>8, <1>9 DEF Control

\* A call begins only as the rule "alone" allows.
LEMMA StartKeepsControl ==
  ASSUME CallsOK, LocksOK, Control, "alone" \in Rules, NEW t \in Threads,
         NEW op, NEW todo, NEW at \in Places \ {"idle"}, Start(t, op, todo, at),
         op \in {"clear", "import"} <=> at \in CacheCalls,
         UNCHANGED <<protocol, cacheMutex>>,
         protocolMutex' = Nobody \/ (protocolMutex' = t /\ at = "forget")
  PROVE  Control'
<1> DEFINE c == [NoCall EXCEPT !.op = op, !.todo = todo, !.at = at]
<1>1. c.op = op /\ c.at = at /\ ~c.ref /\ c.stage = "none"
  BY DEF NoCall
<1>2. call' = [call EXCEPT ![t] = c]
  BY DEF Start
<1> HIDE DEF c
<1>3. call'[t] = c /\ \A u \in Threads : u # t => call'[u] = call[u]
  BY <1>2 DEF CallsOK
<1>4. At(t, "idle") /\ call[t].stage = "none" /\ ~At(t, "forget") /\ call[t].at \notin WithCache
  BY DEF Start, Control, IdleIsNothing, At, WithCache
<1>5. \A u \in Threads : call[u].stage = "none" /\ call[u].op \notin {"clear", "import"}
  BY Constants DEF Start, Control, DeterminingIsAlone
<1>6. protocol = "none" \/ op \in {"clear", "import"} => Idle
  BY DEF Start
<1>7. Idle => Alone(t)'
  BY <1>3 DEF Idle, Alone, At
<1>8. IdleIsNothing'
  BY <1>1, <1>3 DEF Control, IdleIsNothing, At
<1>9. ReferenceIsUsed'
  BY <1>1, <1>3 DEF Control, ReferenceIsUsed
<1>10. DeterminingIsAlone'
  BY <1>1, <1>3, <1>5 DEF DeterminingIsAlone
<1>11. CacheCallIsAlone'
  BY <1>1, <1>3, <1>5, <1>6, <1>7 DEF Control, CacheCallIsAlone
<1>12. UnknownIsAlone'
  BY <1>3, <1>6 DEF UnknownIsAlone, Idle, At
<1>13. HoldersKnown'
  BY <1>1, <1>3, <1>4, Constants DEF Control, HoldersKnown, At
<1> QED
  BY <1>8, <1>9, <1>10, <1>11, <1>12, <1>13 DEF Control

\* A call begins only when nobody holds the mutex of the protocol.
LEMMA CallsKeepControl ==
  ASSUME CallsOK, LocksOK, Control, "alone" \in Rules, NEW t \in Threads, Calls(t)
  PROVE  Control'
<1> USE DEF node, locks, shared, Places, CacheCalls
<1>1. protocolMutex = Nobody
  BY DEF Calls, ReadEeprom, WriteEeprom, ApplyConfig, Ping, ClearEepromCache,
         UpdateEepromCacheFromNodeDiscovery, Start
<1>2. CASE \E l \in Locations : ReadEeprom(t, l)
  BY <1>1, <1>2, StartKeepsControl DEF ReadEeprom
<1>3. CASE \E l \in Plain, v \in Values : WriteEeprom(t, l, v)
  BY <1>1, <1>3, StartKeepsControl DEF WriteEeprom
<1>4. CASE ApplyConfig(t)
  BY <1>1, <1>4, StartKeepsControl DEF ApplyConfig
<1>5. CASE Ping(t)
  BY <1>1, <1>5, StartKeepsControl DEF Ping
<1>6. CASE ClearEepromCache(t)
  BY <1>1, <1>6, StartKeepsControl DEF ClearEepromCache
<1>7. CASE UpdateEepromCacheFromNodeDiscovery(t)
  BY <1>1, <1>7, StartKeepsControl DEF UpdateEepromCacheFromNodeDiscovery
<1> QED
  BY <1>2, <1>3, <1>4, <1>5, <1>6, <1>7 DEF Calls

\* A thread that has found the protocol, or has not, goes on.
LEMMA DeterminingEnds ==
  ASSUME CallsOK, LocksOK, Control, NEW t \in Threads, call[t].stage # "none",
         NEW c, call' = [call EXCEPT ![t] = c],
         c.op = call[t].op, c.stage = "none", c.at \notin CacheCalls \cup {"idle"},
         c.ref => c.at \in WithProtocol /\ protocol' # "none",
         protocolMutex' = Nobody, cacheMutex' \in {cacheMutex, Nobody},
         cacheMutex' = t => c.at \in WithCache
  PROVE  Control'
<1>1. call'[t] = c /\ \A u \in Threads : u # t => call'[u] = call[u]
  BY DEF CallsOK
<1>2. /\ \A u \in Threads : u # t => At(u, "idle") /\ At(u, "idle")'
      /\ call[t].op \notin {"clear", "import"}
  BY <1>1 DEF Control, DeterminingIsAlone, CacheCallIsAlone, Alone, At, Commands, CacheCalls
<1>3. \A u \in Threads : u # t =>
        call[u].op = "none" /\ ~call[u].ref /\ call[u].stage = "none" /\ call[u].at \notin WithCache
  BY <1>2 DEF Control, IdleIsNothing, At, WithCache
<1>4. IdleIsNothing'
  BY <1>1, <1>3 DEF IdleIsNothing, At, CacheCalls
<1>5. ReferenceIsUsed'
  BY <1>1, <1>3 DEF ReferenceIsUsed
<1>6. DeterminingIsAlone'
  BY <1>1, <1>3 DEF DeterminingIsAlone
<1>7. CacheCallIsAlone'
  BY <1>1, <1>2, <1>3 DEF CacheCallIsAlone, At, CacheCalls
<1>8. UnknownIsAlone'
  BY <1>2 DEF UnknownIsAlone
<1>9. HoldersKnown'
  BY <1>1, <1>3, Constants DEF Control, HoldersKnown
<1> QED
  BY <1>4, <1>5, <1>6, <1>7, <1>8, <1>9 DEF Control

LEMMA ThrownIs ==
  ASSUME CallsOK, NEW t \in Threads
  PROVE  /\ Thrown(t).op = call[t].op /\ Thrown(t).stage = "none" /\ ~Thrown(t).ref
         /\ Thrown(t).at \in {"clear", "failed"}
<1>1. call[t] \in Call
  BY DEF CallsOK, CallOK
<1> QED
  BY <1>1 DEF Thrown, Call, At

LEMMA AnsweredIs ==
  ASSUME NEW c, CallOK(c)
  PROVE  /\ Answered(c).op = c.op /\ Answered(c).stage = c.stage /\ ~Answered(c).ref
         /\ Answered(c).at \in {"lookupWrite", "written", "answered"}
<1>1. c \in Call
  BY DEF CallOK
<1>2. CASE c.op = "apply" /\ Len(c.todo) > 1
  BY <1>1, <1>2 DEF Answered, Call
<1>3. CASE c.op = "apply" /\ ~(Len(c.todo) > 1)
  BY <1>1, <1>3 DEF Answered, Call
<1>4. CASE c.op # "apply"
  BY <1>1, <1>4 DEF Answered, Call
<1> QED
  BY <1>2, <1>3, <1>4

LEMMA ProtocolKeepsControl ==
  ASSUME CallsOK, LocksOK, Control, NEW t \in Threads, ProtocolStep(t)
  PROVE  Control'
<1> USE DEF node, locks, shared, CacheCalls, WithProtocol, WithCache
<1>1. call[t] \in Call
  BY DEF CallsOK, CallOK
<1>2. CASE GetProtocol(t) /\ protocol # "none"
  <2> DEFINE c == [call[t] EXCEPT !.ref = TRUE]
  <2>1. c.op = call[t].op /\ c.at = call[t].at /\ c.stage = call[t].stage
    BY <1>1 DEF Call
  <2>2. call' = [call EXCEPT ![t] = c] /\ UNCHANGED <<locks, protocol>>
    BY <1>2 DEF GetProtocol
  <2>3. call[t].at \in Commands /\ call[t].stage = "none" /\ cacheMutex = t => call[t].at \in WithCache
    BY <1>2 DEF GetProtocol, Control, HoldersKnown
  <2>4. call[t].at \in Commands /\ call[t].stage = "none"
    BY <1>2 DEF GetProtocol
  <2> HIDE DEF c
  <2> QED
    BY <1>2, <2>1, <2>2, <2>3, <2>4, Continues DEF Commands
<1>3. CASE GetProtocol(t) /\ protocol = "none"
  <2> DEFINE c == [call[t] EXCEPT !.stage = "v1_1"]
  <2>1. c.op = call[t].op /\ c.at = call[t].at /\ c.stage = "v1_1" /\ c.ref = call[t].ref
    BY <1>1 DEF Call
  <2>2. call' = [call EXCEPT ![t] = c] /\ protocolMutex' = t /\ protocol' = "assumed" /\ UNCHANGED cacheMutex
    BY <1>3 DEF GetProtocol
  <2>3. call[t].at \in Commands /\ ~call[t].ref
    BY <1>3 DEF GetProtocol
  <2> HIDE DEF c
  <2>4. call'[t] = c /\ \A u \in Threads : u # t => call'[u] = call[u]
    BY <2>2 DEF CallsOK
  <2>5. \A u \in Threads : u # t => At(u, "idle")
    BY <1>3, <2>3 DEF Control, UnknownIsAlone, At, Commands
  <2>6. \A u \in Threads : u # t =>
          call[u].op = "none" /\ ~call[u].ref /\ call[u].stage = "none" /\ call[u].at = "idle"
    BY <2>5 DEF Control, IdleIsNothing, At
  <2>7. Alone(t)' /\ call[t].op \notin {"clear", "import"}
    BY <2>3, <2>4, <2>6 DEF Alone, At, Control, CacheCallIsAlone, Commands
  <2>8. IdleIsNothing'
    BY <2>1, <2>3, <2>4, <2>6 DEF IdleIsNothing, At, Commands
  <2>9. ReferenceIsUsed'
    BY <2>1, <2>3, <2>4, <2>6 DEF ReferenceIsUsed
  <2>10. DeterminingIsAlone'
    BY <2>1, <2>2, <2>3, <2>4, <2>6, <2>7 DEF DeterminingIsAlone
  <2>11. CacheCallIsAlone'
    BY <2>1, <2>3, <2>4, <2>6, <2>7 DEF CacheCallIsAlone, Commands
  <2>12. UnknownIsAlone'
    BY <2>2 DEF UnknownIsAlone
  <2>13. HoldersKnown'
    BY <2>1, <2>2, <2>4, <2>6 DEF Control, HoldersKnown
  <2> QED
    BY <2>8, <2>9, <2>10, <2>11, <2>12, <2>13 DEF Control
<1>4. ASSUME Determining(t)
      PROVE  call[t].stage # "none" /\ call[t].at \in Commands /\ (cacheMutex = t => call[t].at \in WithCache)
  BY <1>4 DEF Determining, Control, DeterminingIsAlone, HoldersKnown
<1>5. CASE VersionRead(t)
  <2> DEFINE c == [call[t] EXCEPT !.stage = "none", !.ref = TRUE]
  <2>1. c.op = call[t].op /\ c.at = call[t].at /\ c.stage = "none"
    BY <1>1 DEF Call
  <2>2. call' = [call EXCEPT ![t] = c]
    BY <1>5 DEF VersionRead
  <2>3. call[t].stage # "none" /\ call[t].at \in Commands /\ (cacheMutex = t => call[t].at \in WithCache)
    BY <1>4, <1>5 DEF VersionRead
  <2> HIDE DEF c
  <2> QED
    BY <1>5, <2>1, <2>2, <2>3, DeterminingEnds DEF VersionRead, Commands
<1>6. CASE OlderProtocol(t)
  <2> DEFINE c == [call[t] EXCEPT !.stage = "v1_0"]
  <2>1. c.op = call[t].op /\ c.at = call[t].at /\ c.ref = call[t].ref /\ c.stage = "v1_0"
    BY <1>1 DEF Call
  <2>2. call' = [call EXCEPT ![t] = c] /\ UNCHANGED <<locks, protocol>>
    BY <1>6 DEF OlderProtocol
  <2>3. call[t].stage # "none"
    BY <1>4, <1>6 DEF OlderProtocol
  <2> HIDE DEF c
  <2>4. call'[t] = c /\ \A u \in Threads : u # t => call'[u] = call[u]
    BY <2>2 DEF CallsOK
  <2>5. \A u \in Threads : /\ call'[u].op = call[u].op
                            /\ call'[u].at = call[u].at
                            /\ call'[u].ref = call[u].ref
                            /\ (call'[u].stage = "none") = (call[u].stage = "none")
    BY <2>1, <2>3, <2>4
  <2>6. IdleIsNothing' /\ ReferenceIsUsed'
    BY <2>2, <2>5 DEF Control, IdleIsNothing, ReferenceIsUsed, At
  <2>7. DeterminingIsAlone' /\ CacheCallIsAlone'
    BY <2>2, <2>5 DEF Control, DeterminingIsAlone, CacheCallIsAlone, Alone, At
  <2>8. UnknownIsAlone' /\ HoldersKnown'
    BY <2>2, <2>5 DEF Control, UnknownIsAlone, HoldersKnown, At
  <2> QED
    BY <2>6, <2>7, <2>8 DEF Control
<1>7. CASE NotDetermined(t) \/ PortFailsDetermining(t)
  <2>1. call[t].stage # "none" /\ call[t].at \in Commands
    BY <1>4, <1>7 DEF NotDetermined, PortFailsDetermining
  <2>2. /\ call' = [call EXCEPT ![t] = Thrown(t)] /\ protocolMutex' = Nobody
        /\ cacheMutex' \in {cacheMutex, Nobody} /\ cacheMutex' # t
    BY <1>7, Constants DEF NotDetermined, PortFailsDetermining, Throw
  <2> QED
    BY <2>1, <2>2, ThrownIs, DeterminingEnds
<1> QED
  BY <1>2, <1>3, <1>5, <1>6, <1>7 DEF ProtocolStep

LEMMA Steps ==
  ASSUME CallsOK, LocksOK, Control, NEW t \in Threads,
         call[t].at \notin CacheCalls \cup {"idle", "answered"},
         call[t].at \in Commands => call[t].ref,
         NEW c, call' = [call EXCEPT ![t] = c],
         c.op = call[t].op, c.stage \in {call[t].stage, "none"}, c.at \notin CacheCalls \cup {"idle"},
         c.ref => call[t].ref /\ c.at \in WithProtocol,
         UNCHANGED <<protocol, protocolMutex>>,
         cacheMutex' = cacheMutex \/ cacheMutex' \in {t, Nobody},
         cacheMutex' = t => c.at \in WithCache
  PROVE  Control'
<1>1. call[t].stage = "none"
  BY DEF Control, DeterminingIsAlone
<1>2. call[t].ref => protocol # "none"
  BY DEF Control, ReferenceIsUsed
<1> QED
  BY <1>1, <1>2, Continues

\* A command, or a retry of it, ends with an exception.
LEMMA ThrowKeepsControl ==
  ASSUME CallsOK, LocksOK, Control, NEW t \in Threads, call[t].at \in Commands, call[t].ref,
         Throw(t), UNCHANGED <<protocol, protocolMutex>>
  PROVE  Control'
<1>1. cacheMutex' \in {cacheMutex, Nobody} /\ cacheMutex' # t
  BY Constants DEF Throw
<1>2. call' = [call EXCEPT ![t] = Thrown(t)]
  BY DEF Throw
<1> QED
  BY <1>1, <1>2, ThrownIs, Steps DEF Commands, CacheCalls

LEMMA ReadKeepsControl ==
  ASSUME CallsOK, LocksOK, Control, NEW t \in Threads, ReadStep(t)
  PROVE  Control'
<1> USE DEF node, locks, shared, CacheCalls, WithProtocol, WithCache, Commands
<1>1. call[t] \in Call /\ CallOK(call[t])
  BY DEF CallsOK, CallOK
<1>2. call[t].ref => call[t].at \in WithProtocol
  BY DEF Control, ReferenceIsUsed
<1>3. cacheMutex = t => call[t].at \in WithCache
  BY DEF Control, HoldersKnown
<1>4. CASE Lookup(t)
  <2>1. call[t].at = "lookup" /\ ~call[t].ref /\ cacheMutex' # t
    BY <1>2, <1>4, Constants DEF Lookup, At
  <2>2. ASSUME NEW v, NEW c, c = [call[t] EXCEPT !.at = "answered", !.todo[1].val = v]
        PROVE  c.op = call[t].op /\ c.stage = call[t].stage /\ c.ref = call[t].ref /\ c.at = "answered"
    BY <1>1, <2>2 DEF Call
  <2>3. ASSUME NEW c, c = [call[t] EXCEPT !.at = "lock"]
        PROVE  c.op = call[t].op /\ c.stage = call[t].stage /\ c.ref = call[t].ref /\ c.at = "lock"
    BY <1>1, <2>3 DEF Call
  <2>4. \E c : /\ call' = [call EXCEPT ![t] = c]
               /\ c.op = call[t].op /\ c.stage = call[t].stage /\ c.ref = call[t].ref
               /\ c.at \in {"answered", "lock"}
    <3>1. CASE Loc(t) \in DOMAIN cache \ Volatile
      <4>1. call' = [call EXCEPT ![t] = [call[t] EXCEPT !.at = "answered", !.todo[1].val = cache[Loc(t)]]]
        BY <1>4, <3>1 DEF Lookup
      <4> QED
        BY <2>2, <4>1
    <3>2. CASE ~(Loc(t) \in DOMAIN cache \ Volatile)
      <4>1. call' = [call EXCEPT ![t] = [call[t] EXCEPT !.at = "lock"]]
        BY <1>4, <3>2 DEF Lookup, Goto
      <4> QED
        BY <2>3, <4>1
    <3> QED
      BY <3>1, <3>2
  <2>5. UNCHANGED <<protocol, protocolMutex, cacheMutex>>
    BY <1>4 DEF Lookup
  <2> QED
    BY <2>1, <2>4, <2>5, Steps
<1>5. CASE LockCache(t)
  <2>1. call[t].at = "lock" /\ ~call[t].ref
    BY <1>2, <1>5 DEF LockCache, At
  <2> DEFINE to == IF settings = "own" THEN "group" ELSE "single"
             c  == [call[t] EXCEPT !.at = to]
  <2>2. /\ call' = [call EXCEPT ![t] = c]
        /\ c.op = call[t].op /\ c.stage = call[t].stage /\ c.ref = call[t].ref
        /\ c.at \in {"group", "single"}
    BY <1>1, <1>5 DEF LockCache, Goto, Call
  <2> HIDE DEF c
  <2>3. UNCHANGED <<protocol, protocolMutex>> /\ cacheMutex' = t
    BY <1>5 DEF LockCache
  <2> QED
    BY <2>1, <2>2, <2>3, Steps
<1>6. CASE GroupRead(t) \/ SingleRead(t)
  <2>1. call[t].at \in {"group", "single"} /\ call[t].ref
    BY <1>6 DEF GroupRead, SingleRead, Commanding, At
  <2>2. ASSUME NEW f, NEW c, c = [call[t] EXCEPT !.at = "parse", !.fetched = f]
        PROVE  c.op = call[t].op /\ c.stage = call[t].stage /\ c.at = "parse"
    BY <1>1, <2>2 DEF Call
  <2>3. ASSUME NEW c, c = [call[t] EXCEPT !.at = "single", !.ref = FALSE, !.tries = 1]
        PROVE  c.op = call[t].op /\ c.stage = call[t].stage /\ c.at = "single"
    BY <1>1, <2>3 DEF Call
  <2>4. \/ \E f : call' = [call EXCEPT ![t] = [call[t] EXCEPT !.at = "parse", !.fetched = f]]
        \/ call' = [call EXCEPT ![t] = [call[t] EXCEPT !.at = "single", !.ref = FALSE, !.tries = 1]]
    <3>1. CASE call' = [call EXCEPT ![t].at = "parse", ![t].fetched = Restrict(device, Group[Loc(t)])]
      <4>1. call' = [call EXCEPT ![t] = [call[t] EXCEPT !.at = "parse",
                                                        !.fetched = Restrict(device, Group[Loc(t)])]]
        BY <3>1
      <4> QED
        BY <4>1
    <3>2. CASE call' = [call EXCEPT ![t].at = "parse", ![t].fetched = Only(Loc(t), device[Loc(t)])]
      <4>1. call' = [call EXCEPT ![t] = [call[t] EXCEPT !.at = "parse",
                                                        !.fetched = Only(Loc(t), device[Loc(t)])]]
        BY <3>2
      <4> QED
        BY <4>1
    <3>3. CASE call' = [call EXCEPT ![t].at = "single", ![t].ref = FALSE, ![t].tries = 1]
      BY <3>3
    <3> QED
      BY <1>6, <3>1, <3>2, <3>3 DEF GroupRead, SingleRead
  <2>5. \E c : /\ call' = [call EXCEPT ![t] = c]
               /\ c.op = call[t].op /\ c.stage = call[t].stage /\ c.at \in {"parse", "single"}
    <3>1. CASE \E f : call' = [call EXCEPT ![t] = [call[t] EXCEPT !.at = "parse", !.fetched = f]]
      <4>1. PICK f : call' = [call EXCEPT ![t] = [call[t] EXCEPT !.at = "parse", !.fetched = f]]
        BY <3>1
      <4> DEFINE c == [call[t] EXCEPT !.at = "parse", !.fetched = f]
      <4>2. c.op = call[t].op /\ c.stage = call[t].stage /\ c.at = "parse"
        BY <2>2
      <4>3. call' = [call EXCEPT ![t] = c]
        BY <4>1
      <4> HIDE DEF c
      <4> QED
        BY <4>2, <4>3
    <3>2. CASE call' = [call EXCEPT ![t] = [call[t] EXCEPT !.at = "single", !.ref = FALSE, !.tries = 1]]
      BY <2>3, <3>2
    <3> QED
      BY <2>4, <3>1, <3>2
  <2>6. UNCHANGED <<protocol, protocolMutex, cacheMutex>>
    BY <1>6 DEF GroupRead, SingleRead
  <2> QED
    BY <2>1, <2>5, <2>6, Steps
<1>7. CASE SingleReadFails(t)
  <2>1. call[t].at = "single" /\ call[t].ref /\ UNCHANGED <<protocol, protocolMutex>>
    BY <1>7 DEF SingleReadFails, Commanding, At
  <2>2. CASE call[t].tries < Retries
    <3> DEFINE c == [call[t] EXCEPT !.tries = call[t].tries + 1, !.ref = FALSE]
    <3>1. c.op = call[t].op /\ c.stage = call[t].stage /\ c.at = "single" /\ ~c.ref
      BY <1>1, <2>1 DEF Call
    <3>2. call' = [call EXCEPT ![t] = c] /\ UNCHANGED cacheMutex
      BY <1>7, <2>2 DEF SingleReadFails
    <3> HIDE DEF c
    <3> QED
      BY <2>1, <3>1, <3>2, Steps
  <2>3. CASE ~(call[t].tries < Retries)
    BY <1>7, <2>1, <2>3, ThrowKeepsControl DEF SingleReadFails
  <2> QED
    BY <2>2, <2>3
<1>8. CASE ParseRead(t)
  <2>1. call[t].at = "parse"
    BY <1>8 DEF ParseRead, At
  <2>2. UNCHANGED <<protocol, protocolMutex>> /\ cacheMutex' = Nobody
    BY <1>8 DEF ParseRead
  <2> DEFINE c == [call[t] EXCEPT !.todo[1].val = cache'[Loc(t)]]
  <2>3. c \in [op : {call[t].op}, at : {"parse"}, todo : {c.todo}, tries : Nat, ref : BOOLEAN,
                stage : {call[t].stage}, fetched : Partial]
    BY <1>1, <2>1 DEF Call
  <2>4. call' = [call EXCEPT ![t] = Answered(c)]
    BY <1>8 DEF ParseRead
  <2> HIDE DEF c
  <2>5. /\ Answered(c).op = call[t].op /\ Answered(c).stage = call[t].stage /\ ~Answered(c).ref
        /\ Answered(c).at \in {"lookupWrite", "written", "answered"}
    <3>1. CASE c.op = "apply" /\ Len(c.todo) > 1
      BY <2>3, <3>1 DEF Answered
    <3>2. CASE c.op = "apply" /\ ~(Len(c.todo) > 1)
      BY <2>3, <3>2 DEF Answered
    <3>3. CASE c.op # "apply"
      BY <2>3, <3>3 DEF Answered
    <3> QED
      BY <3>1, <3>2, <3>3
  <2> QED
    BY <2>1, <2>2, <2>4, <2>5, Steps, Constants
<1> QED
  BY <1>4, <1>5, <1>6, <1>7, <1>8 DEF ReadStep

LEMMA WriteKeepsControl ==
  ASSUME CallsOK, LocksOK, Control, NEW t \in Threads, WriteStep(t)
  PROVE  Control'
<1> USE DEF node, locks, shared, CacheCalls, WithProtocol, WithCache, Commands
<1>1. call[t] \in Call /\ CallOK(call[t])
  BY DEF CallsOK, CallOK
<1>2. call[t].ref => call[t].at \in WithProtocol
  BY DEF Control, ReferenceIsUsed
<1>3. cacheMutex = t => call[t].at \in WithCache
  BY DEF Control, HoldersKnown
<1>4. UNCHANGED <<protocol, protocolMutex, cacheMutex>>
  BY DEF WriteStep, LookupWrite, WriteCommand, WriteCommandFails, UpdateCache, ClearCacheLocation
<1>5. ASSUME NEW to \in {"write", "update", "failed"}, NEW c, c = [call[t] EXCEPT !.at = to]
      PROVE  c.op = call[t].op /\ c.stage = call[t].stage /\ c.ref = call[t].ref /\ c.at = to
  BY <1>1, <1>5 DEF Call
<1>6. CASE LookupWrite(t)
  <2>1. call[t].at = "lookupWrite" /\ ~call[t].ref /\ cacheMutex' # t
    BY <1>2, <1>3, <1>4, <1>6 DEF LookupWrite, At
  <2>2. \/ call' = [call EXCEPT ![t] = Answered(call[t])]
        \/ call' = [call EXCEPT ![t] = [call[t] EXCEPT !.at = "write"]]
    BY <1>6 DEF LookupWrite
  <2>3. CASE call' = [call EXCEPT ![t] = Answered(call[t])]
    BY <1>1, <1>4, <2>1, <2>3, AnsweredIs, Steps
  <2>4. CASE call' = [call EXCEPT ![t] = [call[t] EXCEPT !.at = "write"]]
    BY <1>4, <1>5, <2>1, <2>4, Steps
  <2> QED
    BY <2>2, <2>3, <2>4
<1>7. CASE WriteCommand(t)
  <2>1. call[t].at = "write" /\ call[t].ref /\ cacheMutex' # t
    BY <1>3, <1>4, <1>7 DEF WriteCommand, Commanding, At
  <2>2. call' = [call EXCEPT ![t] = [call[t] EXCEPT !.at = "update"]]
    BY <1>7 DEF WriteCommand, Goto
  <2> QED
    BY <1>4, <1>5, <2>1, <2>2, Steps
<1>8. CASE WriteCommandFails(t)
  <2>1. call[t].at = "write" /\ call[t].ref /\ cacheMutex' # t
    BY <1>3, <1>4, <1>8 DEF WriteCommandFails, Commanding, At
  <2>2. CASE call' = [call EXCEPT ![t].tries = @ + 1, ![t].ref = FALSE]
    <3> DEFINE c == [call[t] EXCEPT !.tries = call[t].tries + 1, !.ref = FALSE]
    <3>1. c.op = call[t].op /\ c.stage = call[t].stage /\ c.at = "write" /\ ~c.ref
      BY <1>1, <2>1 DEF Call
    <3>2. call' = [call EXCEPT ![t] = c]
      BY <2>2
    <3> HIDE DEF c
    <3> QED
      BY <1>4, <2>1, <3>1, <3>2, Steps
  <2>3. CASE call' = [call EXCEPT ![t] = Thrown(t)]
    BY <1>4, <2>1, <2>3, ThrownIs, Steps
  <2> QED
    BY <1>8, <2>2, <2>3 DEF WriteCommandFails
<1>9. CASE UpdateCache(t)
  <2>1. call[t].at = "update" /\ cacheMutex' # t
    BY <1>3, <1>4, <1>9 DEF UpdateCache, At
  <2>2. call' = [call EXCEPT ![t] = Answered(call[t])]
    BY <1>9 DEF UpdateCache
  <2> QED
    BY <1>1, <1>4, <2>1, <2>2, AnsweredIs, Steps
<1>10. CASE ClearCacheLocation(t)
  <2>1. call[t].at = "clear" /\ ~call[t].ref /\ cacheMutex' # t
    BY <1>2, <1>3, <1>4, <1>10 DEF ClearCacheLocation, At
  <2>2. call' = [call EXCEPT ![t] = [call[t] EXCEPT !.at = "failed"]]
    BY <1>10 DEF ClearCacheLocation, Goto
  <2> QED
    BY <1>4, <1>5, <2>1, <2>2, Steps
<1> QED
  BY <1>6, <1>7, <1>8, <1>9, <1>10 DEF WriteStep

\* The cache is cleared or replaced by a thread that is alone.
LEMMA CacheCallKeepsControl ==
  ASSUME CallsOK, LocksOK, Control, NEW t \in Threads, call[t].at \in CacheCalls,
         NEW to \in CacheCalls \cup {"answered"}, Goto(t, to), UNCHANGED cacheMutex,
         protocolMutex' = Nobody
  PROVE  Control'
<1> DEFINE c == [call[t] EXCEPT !.at = to]
<1>1. c.op = call[t].op /\ c.at = to /\ c.ref = call[t].ref /\ c.stage = call[t].stage
  BY DEF CallsOK, CallOK, Call
<1>2. call' = [call EXCEPT ![t] = c]
  BY DEF Goto
<1> HIDE DEF c
<1>3. call'[t] = c /\ \A u \in Threads : u # t => call'[u] = call[u]
  BY <1>2 DEF CallsOK
<1>4. /\ call[t].op \in {"clear", "import"} /\ \A u \in Threads : u # t => At(u, "idle")
      /\ ~call[t].ref /\ call[t].stage = "none"
  BY DEF Control, CacheCallIsAlone, ReferenceIsUsed, DeterminingIsAlone, Alone, CacheCalls,
         WithProtocol, Commands
<1>5. \A u \in Threads : u # t =>
        call[u].op = "none" /\ ~call[u].ref /\ call[u].stage = "none" /\ call[u].at = "idle"
  BY <1>4 DEF Control, IdleIsNothing, At
<1>6. Alone(t)'
  BY <1>3, <1>5 DEF Alone, At
<1>7. cacheMutex # t
  BY DEF Control, HoldersKnown, CacheCalls, WithCache
<1>8. IdleIsNothing' /\ ReferenceIsUsed' /\ DeterminingIsAlone'
  BY <1>1, <1>3, <1>4, <1>5 DEF IdleIsNothing, ReferenceIsUsed, DeterminingIsAlone, At, CacheCalls
<1>9. CacheCallIsAlone'
  BY <1>1, <1>3, <1>4, <1>5, <1>6 DEF CacheCallIsAlone, CacheCalls
<1>10. UnknownIsAlone'
  BY <1>3, <1>5 DEF UnknownIsAlone, At
<1>11. HoldersKnown'
  BY <1>1, <1>3, <1>5, <1>7, Constants DEF Control, HoldersKnown, WithCache
<1> QED
  BY <1>8, <1>9, <1>10, <1>11 DEF Control

LEMMA ReturnKeepsControl ==
  ASSUME CallsOK, LocksOK, Control, NEW t \in Threads, Return(t)
  PROVE  Control'
<1>1. call'[t] = NoCall /\ \A u \in Threads : u # t => call'[u] = call[u]
  BY DEF CallsOK, Return
<1>2. call[t].at \in {"answered", "failed"} /\ UNCHANGED <<protocol, protocolMutex, cacheMutex>>
  BY DEF Return, locks, shared
<1>3. NoCall.op = "none" /\ NoCall.at = "idle" /\ ~NoCall.ref /\ NoCall.stage = "none"
  BY DEF NoCall
<1>4. protocolMutex # t /\ cacheMutex # t
  BY <1>2 DEF Control, HoldersKnown, DeterminingIsAlone, Commands, WithCache, At
<1>5. \A u \in Threads : Alone(u) => Alone(u)'
  BY <1>1, <1>3 DEF Alone, At
<1>6. IdleIsNothing' /\ ReferenceIsUsed'
  BY <1>1, <1>2, <1>3 DEF Control, IdleIsNothing, ReferenceIsUsed, At
<1>7. DeterminingIsAlone' /\ CacheCallIsAlone'
  BY <1>1, <1>2, <1>3, <1>5 DEF Control, DeterminingIsAlone, CacheCallIsAlone, CacheCalls
<1>8. UnknownIsAlone' /\ HoldersKnown'
  BY <1>1, <1>2, <1>3, <1>4 DEF Control, UnknownIsAlone, HoldersKnown, At
<1> QED
  BY <1>6, <1>7, <1>8 DEF Control

LEMMA OtherKeepsControl ==
  ASSUME CallsOK, LocksOK, Control, NEW t \in Threads, OtherStep(t)
  PROVE  Control'
<1> USE DEF node, locks, shared, CacheCalls, WithProtocol, WithCache, Commands
<1>1. call[t] \in Call
  BY DEF CallsOK, CallOK
<1>2. call[t].ref => call[t].at \in WithProtocol
  BY DEF Control, ReferenceIsUsed
<1>3. cacheMutex = t => call[t].at \in WithCache
  BY DEF Control, HoldersKnown
<1>4. CASE Written(t)
  <2> DEFINE to == IF hasWritten THEN "reset" ELSE "answered"
             c  == [call[t] EXCEPT !.at = to]
  <2>1. call[t].at = "written" /\ ~call[t].ref /\ cacheMutex # t
    BY <1>2, <1>3, <1>4 DEF Written, At
  <2>2. /\ c.op = call[t].op /\ c.stage = call[t].stage /\ c.ref = call[t].ref
        /\ c.at \in {"reset", "answered"}
    BY <1>1 DEF Call
  <2>3. call' = [call EXCEPT ![t] = c] /\ UNCHANGED <<protocol, protocolMutex, cacheMutex>>
    BY <1>4 DEF Written, Goto
  <2> HIDE DEF c
  <2> QED
    BY <2>1, <2>2, <2>3, Steps
<1>5. CASE ResetNode(t)
  <2>1. call[t].at = "reset" /\ call[t].ref /\ cacheMutex # t
    BY <1>3, <1>5 DEF ResetNode, Commanding, At
  <2>2. UNCHANGED <<protocol, protocolMutex, cacheMutex>>
    BY <1>5 DEF ResetNode
  <2>3. CASE call' = [call EXCEPT ![t] = [call[t] EXCEPT !.at = "answered", !.ref = FALSE, !.tries = 0]]
    <3> DEFINE c == [call[t] EXCEPT !.at = "answered", !.ref = FALSE, !.tries = 0]
    <3>1. c.op = call[t].op /\ c.stage = call[t].stage /\ c.at = "answered" /\ ~c.ref
      BY <1>1 DEF Call
    <3>2. call' = [call EXCEPT ![t] = c]
      BY <2>3
    <3> HIDE DEF c
    <3> QED
      BY <2>1, <2>2, <3>1, <3>2, Steps
  <2>4. CASE call' = [call EXCEPT ![t].tries = @ + 1, ![t].ref = FALSE]
    <3> DEFINE c == [call[t] EXCEPT !.tries = call[t].tries + 1, !.ref = FALSE]
    <3>1. c.op = call[t].op /\ c.stage = call[t].stage /\ c.at = "reset" /\ ~c.ref
      BY <1>1, <2>1 DEF Call
    <3>2. call' = [call EXCEPT ![t] = c]
      BY <2>4
    <3> HIDE DEF c
    <3> QED
      BY <2>1, <2>2, <3>1, <3>2, Steps
  <2> QED
    BY <1>5, <2>3, <2>4 DEF ResetNode
<1>6. CASE PingDone(t)
  <2> DEFINE c == [call[t] EXCEPT !.at = "answered", !.ref = FALSE]
  <2>1. call[t].at = "ping" /\ call[t].ref /\ cacheMutex # t
    BY <1>3, <1>6 DEF PingDone, Commanding, At
  <2>2. c.op = call[t].op /\ c.stage = call[t].stage /\ c.at = "answered" /\ ~c.ref
    BY <1>1 DEF Call
  <2>3. call' = [call EXCEPT ![t] = c] /\ UNCHANGED <<protocol, protocolMutex, cacheMutex>>
    BY <1>6 DEF PingDone
  <2> HIDE DEF c
  <2> QED
    BY <2>1, <2>2, <2>3, Steps
<1>7. CASE PortFails(t)
  BY <1>7, ThrowKeepsControl DEF PortFails
<1>8. CASE ClearCache(t)
  BY <1>8, CacheCallKeepsControl DEF ClearCache, At
<1>9. CASE ImportCache(t)
  <2>1. call[t].at = "import" /\ UNCHANGED <<cacheMutex, protocolMutex, protocol>> /\ Goto(t, "forgetProtocol")
    BY <1>9 DEF ImportCache, At
  <2>2. protocolMutex = Nobody
    <3>1. \A u \in Threads : protocolMutex # u
      BY <2>1 DEF Control, HoldersKnown, DeterminingIsAlone, CacheCallIsAlone, Alone, At
    <3> QED
      BY <3>1 DEF LocksOK
  <2> QED
    BY <2>1, <2>2, CacheCallKeepsControl
<1>10. CASE ForgetProtocol(t)
  BY <1>10, CacheCallKeepsControl DEF ForgetProtocol, At
<1>11. CASE Return(t)
  BY <1>11, ReturnKeepsControl
<1> QED
  BY <1>4, <1>5, <1>6, <1>7, <1>8, <1>9, <1>10, <1>11 DEF OtherStep

\* Every step of every thread, and of the Node, keeps Control.
LEMMA ControlKept ==
  ASSUME "alone" \in Rules
  PROVE  TypeInv /\ Control /\ [Next]_vars => Control'
<1> SUFFICES ASSUME TypeInv, Control, [Next]_vars
             PROVE  Control'
  OBVIOUS
<1>1. CASE NodeActs \/ UNCHANGED vars
  <2>1. UNCHANGED <<locks, shared, call>>
    BY <1>1 DEF NodeActs, vars
  <2> QED
    BY <2>1 DEF locks, shared, Control, IdleIsNothing, ReferenceIsUsed, DeterminingIsAlone,
                CacheCallIsAlone, UnknownIsAlone, HoldersKnown, Alone, At
<1>2. ASSUME NEW t \in Threads, Calls(t) \/ Step(t)
      PROVE  Control'
  BY <1>2, CallsKeepControl, ProtocolKeepsControl, ReadKeepsControl, WriteKeepsControl,
     OtherKeepsControl DEF Step, TypeInv
<1> QED
  BY <1>1, <1>2 DEF Next

\* The types and Control together hold in every behaviour.
LEMMA ControlHolds ==
  ASSUME "alone" \in Rules
  PROVE  Spec => [](TypeInv /\ Control)
<1>1. Init => TypeInv /\ Control
  BY InitType, InitControl
<1>2. TypeInv /\ Control /\ [Next]_vars => (TypeInv /\ Control)'
  BY TypeKept, ControlKept
<1> QED
  BY <1>1, <1>2, PTL DEF Spec

\* WirelessNode_Impl.cpp:148 hands out a reference to the protocol, and the mutex
\* is free again: no cleared or replaced cache takes the protocol away from a
\* command of another thread, as long as the first call, and those two, are made
\* by one thread at a time.
THEOREM UsedProtocolStays ==
  ASSUME "alone" \in Rules
  PROVE  Spec => []ReferenceIsValid
<1>1. Control => ReferenceIsValid
  BY DEF Control, ReferenceIsUsed, ReferenceIsValid
<1> QED
  BY <1>1, ControlHolds, PTL

\* readEeprom takes the cache's mutex and then the protocol's, the protocol's
\* determination the two in the other order (NodeEeprom.cpp:84 and
\* WirelessNode_Impl.cpp:136): the threads in a call do not all wait for each other.
THEOREM DeadlockFree ==
  ASSUME "alone" \in Rules
  PROVE  Spec => []NoDeadlock
<1>1. TypeInv /\ Control => NoDeadlock
  <2> SUFFICES ASSUME TypeInv, Control, NEW t \in Threads, ~At(t, "idle"),
                      \A u \in Threads : ~At(u, "idle") => Waits(u)
               PROVE  FALSE
    BY DEF NoDeadlock, Idle
  <2>1. \A p, u \in Threads : protocolMutex = p /\ u # p => At(u, "idle")
    BY DEF Control, HoldersKnown, DeterminingIsAlone, CacheCallIsAlone, Alone, At, CacheCalls
  <2>2. \A u \in Threads : ~At(u, "idle") => FreeFor(protocolMutex, u)
    BY <2>1 DEF TypeInv, LocksOK, FreeFor
  <2>3. \A u \in Threads : ~At(u, "idle") => ~FreeFor(cacheMutex, u)
    BY <2>2 DEF Waits
  <2>4. PICK c \in Threads : cacheMutex = c
    BY <2>3 DEF TypeInv, LocksOK, FreeFor
  <2>5. ~At(c, "idle")
    BY <2>4 DEF Control, HoldersKnown, At, WithCache
  <2> QED
    BY <2>3, <2>4, <2>5 DEF FreeFor
<1> QED
  BY <1>1, ControlHolds, PTL

-----------------------------------------------------------------------------
(* The cache and the device *)

\* Between the command that may write a location and the cache that says so.
DirtyAt  == {"write", "update", "clear"}
Dirty(l) == \E t \in Threads : call[t].at \in DirtyAt /\ Loc(t) = l

OneWriter == \A t, u \in Writers : t = u

WritersKnown ==
  \A t \in Threads :
    /\ call[t].op \in {"write", "apply"} => t \in Writers
    /\ call[t].at \in DirtyAt \cup {"lookupWrite"} => call[t].op \in {"write", "apply"}

ReadersHold == \A t \in Threads : call[t].at \in WithCache => cacheMutex = t

News == \A l \in Discovered \ Volatile : packet[l] = device[l]
PacketIsNews == DOMAIN packet = Discovered /\ \A t \in Threads : At(t, "import") => News

CachedOrDirty == \A l \in DOMAIN cache \ Volatile : cache[l] = device[l] \/ Dirty(l)

FetchedOrDirty ==
  \A t \in Threads : At(t, "parse") =>
    \A l \in DOMAIN call[t].fetched \ Volatile : call[t].fetched[l] = device[l] \/ Dirty(l)

WrittenOut ==
  \A t \in Threads : At(t, "update") /\ Loc(t) \notin Volatile
    => device[Loc(t)] = Head(call[t].todo).val

Coherent ==
  /\ WritersKnown /\ ReadersHold /\ PacketIsNews
  /\ CachedOrDirty /\ FetchedOrDirty /\ WrittenOut

\* The cache is empty at first.
LEMMA InitCoherent == Init => Coherent
<1> SUFFICES ASSUME Init PROVE Coherent
  OBVIOUS
<1>1. \A t \in Threads : call[t].at = "idle" /\ call[t].op = "none"
  BY DEF Init, NoCall
<1>2. DOMAIN cache = {} /\ DOMAIN packet = Discovered
  BY DEF Init
<1> QED
  BY <1>1, <1>2 DEF Coherent, WritersKnown, ReadersHold, PacketIsNews, CachedOrDirty,
     FetchedOrDirty, WrittenOut, At, DirtyAt, WithCache

\* What thread t may do: others keep their places, and it passes the mutex of the
\* cache on only when it leaves the places where it has it.
Moved(t) ==
  /\ \A u \in Threads : u # t => call'[u] = call[u]
  /\ cacheMutex' = cacheMutex \/ cacheMutex \in {t, Nobody}
  /\ call'[t].at \in WithCache => cacheMutex' = t
  /\ call'[t].op \in {"write", "apply"} => t \in Writers
  /\ call'[t].at \in DirtyAt \cup {"lookupWrite"} => call'[t].op \in {"write", "apply"}

LEMMA ThreadsKept ==
  ASSUME Coherent, NEW t \in Threads, Moved(t)
  PROVE  WritersKnown' /\ ReadersHold'
<1>1. WritersKnown'
  BY DEF Coherent, WritersKnown, Moved
<1>2. ASSUME NEW u \in Threads, call'[u].at \in WithCache
      PROVE  cacheMutex' = u
  <2>1. CASE u = t
    BY <1>2, <2>1 DEF Moved
  <2>2. CASE u # t
    BY <1>2, <2>2, Constants DEF Moved, Coherent, ReadersHold
  <2> QED
    BY <2>1, <2>2
<1> QED
  BY <1>1, <1>2 DEF ReadersHold

\* Nothing that is being written is forgotten.
Insists(t) ==
  call[t].at \in DirtyAt => call'[t].at \in DirtyAt /\ call'[t].todo = call[t].todo

LEMMA DirtyKept ==
  ASSUME NEW t \in Threads, Moved(t), Insists(t)
  PROVE  \A l : Dirty(l) => Dirty(l)'
<1> SUFFICES ASSUME NEW l, Dirty(l) PROVE Dirty(l)'
  OBVIOUS
<1>1. PICK u \in Threads : call[u].at \in DirtyAt /\ Loc(u) = l
  BY DEF Dirty
<1>2. call'[u].at \in DirtyAt /\ call'[u].todo = call[u].todo
  BY <1>1 DEF Moved, Insists
<1>3. Loc(u)' = l
  BY <1>1, <1>2 DEF Loc
<1> QED
  BY <1>2, <1>3 DEF Dirty

\* A step that leaves the Node and the cache alone.
LEMMA QuietStep ==
  ASSUME Coherent, NEW t \in Threads, Moved(t), Insists(t), UNCHANGED <<device, packet, cache>>,
         call'[t].at # "update",
         call'[t].at = "import" => News,
         call'[t].at = "parse" =>
           \A l \in DOMAIN call'[t].fetched \ Volatile : call'[t].fetched[l] = device[l]
  PROVE  Coherent'
<1>1. \A l : Dirty(l) => Dirty(l)'
  BY DirtyKept
<1>2. CachedOrDirty'
  BY <1>1 DEF Coherent, CachedOrDirty
<1>3. ASSUME NEW u \in Threads, call'[u].at = "parse", NEW l \in DOMAIN call'[u].fetched \ Volatile
      PROVE  call'[u].fetched[l] = device[l] \/ Dirty(l)'
  <2>1. CASE u = t
    BY <1>3, <2>1
  <2>2. CASE u # t
    BY <1>1, <1>3, <2>2 DEF Moved, Coherent, FetchedOrDirty, At
  <2> QED
    BY <2>1, <2>2
<1>4. FetchedOrDirty'
  BY <1>3 DEF FetchedOrDirty, At
<1>5. WrittenOut'
  BY DEF Coherent, WrittenOut, Moved, At, Loc
<1>6. PacketIsNews'
  BY DEF Coherent, PacketIsNews, News, Moved, At
<1> QED
  BY <1>2, <1>4, <1>5, <1>6, ThreadsKept DEF Coherent

LEMMA CallsKeepCoherent ==
  ASSUME TypeInv, Coherent, "fresh" \in Rules, NEW t \in Threads, Calls(t)
  PROVE  Coherent'
<1> USE DEF node, locks, shared
<1>1. ASSUME NEW op, NEW todo, NEW at \in {"lookup", "lookupWrite", "ping", "forget", "import"},
             Start(t, op, todo, at), UNCHANGED <<device, packet, cache, cacheMutex>>,
             op \in {"write", "apply"} => t \in Writers,
             at = "lookupWrite" => op \in {"write", "apply"},
             at = "import" => News
      PROVE  Coherent'
  <2> DEFINE c == [NoCall EXCEPT !.op = op, !.todo = todo, !.at = at]
  <2>1. c.op = op /\ c.at = at
    BY DEF NoCall
  <2>2. call' = [call EXCEPT ![t] = c] /\ call[t].at = "idle"
    BY <1>1 DEF Start, At
  <2> HIDE DEF c
  <2>3. call'[t] = c /\ \A u \in Threads : u # t => call'[u] = call[u]
    BY <2>2 DEF TypeInv, CallsOK
  <2>4. Moved(t) /\ Insists(t)
    BY <1>1, <2>1, <2>2, <2>3 DEF Moved, Insists, WithCache, DirtyAt
  <2> QED
    BY <1>1, <2>1, <2>3, <2>4, QuietStep
<1>2. CASE \E l \in Locations : ReadEeprom(t, l)
  BY <1>1, <1>2 DEF ReadEeprom
<1>3. CASE \E l \in Plain, v \in Values : WriteEeprom(t, l, v)
  BY <1>1, <1>3 DEF WriteEeprom
<1>4. CASE ApplyConfig(t)
  BY <1>1, <1>4 DEF ApplyConfig
<1>5. CASE Ping(t)
  BY <1>1, <1>5 DEF Ping
<1>6. CASE ClearEepromCache(t)
  BY <1>1, <1>6 DEF ClearEepromCache
<1>7. CASE UpdateEepromCacheFromNodeDiscovery(t)
  <2>1. News
    BY <1>7 DEF UpdateEepromCacheFromNodeDiscovery, News
  <2> QED
    BY <1>1, <1>7, <2>1 DEF UpdateEepromCacheFromNodeDiscovery
<1> QED
  BY <1>2, <1>3, <1>4, <1>5, <1>6, <1>7 DEF Calls

\* What the cache is told is what the Node has.
LEMMA CacheStep ==
  ASSUME Coherent, NEW t \in Threads, Moved(t), Insists(t), UNCHANGED <<device, packet>>,
         call'[t].at \notin {"update", "parse", "import"},
         \A l \in DOMAIN cache' \ Volatile :
           \/ l \in DOMAIN cache /\ cache'[l] = cache[l]
           \/ cache'[l] = device[l]
           \/ Dirty(l)
  PROVE  Coherent'
<1>1. \A l : Dirty(l) => Dirty(l)'
  BY DirtyKept
<1>2. CachedOrDirty'
  BY <1>1 DEF Coherent, CachedOrDirty
<1>3. FetchedOrDirty'
  BY <1>1 DEF Moved, Coherent, FetchedOrDirty, At
<1>4. WrittenOut'
  BY DEF Coherent, WrittenOut, Moved, At, Loc
<1>5. PacketIsNews'
  BY DEF Coherent, PacketIsNews, News, Moved, At
<1> QED
  BY <1>2, <1>3, <1>4, <1>5, ThreadsKept DEF Coherent

\* The fields of a call that has thrown.
LEMMA ThrowMoves ==
  ASSUME TypeInv, Coherent, NEW t \in Threads, Throw(t), call[t].at \in Commands
  PROVE  /\ Moved(t) /\ Insists(t) /\ call'[t].at \in {"clear", "failed"}
         /\ call'[t].todo = call[t].todo
<1>1. call[t] \in Call
  BY DEF TypeInv, CallsOK, CallOK
<1>2. /\ Thrown(t).op = call[t].op /\ Thrown(t).todo = call[t].todo
      /\ Thrown(t).at = IF call[t].at = "write" THEN "clear" ELSE "failed"
  BY <1>1 DEF Thrown, Call, At
<1>3. call'[t] = Thrown(t) /\ \A u \in Threads : u # t => call'[u] = call[u]
  BY DEF Throw, TypeInv, CallsOK
<1>4. cacheMutex' = cacheMutex \/ cacheMutex = t
  BY DEF Throw
<1>5. call[t].op \in {"write", "apply"} => t \in Writers
  BY DEF Coherent, WritersKnown
<1>6. call[t].at = "write" => call[t].op \in {"write", "apply"}
  BY DEF Coherent, WritersKnown, DirtyAt
<1> QED
  BY <1>2, <1>3, <1>4, <1>5, <1>6 DEF Moved, Insists, WithCache, DirtyAt, Commands

LEMMA ProtocolKeepsCoherent ==
  ASSUME TypeInv, Control, Coherent, NEW t \in Threads, ProtocolStep(t)
  PROVE  Coherent'
<1> USE DEF node, locks, shared
<1>1. call[t] \in Call
  BY DEF TypeInv, CallsOK, CallOK
<1>2. ASSUME NEW c, call' = [call EXCEPT ![t] = c], UNCHANGED cacheMutex,
             c.op = call[t].op, c.at = call[t].at, c.todo = call[t].todo
      PROVE  Moved(t) /\ Insists(t) /\ call'[t] = c
  <2>1. call'[t] = c /\ \A u \in Threads : u # t => call'[u] = call[u]
    BY <1>2 DEF TypeInv, CallsOK
  <2> QED
    BY <1>2, <2>1 DEF Moved, Insists, Coherent, WritersKnown, ReadersHold
<1>3. call[t].stage # "none" => call[t].at \in Commands
  BY DEF Control, DeterminingIsAlone
<1>4. CASE GetProtocol(t)
  <2>1. call[t].at \in Commands /\ UNCHANGED <<device, packet, cache, cacheMutex>>
    BY <1>4 DEF GetProtocol
  <2>2. CASE call' = [call EXCEPT ![t].ref = TRUE]
    <3> DEFINE c == [call[t] EXCEPT !.ref = TRUE]
    <3>1. c.op = call[t].op /\ c.at = call[t].at /\ c.todo = call[t].todo
      BY <1>1 DEF Call
    <3>2. call' = [call EXCEPT ![t] = c]
      BY <2>2
    <3> HIDE DEF c
    <3> QED
      BY <1>2, <2>1, <3>1, <3>2, QuietStep DEF Commands
  <2>3. CASE call' = [call EXCEPT ![t].stage = "v1_1"]
    <3> DEFINE c == [call[t] EXCEPT !.stage = "v1_1"]
    <3>1. c.op = call[t].op /\ c.at = call[t].at /\ c.todo = call[t].todo
      BY <1>1 DEF Call
    <3>2. call' = [call EXCEPT ![t] = c]
      BY <2>3
    <3> HIDE DEF c
    <3> QED
      BY <1>2, <2>1, <3>1, <3>2, QuietStep DEF Commands
  <2> QED
    BY <1>4, <2>2, <2>3 DEF GetProtocol
<1>5. CASE VersionRead(t)
  <2> DEFINE c == [call[t] EXCEPT !.stage = "none", !.ref = TRUE]
  <2>1. c.op = call[t].op /\ c.at = call[t].at /\ c.todo = call[t].todo
    BY <1>1 DEF Call
  <2>2. call' = [call EXCEPT ![t] = c] /\ UNCHANGED <<device, packet, cacheMutex>>
    BY <1>5 DEF VersionRead
  <2> HIDE DEF c
  <2>3. ASSUME NEW l \in DOMAIN cache'
        PROVE  (l \in DOMAIN cache /\ cache'[l] = cache[l]) \/ cache'[l] = device[l]
    <3>1. CASE cache' = cache
      BY <2>3, <3>1
    <3>2. CASE cache' = With(cache, Only(Version, device[Version]))
      BY <2>3, <3>2 DEF With, Only
    <3> QED
      BY <1>5, <3>1, <3>2 DEF VersionRead
  <2>4. call[t].at \in Commands
    BY <1>3, <1>5 DEF VersionRead, Determining
  <2> QED
    BY <1>2, <2>1, <2>2, <2>3, <2>4, CacheStep DEF Commands
<1>6. CASE OlderProtocol(t)
  <2> DEFINE c == [call[t] EXCEPT !.stage = "v1_0"]
  <2>1. c.op = call[t].op /\ c.at = call[t].at /\ c.todo = call[t].todo
    BY <1>1 DEF Call
  <2>2. call' = [call EXCEPT ![t] = c] /\ UNCHANGED <<device, packet, cache, cacheMutex>>
    BY <1>6 DEF OlderProtocol
  <2> HIDE DEF c
  <2>3. call[t].at \in Commands
    BY <1>3, <1>6 DEF OlderProtocol, Determining
  <2> QED
    BY <1>2, <2>1, <2>2, <2>3, QuietStep DEF Commands
<1>7. CASE NotDetermined(t) \/ PortFailsDetermining(t)
  <2>1. Throw(t) /\ call[t].at \in Commands /\ UNCHANGED <<device, packet, cache>>
    BY <1>3, <1>7 DEF NotDetermined, PortFailsDetermining, Determining
  <2> QED
    BY <2>1, ThrowMoves, QuietStep
<1> QED
  BY <1>4, <1>5, <1>6, <1>7 DEF ProtocolStep

LEMMA ReadKeepsCoherent ==
  ASSUME TypeInv, Coherent, NEW t \in Threads, ReadStep(t)
  PROVE  Coherent'
<1> USE DEF node, locks, shared
<1>1. CallOK(call[t]) /\ call[t] \in Call
  BY DEF TypeInv, CallsOK, CallOK
<1>2. ASSUME NEW c, call' = [call EXCEPT ![t] = c], c.op = call[t].op,
             call[t].at \notin DirtyAt, c.at \notin DirtyAt,
             c.at = "lookupWrite" => c.op \in {"write", "apply"},
             cacheMutex' = cacheMutex \/ cacheMutex \in {t, Nobody},
             c.at \in WithCache => cacheMutex' = t
      PROVE  Moved(t) /\ Insists(t) /\ call'[t] = c
  <2>1. call'[t] = c /\ \A u \in Threads : u # t => call'[u] = call[u]
    BY <1>2 DEF TypeInv, CallsOK
  <2> QED
    BY <1>2, <2>1 DEF Moved, Insists, Coherent, WritersKnown
<1>3. call[t].at \in WithCache => cacheMutex = t
  BY DEF Coherent, ReadersHold
<1>4. CASE Lookup(t)
  <2>1. call[t].at = "lookup" /\ UNCHANGED <<device, packet, cache, cacheMutex>>
    BY <1>4 DEF Lookup, At
  <2>2. CASE Loc(t) \in DOMAIN cache \ Volatile
    <3> DEFINE c == [call[t] EXCEPT !.at = "answered", !.todo[1].val = cache[Loc(t)]]
    <3>1. c.op = call[t].op /\ c.at = "answered"
      BY <1>1 DEF Call
    <3>2. call' = [call EXCEPT ![t] = c]
      BY <1>4, <2>2 DEF Lookup
    <3> HIDE DEF c
    <3> QED
      BY <1>2, <2>1, <3>1, <3>2, QuietStep DEF DirtyAt, WithCache
  <2>3. CASE ~(Loc(t) \in DOMAIN cache \ Volatile)
    <3> DEFINE c == [call[t] EXCEPT !.at = "lock"]
    <3>1. c.op = call[t].op /\ c.at = "lock"
      BY <1>1 DEF Call
    <3>2. call' = [call EXCEPT ![t] = c]
      BY <1>4, <2>3 DEF Lookup, Goto
    <3> HIDE DEF c
    <3> QED
      BY <1>2, <2>1, <3>1, <3>2, QuietStep DEF DirtyAt, WithCache
  <2> QED
    BY <2>2, <2>3
<1>5. CASE LockCache(t)
  <2> DEFINE to == IF settings = "own" THEN "group" ELSE "single"
             c  == [call[t] EXCEPT !.at = to]
  <2>1. call[t].at = "lock" /\ cacheMutex = Nobody /\ cacheMutex' = t /\ UNCHANGED <<device, packet, cache>>
    BY <1>5 DEF LockCache, At
  <2>2. c.op = call[t].op /\ c.at \in {"group", "single"}
    BY <1>1 DEF Call
  <2>3. call' = [call EXCEPT ![t] = c]
    BY <1>5 DEF LockCache, Goto
  <2> HIDE DEF c
  <2> QED
    BY <1>2, <2>1, <2>2, <2>3, QuietStep DEF DirtyAt, WithCache
<1>6. CASE GroupRead(t) \/ SingleRead(t)
  <2>1. call[t].at \in {"group", "single"} /\ UNCHANGED <<device, packet, cache, cacheMutex>>
    BY <1>6 DEF GroupRead, SingleRead, Commanding, At
  <2>2. \/ \E f : /\ call' = [call EXCEPT ![t] = [call[t] EXCEPT !.at = "parse", !.fetched = f]]
                  /\ \A l \in DOMAIN f : f[l] = device[l]
        \/ call' = [call EXCEPT ![t] = [call[t] EXCEPT !.at = "single", !.ref = FALSE, !.tries = 1]]
    <3>1. CASE call' = [call EXCEPT ![t].at = "parse", ![t].fetched = Restrict(device, Group[Loc(t)])]
      <4>1. \A l \in DOMAIN Restrict(device, Group[Loc(t)]) : Restrict(device, Group[Loc(t)])[l] = device[l]
        BY DEF Restrict
      <4>2. call' = [call EXCEPT ![t] = [call[t] EXCEPT !.at = "parse",
                                                        !.fetched = Restrict(device, Group[Loc(t)])]]
        BY <3>1
      <4> QED
        BY <4>1, <4>2
    <3>2. CASE call' = [call EXCEPT ![t].at = "parse", ![t].fetched = Only(Loc(t), device[Loc(t)])]
      <4>1. \A l \in DOMAIN Only(Loc(t), device[Loc(t)]) : Only(Loc(t), device[Loc(t)])[l] = device[l]
        BY DEF Only
      <4>2. call' = [call EXCEPT ![t] = [call[t] EXCEPT !.at = "parse",
                                                        !.fetched = Only(Loc(t), device[Loc(t)])]]
        BY <3>2
      <4> QED
        BY <4>1, <4>2
    <3>3. CASE call' = [call EXCEPT ![t].at = "single", ![t].ref = FALSE, ![t].tries = 1]
      BY <3>3
    <3> QED
      BY <1>6, <3>1, <3>2, <3>3 DEF GroupRead, SingleRead
  <2>3. ASSUME NEW f, call' = [call EXCEPT ![t] = [call[t] EXCEPT !.at = "parse", !.fetched = f]],
               \A l \in DOMAIN f : f[l] = device[l]
        PROVE  Coherent'
    <3> DEFINE c == [call[t] EXCEPT !.at = "parse", !.fetched = f]
    <3>1. c.op = call[t].op /\ c.at = "parse" /\ c.fetched = f
      BY <1>1 DEF Call
    <3>2. call' = [call EXCEPT ![t] = c]
      BY <2>3
    <3> HIDE DEF c
    <3>3. Moved(t) /\ Insists(t) /\ call'[t] = c
      BY <1>2, <1>3, <2>1, <3>1, <3>2 DEF DirtyAt, WithCache
    <3>4. \A l \in DOMAIN call'[t].fetched \ Volatile : call'[t].fetched[l] = device[l]
      BY <2>3, <3>1, <3>3
    <3> QED
      BY <2>1, <3>1, <3>3, <3>4, QuietStep
  <2>4. CASE call' = [call EXCEPT ![t] = [call[t] EXCEPT !.at = "single", !.ref = FALSE, !.tries = 1]]
    <3> DEFINE c == [call[t] EXCEPT !.at = "single", !.ref = FALSE, !.tries = 1]
    <3>1. c.op = call[t].op /\ c.at = "single"
      BY <1>1 DEF Call
    <3>2. call' = [call EXCEPT ![t] = c]
      BY <2>4
    <3> HIDE DEF c
    <3> QED
      BY <1>2, <1>3, <2>1, <3>1, <3>2, QuietStep DEF DirtyAt, WithCache
  <2> QED
    BY <2>2, <2>3, <2>4
<1>7. CASE SingleReadFails(t)
  <2>1. call[t].at = "single" /\ UNCHANGED <<device, packet, cache>>
    BY <1>7 DEF SingleReadFails, Commanding, At
  <2>2. CASE call[t].tries < Retries
    <3> DEFINE c == [call[t] EXCEPT !.tries = call[t].tries + 1, !.ref = FALSE]
    <3>1. c.op = call[t].op /\ c.at = "single"
      BY <1>1, <2>1 DEF Call
    <3>2. call' = [call EXCEPT ![t] = c] /\ UNCHANGED cacheMutex
      BY <1>7, <2>2 DEF SingleReadFails
    <3> HIDE DEF c
    <3> QED
      BY <1>2, <1>3, <2>1, <3>1, <3>2, QuietStep DEF DirtyAt, WithCache
  <2>3. CASE ~(call[t].tries < Retries)
    BY <1>7, <2>1, <2>3, ThrowMoves, QuietStep DEF SingleReadFails, Commands
  <2> QED
    BY <2>2, <2>3
<1>8. CASE ParseRead(t)
  <2>1. call[t].at = "parse" /\ cacheMutex = t /\ cacheMutex' = Nobody /\ UNCHANGED <<device, packet>>
    BY <1>3, <1>8 DEF ParseRead, At, WithCache
  <2> DEFINE c == [call[t] EXCEPT !.todo[1].val = cache'[Loc(t)]]
             d == Answered(c)
  <2>2. c.op = call[t].op
    BY <1>1 DEF Call
  <2>3. call' = [call EXCEPT ![t] = d]
    BY <1>8 DEF ParseRead
  <2>4. d.op = call[t].op /\ d.at \in {"lookupWrite", "written", "answered"}
        /\ (d.at = "lookupWrite" => d.op = "apply")
    <3>1. c \in [op : {call[t].op}, at : {"parse"}, todo : {c.todo}, tries : Nat, ref : BOOLEAN,
                 stage : {call[t].stage}, fetched : Partial]
      BY <1>1, <2>1 DEF Call
    <3> HIDE DEF c
    <3>2. CASE c.op = "apply" /\ Len(c.todo) > 1
      BY <3>1, <3>2 DEF Answered
    <3>3. CASE c.op = "apply" /\ ~(Len(c.todo) > 1)
      BY <3>1, <3>3 DEF Answered
    <3>4. CASE c.op # "apply"
      BY <3>1, <3>4 DEF Answered
    <3> QED
      BY <3>2, <3>3, <3>4
  <2> HIDE DEF d
  <2>5. Moved(t) /\ Insists(t) /\ call'[t] = d
    BY <1>2, <2>1, <2>3, <2>4 DEF DirtyAt, WithCache
  <2>6. ASSUME NEW l \in DOMAIN cache' \ Volatile
        PROVE  (l \in DOMAIN cache /\ cache'[l] = cache[l]) \/ cache'[l] = device[l] \/ Dirty(l)
    <3>1. cache' = With(cache, call[t].fetched)
      BY <1>8 DEF ParseRead
    <3>2. CASE l \in DOMAIN call[t].fetched
      <4>1. cache'[l] = call[t].fetched[l]
        BY <3>1, <3>2 DEF With
      <4> QED
        BY <2>1, <2>6, <3>2, <4>1 DEF Coherent, FetchedOrDirty, At
    <3>3. CASE l \notin DOMAIN call[t].fetched
      BY <2>6, <3>1, <3>3 DEF With
    <3> QED
      BY <3>2, <3>3
  <2> QED
    BY <2>1, <2>4, <2>5, <2>6, CacheStep
<1> QED
  BY <1>4, <1>5, <1>6, <1>7, <1>8 DEF ReadStep

\* The one writer knows the value, or takes what the cache says away.
LEMMA WriteEnds ==
  ASSUME TypeInv, Coherent, OneWriter, NEW t \in Threads, Moved(t),
         call[t].at \in {"update", "clear"}, cacheMutex = Nobody, UNCHANGED <<device, packet>>,
         call'[t].at \notin {"update", "parse", "import"},
         \A l \in DOMAIN cache' \ Volatile :
           (l # Loc(t) /\ l \in DOMAIN cache /\ cache'[l] = cache[l]) \/ cache'[l] = device[l]
  PROVE  Coherent'
<1>1. \A u \in Threads : call[u].at \in DirtyAt => u = t
  BY DEF Coherent, WritersKnown, OneWriter, DirtyAt
<1>2. \A l : Dirty(l) => l = Loc(t)
  BY <1>1 DEF Dirty
<1>3. CachedOrDirty'
  BY <1>2 DEF Coherent, CachedOrDirty
<1>4. \A u \in Threads : call'[u].at # "parse"
  BY Constants DEF Moved, Coherent, ReadersHold, WithCache
<1>5. FetchedOrDirty'
  BY <1>4 DEF FetchedOrDirty, At
<1>6. WrittenOut'
  BY DEF Coherent, WrittenOut, Moved, At, Loc
<1>7. PacketIsNews'
  BY DEF Coherent, PacketIsNews, News, Moved, At
<1> QED
  BY <1>3, <1>5, <1>6, <1>7, ThreadsKept DEF Coherent

\* The Node may have carried a write out.
LEMMA DeviceStep ==
  ASSUME TypeInv, Control, Coherent, OneWriter, NEW t \in Threads, Moved(t), call[t].at = "write",
         call'[t].at \in DirtyAt, call'[t].todo = call[t].todo, UNCHANGED <<packet, cache>>,
         device' \in {device, [device EXCEPT ![Loc(t)] = Head(call[t].todo).val]},
         call'[t].at = "update" => device' = [device EXCEPT ![Loc(t)] = Head(call[t].todo).val]
  PROVE  Coherent'
<1>1. Loc(t) \in Locations /\ DOMAIN device = Locations /\ Loc(t)' = Loc(t)
  <2>1. CallOK(call[t]) /\ call[t].at \in AtLocation
    BY DEF TypeInv, CallsOK, AtLocation
  <2> QED
    BY <2>1, ItemIs DEF Loc, TypeInv, NodeOK
<1>2. \A l \in Locations : l = Loc(t) \/ device'[l] = device[l]
  BY <1>1
<1>3. \A l : Dirty(l) => Dirty(l)'
  BY DirtyKept DEF Insists
<1>4. \A l : l = Loc(t) => Dirty(l)'
  BY <1>1 DEF Dirty
<1>5. DOMAIN cache \subseteq Locations
  BY PartialHas DEF TypeInv, NodeOK
<1>6. CachedOrDirty'
  BY <1>2, <1>3, <1>4, <1>5 DEF Coherent, CachedOrDirty
<1>7. ASSUME NEW u \in Threads, call'[u].at = "parse", NEW l \in DOMAIN call'[u].fetched \ Volatile
      PROVE  call'[u].fetched[l] = device'[l] \/ Dirty(l)'
  <2>1. u # t /\ call'[u] = call[u]
    BY <1>7 DEF Moved, DirtyAt
  <2>2. call[u].fetched \in Partial
    BY DEF TypeInv, CallsOK, CallOK, Call
  <2>3. l \in Locations
    BY <1>7, <2>1, <2>2, PartialHas
  <2> QED
    BY <1>2, <1>3, <1>4, <1>7, <2>1, <2>3 DEF Coherent, FetchedOrDirty, At
<1>8. FetchedOrDirty'
  BY <1>7 DEF FetchedOrDirty, At
<1>9. WrittenOut'
  <2>1. \A u \in Threads : call'[u].at = "update" => u = t
    BY DEF Coherent, WritersKnown, OneWriter, Moved, DirtyAt
  <2>2. call'[t].at = "update" => device'[Loc(t)'] = Head(call'[t].todo).val
    BY <1>1
  <2> QED
    BY <2>1, <2>2 DEF WrittenOut, At
<1>10. PacketIsNews'
  <2>1. \A u \in Threads : call[u].at # "import"
    BY DEF Control, CacheCallIsAlone, CacheCalls, Alone, At
  <2>2. \A u \in Threads : call'[u].at # "import"
    BY <2>1 DEF Moved, DirtyAt
  <2> QED
    BY <2>2 DEF Coherent, PacketIsNews, At
<1> QED
  BY <1>6, <1>8, <1>9, <1>10, ThreadsKept DEF Coherent

LEMMA WriteKeepsCoherent ==
  ASSUME TypeInv, Control, Coherent, OneWriter, NEW t \in Threads, WriteStep(t)
  PROVE  Coherent'
<1> USE DEF node, locks, shared
<1>1. CallOK(call[t]) /\ call[t] \in Call
  BY DEF TypeInv, CallsOK, CallOK
<1>2. ASSUME NEW c, call' = [call EXCEPT ![t] = c], c.op = call[t].op, UNCHANGED cacheMutex,
             call[t].at \notin WithCache, c.at \notin WithCache,
             c.at = "lookupWrite" => c.op = "apply",
             c.at \in DirtyAt => call[t].at \in DirtyAt \cup {"lookupWrite"}
      PROVE  Moved(t) /\ call'[t] = c
  <2>1. call'[t] = c /\ \A u \in Threads : u # t => call'[u] = call[u]
    BY <1>2 DEF TypeInv, CallsOK
  <2> QED
    BY <1>2, <2>1 DEF Moved, Coherent, WritersKnown
<1>3. ASSUME NEW to, NEW c, c = [call[t] EXCEPT !.at = to]
      PROVE  c.op = call[t].op /\ c.at = to /\ c.todo = call[t].todo
  BY <1>1, <1>3 DEF Call
<1>4. /\ Answered(call[t]).op = call[t].op /\ Answered(call[t]).at \in {"lookupWrite", "written", "answered"}
      /\ Answered(call[t]).at = "lookupWrite" => call[t].op = "apply"
  <2>1. Answered(call[t]).at = "lookupWrite" => call[t].op = "apply"
    BY <1>1 DEF Answered, Call
  <2> QED
    BY <1>1, <2>1, AnsweredIs
<1>5. call[t].at \in AtLocation =>
        /\ Loc(t) \in Locations /\ DOMAIN device = Locations
        /\ device'  = [device EXCEPT ![Loc(t)] = Head(call[t].todo).val]
             => device'[Loc(t)] = Head(call[t].todo).val
  BY <1>1, ItemIs DEF Loc, TypeInv, NodeOK
<1>6. CASE LookupWrite(t)
  <2>1. call[t].at = "lookupWrite" /\ UNCHANGED <<device, packet, cache, cacheMutex>>
    BY <1>6 DEF LookupWrite, At
  <2>2. \E c : /\ call' = [call EXCEPT ![t] = c] /\ c.op = call[t].op
               /\ c.at \in {"lookupWrite", "written", "answered", "write"}
               /\ c.at = "lookupWrite" => c.op = "apply"
    <3>1. CASE call' = [call EXCEPT ![t] = Answered(call[t])]
      BY <1>4, <3>1
    <3>2. CASE call' = [call EXCEPT ![t] = [call[t] EXCEPT !.at = "write"]]
      BY <1>3, <3>2
    <3> QED
      BY <1>6, <3>1, <3>2 DEF LookupWrite
  <2> QED
    BY <1>2, <2>1, <2>2, QuietStep DEF DirtyAt, WithCache, Insists
<1>7. CASE WriteCommand(t)
  <2> DEFINE c == [call[t] EXCEPT !.at = "update"]
  <2>1. /\ call[t].at = "write" /\ UNCHANGED <<packet, cache, cacheMutex>>
        /\ device' = [device EXCEPT ![Loc(t)] = Head(call[t].todo).val]
    BY <1>7 DEF WriteCommand, Commanding, At
  <2>2. call' = [call EXCEPT ![t] = c]
    BY <1>7 DEF WriteCommand, Goto
  <2>3. c.op = call[t].op /\ c.at = "update" /\ c.todo = call[t].todo
    BY <1>3
  <2> HIDE DEF c
  <2> QED
    BY <1>2, <2>1, <2>2, <2>3, DeviceStep DEF DirtyAt, WithCache
<1>8. CASE WriteCommandFails(t)
  <2>1. /\ call[t].at = "write" /\ UNCHANGED <<packet, cache, cacheMutex>>
        /\ device' \in {device, [device EXCEPT ![Loc(t)] = Head(call[t].todo).val]}
    BY <1>8 DEF WriteCommandFails, Commanding, At
  <2>2. \E c : /\ call' = [call EXCEPT ![t] = c] /\ c.op = call[t].op /\ c.todo = call[t].todo
               /\ c.at \in {"write", "clear"}
    <3>1. CASE call' = [call EXCEPT ![t].tries = @ + 1, ![t].ref = FALSE]
      <4> DEFINE c == [call[t] EXCEPT !.tries = call[t].tries + 1, !.ref = FALSE]
      <4>1. c.op = call[t].op /\ c.at = "write" /\ c.todo = call[t].todo
        BY <1>1, <2>1 DEF Call
      <4>2. call' = [call EXCEPT ![t] = c]
        BY <3>1
      <4> HIDE DEF c
      <4> QED
        BY <4>1, <4>2
    <3>2. CASE call' = [call EXCEPT ![t] = Thrown(t)]
      <4>1. Thrown(t).op = call[t].op /\ Thrown(t).todo = call[t].todo /\ Thrown(t).at = "clear"
        BY <1>1, <2>1 DEF Thrown, Call, At
      <4> QED
        BY <3>2, <4>1
    <3> QED
      BY <1>8, <3>1, <3>2 DEF WriteCommandFails
  <2> QED
    BY <1>2, <2>1, <2>2, DeviceStep DEF DirtyAt, WithCache
<1>9. CASE UpdateCache(t)
  <2>1. call[t].at = "update" /\ cacheMutex = Nobody /\ UNCHANGED <<device, packet, cacheMutex>>
    BY <1>9 DEF UpdateCache, At
  <2>2. call' = [call EXCEPT ![t] = Answered(call[t])]
    BY <1>9 DEF UpdateCache
  <2>3. Moved(t) /\ call'[t] = Answered(call[t])
    BY <1>2, <1>4, <2>1, <2>2 DEF DirtyAt, WithCache
  <2>4. ASSUME NEW l \in DOMAIN cache' \ Volatile
        PROVE  (l # Loc(t) /\ l \in DOMAIN cache /\ cache'[l] = cache[l]) \/ cache'[l] = device[l]
    <3>1. cache' = With(cache, Only(Loc(t), Head(call[t].todo).val))
      BY <1>9 DEF UpdateCache
    <3>2. CASE l = Loc(t)
      <4>1. cache'[l] = Head(call[t].todo).val
        BY <3>1, <3>2 DEF With, Only
      <4> QED
        BY <2>1, <2>4, <3>2, <4>1 DEF Coherent, WrittenOut, At
    <3>3. CASE l # Loc(t)
      BY <2>4, <3>1, <3>3 DEF With, Only
    <3> QED
      BY <3>2, <3>3
  <2> QED
    BY <1>4, <2>1, <2>3, <2>4, WriteEnds
<1>10. CASE ClearCacheLocation(t)
  <2> DEFINE c == [call[t] EXCEPT !.at = "failed"]
  <2>1. call[t].at = "clear" /\ cacheMutex = Nobody /\ UNCHANGED <<device, packet, cacheMutex>>
    BY <1>10 DEF ClearCacheLocation, At
  <2>2. call' = [call EXCEPT ![t] = c]
    BY <1>10 DEF ClearCacheLocation, Goto
  <2>3. c.op = call[t].op /\ c.at = "failed"
    BY <1>3
  <2> HIDE DEF c
  <2>4. Moved(t) /\ call'[t] = c
    BY <1>2, <2>1, <2>2, <2>3 DEF DirtyAt, WithCache
  <2>5. cache' = Without(cache, Loc(t))
    BY <1>10 DEF ClearCacheLocation
  <2>6. \A l \in DOMAIN cache' : l # Loc(t) /\ l \in DOMAIN cache /\ cache'[l] = cache[l]
    BY <2>5 DEF Without, Restrict
  <2> QED
    BY <2>1, <2>3, <2>4, <2>6, WriteEnds
<1> QED
  BY <1>6, <1>7, <1>8, <1>9, <1>10 DEF WriteStep

\* The cache is cleared or replaced while nobody else is in a call.
LEMMA OtherKeepsCoherent ==
  ASSUME TypeInv, Control, Coherent, OneWriter, NEW t \in Threads, OtherStep(t)
  PROVE  Coherent'
<1> USE DEF node, locks, shared
<1>1. call[t] \in Call
  BY DEF TypeInv, CallsOK, CallOK
<1>2. ASSUME NEW c, call' = [call EXCEPT ![t] = c], UNCHANGED cacheMutex,
             c.op = "none" \/ c.op = call[t].op, call[t].at \notin DirtyAt,
             c.at \notin WithCache \cup DirtyAt \cup {"lookupWrite"}
      PROVE  Moved(t) /\ Insists(t) /\ call'[t] = c
  <2>1. call'[t] = c /\ \A u \in Threads : u # t => call'[u] = call[u]
    BY <1>2 DEF TypeInv, CallsOK
  <2> QED
    BY <1>2, <2>1 DEF Moved, Insists, Coherent, WritersKnown
<1>3. ASSUME NEW to, NEW c, c = [call[t] EXCEPT !.at = to]
      PROVE  c.op = call[t].op /\ c.at = to
  BY <1>1, <1>3 DEF Call
<1>4. CASE Written(t)
  <2> DEFINE to == IF hasWritten THEN "reset" ELSE "answered"
             c  == [call[t] EXCEPT !.at = to]
  <2>1. call[t].at = "written" /\ UNCHANGED <<device, packet, cache, cacheMutex>>
    BY <1>4 DEF Written, At
  <2>2. call' = [call EXCEPT ![t] = c]
    BY <1>4 DEF Written, Goto
  <2>3. c.op = call[t].op /\ c.at \in {"reset", "answered"}
    BY <1>3
  <2> HIDE DEF c
  <2> QED
    BY <1>2, <2>1, <2>2, <2>3, QuietStep DEF DirtyAt, WithCache
<1>5. CASE ResetNode(t)
  <2>1. call[t].at = "reset" /\ UNCHANGED <<device, packet, cache, cacheMutex>>
    BY <1>5 DEF ResetNode, Commanding, At
  <2>2. \E c : /\ call' = [call EXCEPT ![t] = c] /\ c.op = call[t].op /\ c.at \in {"reset", "answered"}
    <3>1. CASE call' = [call EXCEPT ![t] = [call[t] EXCEPT !.at = "answered", !.ref = FALSE, !.tries = 0]]
      <4> DEFINE c == [call[t] EXCEPT !.at = "answered", !.ref = FALSE, !.tries = 0]
      <4>1. c.op = call[t].op /\ c.at = "answered"
        BY <1>1 DEF Call
      <4> QED
        BY <3>1, <4>1
    <3>2. CASE call' = [call EXCEPT ![t].tries = @ + 1, ![t].ref = FALSE]
      <4> DEFINE c == [call[t] EXCEPT !.tries = call[t].tries + 1, !.ref = FALSE]
      <4>1. c.op = call[t].op /\ c.at = "reset"
        BY <1>1, <2>1 DEF Call
      <4>2. call' = [call EXCEPT ![t] = c]
        BY <3>2
      <4> HIDE DEF c
      <4> QED
        BY <4>1, <4>2
    <3> QED
      BY <1>5, <3>1, <3>2 DEF ResetNode
  <2> QED
    BY <1>2, <2>1, <2>2, QuietStep DEF DirtyAt, WithCache
<1>6. CASE PingDone(t)
  <2> DEFINE c == [call[t] EXCEPT !.at = "answered", !.ref = FALSE]
  <2>1. call[t].at = "ping" /\ UNCHANGED <<device, packet, cache, cacheMutex>>
    BY <1>6 DEF PingDone, Commanding, At
  <2>2. call' = [call EXCEPT ![t] = c]
    BY <1>6 DEF PingDone
  <2>3. c.op = call[t].op /\ c.at = "answered"
    BY <1>1 DEF Call
  <2> HIDE DEF c
  <2> QED
    BY <1>2, <2>1, <2>2, <2>3, QuietStep DEF DirtyAt, WithCache
<1>7. CASE PortFails(t)
  <2>1. /\ call[t].at \in Commands /\ Throw(t) /\ UNCHANGED <<packet, cache>>
        /\ Moved(t) /\ Insists(t) /\ call'[t].at \in {"clear", "failed"} /\ call'[t].todo = call[t].todo
    BY <1>7, ThrowMoves DEF PortFails
  <2>2. CASE call[t].at = "write"
    <3>1. device' \in {device, [device EXCEPT ![Loc(t)] = Head(call[t].todo).val]}
      BY <1>7, <2>2 DEF PortFails, At
    <3>2. call'[t].at \in DirtyAt /\ call'[t].at # "update"
      BY <2>1, <2>2 DEF Insists, DirtyAt
    <3> QED
      BY <2>1, <2>2, <3>1, <3>2, DeviceStep
  <2>3. CASE call[t].at # "write"
    <3>1. device' = device
      BY <1>7, <2>3 DEF PortFails, At
    <3> QED
      BY <2>1, <3>1, QuietStep
  <2> QED
    BY <2>2, <2>3
<1>8. CASE ClearCache(t)
  <2> DEFINE c == [call[t] EXCEPT !.at = "answered"]
  <2>1. call[t].at = "forget" /\ UNCHANGED <<device, packet, cacheMutex>> /\ DOMAIN cache' = {}
    BY <1>8 DEF ClearCache, At
  <2>2. call' = [call EXCEPT ![t] = c]
    BY <1>8 DEF ClearCache, Goto
  <2>3. c.op = call[t].op /\ c.at = "answered"
    BY <1>3
  <2> HIDE DEF c
  <2> QED
    BY <1>2, <2>1, <2>2, <2>3, CacheStep DEF DirtyAt, WithCache
<1>9. CASE ImportCache(t)
  <2> DEFINE c == [call[t] EXCEPT !.at = "forgetProtocol"]
  <2>1. call[t].at = "import" /\ UNCHANGED <<device, packet, cacheMutex>>
    BY <1>9 DEF ImportCache, At
  <2>2. call' = [call EXCEPT ![t] = c]
    BY <1>9 DEF ImportCache, Goto
  <2>3. c.op = call[t].op /\ c.at = "forgetProtocol"
    BY <1>3
  <2> HIDE DEF c
  <2>4. ASSUME NEW l \in DOMAIN cache' \ Volatile
        PROVE  (l \in DOMAIN cache /\ cache'[l] = cache[l]) \/ cache'[l] = device[l]
    <3>1. cache' = With(cache, packet)
      BY <1>9 DEF ImportCache
    <3>2. CASE l \in DOMAIN packet
      <4>1. cache'[l] = packet[l]
        BY <3>1, <3>2 DEF With
      <4>2. packet[l] = device[l]
        BY <2>1, <2>4, <3>2 DEF Coherent, PacketIsNews, News, At
      <4> QED
        BY <4>1, <4>2
    <3>3. CASE l \notin DOMAIN packet
      BY <2>4, <3>1, <3>3 DEF With
    <3> QED
      BY <3>2, <3>3
  <2> QED
    BY <1>2, <2>1, <2>2, <2>3, <2>4, CacheStep DEF DirtyAt, WithCache
<1>10. CASE ForgetProtocol(t)
  <2> DEFINE c == [call[t] EXCEPT !.at = "answered"]
  <2>1. call[t].at = "forgetProtocol" /\ UNCHANGED <<device, packet, cache, cacheMutex>>
    BY <1>10 DEF ForgetProtocol, At
  <2>2. call' = [call EXCEPT ![t] = c]
    BY <1>10 DEF ForgetProtocol, Goto
  <2>3. c.op = call[t].op /\ c.at = "answered"
    BY <1>3
  <2> HIDE DEF c
  <2> QED
    BY <1>2, <2>1, <2>2, <2>3, QuietStep DEF DirtyAt, WithCache
<1>11. CASE Return(t)
  <2>1. /\ call[t].at \in {"answered", "failed"} /\ UNCHANGED <<device, packet, cache, cacheMutex>>
        /\ call' = [call EXCEPT ![t] = NoCall]
    BY <1>11 DEF Return
  <2>2. NoCall.op = "none" /\ NoCall.at = "idle"
    BY DEF NoCall
  <2> QED
    BY <1>2, <2>1, <2>2, QuietStep DEF DirtyAt, WithCache
<1> QED
  BY <1>4, <1>5, <1>6, <1>7, <1>8, <1>9, <1>10, <1>11 DEF OtherStep

\* Counters change and packets arrive; no answer from the cache depends on either.
LEMMA NodeKeepsCoherent ==
  ASSUME TypeInv, Coherent, NodeActs
  PROVE  Coherent'
<1> USE DEF node, locks, shared
<1>1. UNCHANGED <<cache, cacheMutex, call>> /\ DOMAIN device = Locations
  BY DEF NodeActs, TypeInv, NodeOK
<1>2. \A l \in Locations \ Volatile : device'[l] = device[l]
  BY <1>1 DEF NodeActs
<1>3. WritersKnown' /\ ReadersHold' /\ \A l : Dirty(l) => Dirty(l)'
  BY <1>1 DEF Coherent, WritersKnown, ReadersHold, Dirty, Loc
<1>4. DOMAIN cache \subseteq Locations /\ Discovered \subseteq Locations
  BY Constants, PartialHas DEF TypeInv, NodeOK
<1>5. CachedOrDirty'
  BY <1>1, <1>2, <1>3, <1>4 DEF Coherent, CachedOrDirty
<1>6. \A t \in Threads : DOMAIN call[t].fetched \subseteq Locations
  BY PartialHas DEF TypeInv, CallsOK, CallOK, Call
<1>7. FetchedOrDirty'
  BY <1>1, <1>2, <1>3, <1>6 DEF Coherent, FetchedOrDirty, At
<1>8. \A t \in Threads : call[t].at = "update" => Loc(t) \in Locations
  BY ItemIs DEF TypeInv, CallsOK, Loc, AtLocation
<1>9. WrittenOut'
  BY <1>1, <1>2, <1>8 DEF Coherent, WrittenOut, At, Loc
<1>10. PacketIsNews'
  <2>1. CASE packet' = packet
    BY <1>1, <1>2, <1>4, <2>1 DEF Coherent, PacketIsNews, News, At
  <2>2. CASE packet' = [l \in Discovered |-> device[l]] /\ device' = device
    BY <2>2 DEF PacketIsNews, News
  <2> QED
    BY <2>1, <2>2 DEF NodeActs
<1> QED
  BY <1>3, <1>5, <1>7, <1>9, <1>10 DEF Coherent

\* Every step of every thread, and of the Node, keeps the cache coherent.
LEMMA CoherentKept ==
  ASSUME "fresh" \in Rules, OneWriter
  PROVE  TypeInv /\ Control /\ Coherent /\ [Next]_vars => Coherent'
<1> SUFFICES ASSUME TypeInv, Control, Coherent, [Next]_vars
             PROVE  Coherent'
  OBVIOUS
<1>1. CASE UNCHANGED vars
  BY <1>1 DEF vars, node, locks, shared, Coherent, WritersKnown, ReadersHold, PacketIsNews, News,
              CachedOrDirty, FetchedOrDirty, WrittenOut, Dirty, Loc, At
<1>2. CASE NodeActs
  BY <1>2, NodeKeepsCoherent
<1>3. ASSUME NEW t \in Threads, Calls(t) \/ Step(t)
      PROVE  Coherent'
  BY <1>3, CallsKeepCoherent, ProtocolKeepsCoherent, ReadKeepsCoherent, WriteKeepsCoherent,
     OtherKeepsCoherent DEF Step
<1> QED
  BY <1>1, <1>2, <1>3 DEF Next

\* The cache answers for a location without the Node (NodeEeprom.cpp:163), and a
\* write is skipped when the cache has the value (NodeEeprom.cpp:207).  As long as
\* one thread writes, and a discovery packet is used before anything is written,
\* that is right: whatever is not being written is in the cache as on the Node.
THEOREM CacheIsTheDevice ==
  ASSUME {"alone", "fresh"} \subseteq Rules, OneWriter
  PROVE  Spec => []CacheIsDevice
<1>1. TypeInv /\ Control /\ Coherent /\ [Next]_vars => Coherent'
  BY CoherentKept
<1>2. TypeInv /\ Coherent => CacheIsDevice
  <2> SUFFICES ASSUME TypeInv, Coherent, NEW l \in DOMAIN cache \ Volatile, cache[l] # device[l]
               PROVE  Writing(l)
    BY DEF CacheIsDevice
  <2>1. PICK t \in Threads : call[t].at \in DirtyAt /\ Loc(t) = l
    BY DEF Coherent, CachedOrDirty, Dirty
  <2>2. call[t].op \in {"write", "apply"} /\ call[t].todo # <<>>
    BY <2>1 DEF Coherent, WritersKnown, TypeInv, CallsOK, CallOK, DirtyAt, AtLocation
  <2> QED
    BY <2>1, <2>2 DEF Writing
<1>3. Spec => [](TypeInv /\ Control)
  BY ControlHolds
<1> QED
  BY <1>1, <1>2, <1>3, InitCoherent, PTL DEF Spec

-----------------------------------------------------------------------------
(* One register for each location *)

\* What is done at a place, and what is left to do.
KindOK(c) ==
  /\ c.at \in {"lookup", "lock", "group", "single", "parse"} => c.op = "read"
  /\ c.at \in {"written", "reset"} => c.op = "apply" /\ c.todo = <<>>
  /\ c.at = "ping" => c.op = "ping"

Kinds == \A t \in Threads : KindOK(call[t])

\* y is the same as x, or what w writes in its place.
NotBefore(x, y, w) == x = y \/ y = Head(call[w].todo).val

\* A value that is written is on the Node first, is then fetched by a read, and is
\* in the cache at last.
InOrder ==
  \A w \in Threads : call[w].at \in DirtyAt /\ Loc(w) \notin Volatile =>
    /\ Loc(w) \in DOMAIN cache => NotBefore(cache[Loc(w)], device[Loc(w)], w)
    /\ \A r \in Threads : At(r, "parse") /\ Loc(w) \in DOMAIN call[r].fetched =>
         /\ NotBefore(call[r].fetched[Loc(w)], device[Loc(w)], w)
         /\ Loc(w) \in DOMAIN cache => NotBefore(cache[Loc(w)], call[r].fetched[Loc(w)], w)

Others(t) == \A u \in Threads : u # t => call'[u] = call[u]

\* Nothing is written that was not going to be.
Persists(t) ==
  call'[t].at \in DirtyAt
    => call'[t].todo = call[t].todo /\ call[t].at \in DirtyAt \cup {"lookupWrite"}

\* Of two threads with a value that is on its way, one writes, so they are the same.
LEMMA OneIsDirty ==
  ASSUME Coherent, OneWriter, NEW t \in Threads, call[t].at \in DirtyAt \cup {"lookupWrite"}
  PROVE  \A u \in Threads : call[u].at \in DirtyAt => u = t
  BY DEF Coherent, WritersKnown, OneWriter

\* A value in the cache that nobody writes is the Node's.
LEMMA CleanIsDevice ==
  ASSUME Coherent, NEW l, l \notin Volatile, ~Dirty(l)
  PROVE  /\ l \in DOMAIN cache => cache[l] = device[l]
         /\ \A r \in Threads : At(r, "parse") /\ l \in DOMAIN call[r].fetched
                                 => call[r].fetched[l] = device[l]
  BY DEF Coherent, CachedOrDirty, FetchedOrDirty

\* A thread that writes has either been doing so, or nothing was being written.
LEMMA StillDirty ==
  ASSUME Coherent, OneWriter, NEW t \in Threads, Others(t), Persists(t),
         NEW w \in Threads, call'[w].at \in DirtyAt
  PROVE  /\ call'[w].todo = call[w].todo /\ Loc(w)' = Loc(w)
         /\ call[w].at \in DirtyAt \/ (w = t /\ \A l : ~Dirty(l))
<1>1. call'[w].todo = call[w].todo /\ Loc(w)' = Loc(w)
  BY DEF Others, Persists, Loc
<1>2. CASE call[w].at \in DirtyAt
  BY <1>1, <1>2
<1>3. CASE call[w].at \notin DirtyAt
  <2>1. w = t /\ call[t].at = "lookupWrite"
    BY <1>3 DEF Others, Persists
  <2>2. \A u \in Threads : call[u].at \notin DirtyAt
    BY <1>3, <2>1, OneIsDirty
  <2> QED
    BY <1>1, <2>1, <2>2 DEF Dirty
<1> QED
  BY <1>2, <1>3

\* A read may fetch what the Node has.
LEMMA OrderKept ==
  ASSUME Coherent, OneWriter, InOrder, NEW t \in Threads, Others(t), Persists(t),
         UNCHANGED <<device, cache>>,
         call'[t].at = "parse" =>
           \A l \in DOMAIN call'[t].fetched \ Volatile : call'[t].fetched[l] = device[l]
  PROVE  InOrder'
<1> SUFFICES ASSUME NEW w \in Threads, call'[w].at \in DirtyAt, Loc(w)' \notin Volatile
             PROVE  /\ Loc(w)' \in DOMAIN cache' => NotBefore(cache[Loc(w)], device[Loc(w)], w)'
                    /\ \A r \in Threads : At(r, "parse")' /\ Loc(w)' \in DOMAIN call'[r].fetched =>
                         /\ NotBefore(call[r].fetched[Loc(w)], device[Loc(w)], w)'
                         /\ Loc(w)' \in DOMAIN cache' => NotBefore(cache[Loc(w)], call[r].fetched[Loc(w)], w)'
  BY DEF InOrder
<1> DEFINE l == Loc(w)
           v == Head(call[w].todo).val
<1>1. /\ call'[w].todo = call[w].todo /\ Loc(w)' = l /\ l \notin Volatile
      /\ call[w].at \in DirtyAt \/ (w = t /\ \A m : ~Dirty(m))
  BY StillDirty
<1>2. l \in DOMAIN cache => cache[l] = device[l] \/ device[l] = v
  <2>1. CASE call[w].at \in DirtyAt
    BY <1>1, <2>1 DEF InOrder, NotBefore
  <2>2. CASE \A m : ~Dirty(m)
    BY <1>1, <2>2, CleanIsDevice
  <2> QED
    BY <1>1, <2>1, <2>2
<1>3. ASSUME NEW r \in Threads, At(r, "parse")', l \in DOMAIN call'[r].fetched
      PROVE  /\ call'[r].fetched[l] = device[l] \/ device[l] = v
             /\ l \in DOMAIN cache => cache[l] = call'[r].fetched[l] \/ call'[r].fetched[l] = v
  <2>1. CASE r = t
    BY <1>1, <1>2, <1>3, <2>1 DEF At
  <2>2. CASE r # t
    <3>1. call'[r] = call[r] /\ At(r, "parse")
      BY <1>3, <2>2 DEF Others, At
    <3>2. CASE call[w].at \in DirtyAt
      BY <1>1, <1>3, <3>1, <3>2 DEF InOrder, NotBefore
    <3>3. CASE \A m : ~Dirty(m)
      BY <1>1, <1>3, <3>1, <3>3, CleanIsDevice
    <3> QED
      BY <1>1, <3>2, <3>3
  <2> QED
    BY <2>1, <2>2
<1> HIDE DEF l
<1> QED
  BY <1>1, <1>2, <1>3 DEF NotBefore

\* Nobody reads; the cache has been told what the Node has, or what was fetched.
LEMMA OrderInCache ==
  ASSUME Coherent, OneWriter, InOrder, NEW t \in Threads, Others(t), Persists(t),
         UNCHANGED device, \A r \in Threads : call'[r].at # "parse",
         \A l \in DOMAIN cache' \ Volatile :
           \/ l \in DOMAIN cache /\ cache'[l] = cache[l]
           \/ cache'[l] = device[l]
           \/ call[t].at = "parse" /\ l \in DOMAIN call[t].fetched /\ cache'[l] = call[t].fetched[l]
  PROVE  InOrder'
<1> SUFFICES ASSUME NEW w \in Threads, call'[w].at \in DirtyAt, Loc(w)' \notin Volatile, Loc(w)' \in DOMAIN cache'
             PROVE  NotBefore(cache[Loc(w)], device[Loc(w)], w)'
  BY DEF InOrder, At
<1> DEFINE l == Loc(w)
           v == Head(call[w].todo).val
<1>1. /\ call'[w].todo = call[w].todo /\ Loc(w)' = l /\ l \notin Volatile /\ l \in DOMAIN cache'
      /\ call[w].at \in DirtyAt \/ (w = t /\ \A m : ~Dirty(m))
  BY StillDirty
<1>2. l \in DOMAIN cache => cache[l] = device[l] \/ device[l] = v
  <2>1. CASE call[w].at \in DirtyAt
    BY <1>1, <2>1 DEF InOrder, NotBefore
  <2>2. CASE \A m : ~Dirty(m)
    BY <1>1, <2>2, CleanIsDevice
  <2> QED
    BY <1>1, <2>1, <2>2
<1>3. call[t].at = "parse" /\ l \in DOMAIN call[t].fetched
        => call[t].fetched[l] = device[l] \/ device[l] = v
  <2>1. CASE call[w].at \in DirtyAt
    BY <1>1, <2>1 DEF InOrder, NotBefore, At
  <2>2. CASE \A m : ~Dirty(m)
    BY <1>1, <2>2, CleanIsDevice DEF At
  <2> QED
    BY <1>1, <2>1, <2>2
<1> HIDE DEF l
<1> QED
  BY <1>1, <1>2, <1>3 DEF NotBefore

\* The Node has the value now.
LEMMA OrderOnDevice ==
  ASSUME TypeInv, Coherent, OneWriter, InOrder, NEW t \in Threads, Others(t), call[t].at = "write",
         call'[t].at \in DirtyAt, call'[t].todo = call[t].todo, UNCHANGED cache,
         device' \in {device, [device EXCEPT ![Loc(t)] = Head(call[t].todo).val]}
  PROVE  InOrder'
<1> DEFINE l == Loc(t)
           v == Head(call[t].todo).val
<1>1. Loc(t)' = l /\ call'[t].todo = call[t].todo
  BY DEF Loc
<1>2. l \in Locations /\ DOMAIN device = Locations
  BY ItemIs DEF TypeInv, CallsOK, NodeOK, AtLocation, Loc
<1>3. device'[l] = device[l] \/ device'[l] = v
  BY <1>2
<1>4. \A w \in Threads : call'[w].at \in DirtyAt => w = t
  BY OneIsDirty DEF DirtyAt, Others
<1>5. l \in DOMAIN cache /\ l \notin Volatile => cache[l] = device[l] \/ device[l] = v
  BY DEF InOrder, NotBefore, DirtyAt
<1>6. ASSUME NEW r \in Threads, At(r, "parse")', l \in DOMAIN call'[r].fetched, l \notin Volatile
      PROVE  /\ call'[r].fetched[l] = device[l] \/ device[l] = v
             /\ l \in DOMAIN cache => cache[l] = call'[r].fetched[l] \/ call'[r].fetched[l] = v
  <2>1. call'[r] = call[r] /\ At(r, "parse")
    BY <1>6 DEF Others, At, DirtyAt
  <2> QED
    BY <1>6, <2>1 DEF InOrder, NotBefore, DirtyAt
<1> HIDE DEF l, v
<1>7. /\ l \in DOMAIN cache /\ l \notin Volatile => cache'[l] = device'[l] \/ device'[l] = v
      /\ \A r \in Threads : At(r, "parse")' /\ l \in DOMAIN call'[r].fetched /\ l \notin Volatile =>
           /\ call'[r].fetched[l] = device'[l] \/ device'[l] = v
           /\ l \in DOMAIN cache => cache'[l] = call'[r].fetched[l] \/ call'[r].fetched[l] = v
  BY <1>3, <1>5, <1>6
<1>8. Head(call'[t].todo).val = v
  BY <1>1 DEF v
<1> QED
  BY <1>1, <1>4, <1>7, <1>8 DEF InOrder, NotBefore

\* What a location is for its readers, case by case.
LEMMA VisibleIs ==
  ASSUME ReadersHold, NEW l
  PROVE  /\ l \in Volatile => Visible(l) = device[l]
         /\ l \notin Volatile /\ l \in DOMAIN cache => Visible(l) = cache[l]
         /\ l \notin Volatile /\ l \notin DOMAIN cache =>
              /\ \A r \in Threads : At(r, "parse") /\ l \in DOMAIN call[r].fetched
                                      => Visible(l) = call[r].fetched[l]
              /\ (\A r \in Threads : ~(At(r, "parse") /\ l \in DOMAIN call[r].fetched))
                   => Visible(l) = device[l]
<1>1. ASSUME NEW r \in Threads, At(r, "parse"), l \in DOMAIN call[r].fetched
      PROVE  Fetching(l) = {r}
  <2>1. \A u \in Threads : At(u, "parse") => u = r
    BY <1>1 DEF ReadersHold, WithCache, At
  <2> QED
    BY <1>1, <2>1 DEF Fetching
<1>2. \A r \in Threads : (CHOOSE t \in {r} : TRUE) = r
  OBVIOUS
<1>3. (\A r \in Threads : ~(At(r, "parse") /\ l \in DOMAIN call[r].fetched)) => Fetching(l) = {}
  BY DEF Fetching
<1> QED
  BY <1>1, <1>2, <1>3 DEF Visible

\* The same after a step.
LEMMA VisibleIsThen ==
  ASSUME ReadersHold', NEW l
  PROVE  /\ l \in Volatile => Visible(l)' = device'[l]
         /\ l \notin Volatile /\ l \in DOMAIN cache' => Visible(l)' = cache'[l]
         /\ l \notin Volatile /\ l \notin DOMAIN cache' =>
              /\ \A r \in Threads : At(r, "parse")' /\ l \in DOMAIN call'[r].fetched
                                      => Visible(l)' = call'[r].fetched[l]
              /\ (\A r \in Threads : ~(At(r, "parse")' /\ l \in DOMAIN call'[r].fetched))
                   => Visible(l)' = device'[l]
<1>1. ASSUME NEW r \in Threads, At(r, "parse")', l \in DOMAIN call'[r].fetched
      PROVE  Fetching(l)' = {r}
  <2>1. \A u \in Threads : At(u, "parse")' => u = r
    BY <1>1 DEF ReadersHold, WithCache, At
  <2> QED
    BY <1>1, <2>1 DEF Fetching
<1>2. \A r \in Threads : (CHOOSE t \in {r} : TRUE) = r
  OBVIOUS
<1>3. (\A r \in Threads : ~(At(r, "parse")' /\ l \in DOMAIN call'[r].fetched)) => Fetching(l)' = {}
  BY DEF Fetching
<1> QED
  BY <1>1, <1>2, <1>3 DEF Visible

\* The registers hold values.
LEMMA VisibleHasType ==
  ASSUME TypeInv, ReadersHold, NEW l \in Locations
  PROVE  Visible(l) \in Values
<1>1. device[l] \in Values /\ (l \in DOMAIN cache => cache[l] \in Values)
  BY PartialHas DEF TypeInv, NodeOK
<1>2. \A r \in Threads : l \in DOMAIN call[r].fetched => call[r].fetched[l] \in Values
  BY PartialHas DEF TypeInv, CallsOK, CallOK, Call
<1> QED
  BY <1>1, <1>2, VisibleIs

\* A read begins to fetch what everybody sees.
LEMMA SameView ==
  ASSUME ReadersHold, ReadersHold', NEW t \in Threads, Others(t), UNCHANGED <<device, cache>>,
         call[t].at # "parse",
         call'[t].at = "parse" =>
           \A l \in DOMAIN call'[t].fetched \ Volatile : call'[t].fetched[l] = device[l]
  PROVE  \A l : Visible(l)' = Visible(l)
<1> SUFFICES ASSUME NEW l PROVE Visible(l)' = Visible(l)
  OBVIOUS
<1>1. CASE l \in Volatile \/ l \in DOMAIN cache
  BY <1>1, VisibleIs, VisibleIsThen
<1>2. CASE l \notin Volatile /\ l \notin DOMAIN cache
  <2>1. CASE \E r \in Threads : At(r, "parse") /\ l \in DOMAIN call[r].fetched
    <3>1. PICK r \in Threads : At(r, "parse") /\ l \in DOMAIN call[r].fetched
      BY <2>1
    <3>2. call'[r] = call[r] /\ At(r, "parse")'
      BY <3>1 DEF At, Others
    <3>3. Visible(l) = call[r].fetched[l]
      BY <1>2, <3>1, VisibleIs
    <3>4. Visible(l)' = call'[r].fetched[l]
      BY <1>2, <3>1, <3>2, VisibleIsThen
    <3> QED
      BY <3>2, <3>3, <3>4
  <2>2. CASE \A r \in Threads : ~(At(r, "parse") /\ l \in DOMAIN call[r].fetched)
    <3>1. Visible(l) = device[l]
      BY <1>2, <2>2, VisibleIs
    <3>2. \A r \in Threads : At(r, "parse")' /\ l \in DOMAIN call'[r].fetched => r = t
      BY <2>2 DEF Others, At
    <3>3. CASE At(t, "parse")' /\ l \in DOMAIN call'[t].fetched
      <4>1. call'[t].fetched[l] = device[l]
        BY <1>2, <3>3 DEF At
      <4>2. Visible(l)' = call'[t].fetched[l]
        BY <1>2, <3>3, VisibleIsThen
      <4> QED
        BY <3>1, <4>1, <4>2
    <3>4. CASE ~(At(t, "parse")' /\ l \in DOMAIN call'[t].fetched)
      <4>1. Visible(l)' = device'[l]
        BY <1>2, <3>2, <3>4, VisibleIsThen
      <4> QED
        BY <3>1, <4>1
    <3> QED
      BY <3>3, <3>4
  <2> QED
    BY <2>1, <2>2
<1> QED
  BY <1>1, <1>2

\* Nobody fetches: what is seen is the cache, and behind it the Node.
LEMMA PlainView ==
  ASSUME ReadersHold, ReadersHold', \A r \in Threads : call[r].at # "parse" /\ call'[r].at # "parse", NEW l
  PROVE  /\ Visible(l)  = IF l \in DOMAIN cache \ Volatile THEN cache[l] ELSE device[l]
         /\ Visible(l)' = IF l \in DOMAIN cache' \ Volatile THEN cache'[l] ELSE device'[l]
<1>1. \A r \in Threads : ~At(r, "parse") /\ ~At(r, "parse")'
  BY DEF At
<1>2. Visible(l) = IF l \in DOMAIN cache \ Volatile THEN cache[l] ELSE device[l]
  BY <1>1, VisibleIs
<1>3. Visible(l)' = IF l \in DOMAIN cache' \ Volatile THEN cache'[l] ELSE device'[l]
  BY <1>1, VisibleIsThen
<1> QED
  BY <1>2, <1>3

-----------------------------------------------------------------------------
(* The steps of the register *)

Reading(t) ==
  /\ Answer(t) = Nobody /\ InProgress(t) = Nobody
  /\ \E l \in Locations, v \in Values : Answer(t)' = [loc |-> l, val |-> v] /\ Visible(l)' = v

Answering == \A t \in Threads : Answer(t)' = Answer(t) \/ Reading(t) \/ (Answer(t) # Nobody /\ Answer(t)' = Nobody)

SameWrites == \A t \in Threads : InProgress(t)' = InProgress(t)

OtherWrites(t) == \A u \in Threads : u # t => InProgress(u)' = InProgress(u)

SameAnswers == \A t \in Threads : Answer(t)' = Answer(t)

\* Only location m has changed, to v.
Becomes(m, v) == \A l \in Locations : Visible(l)' = IF l = m THEN v ELSE Visible(l)

Unchanged == \A l \in Locations : Visible(l)' = Visible(l)

WriteOf(t, m, v) == InProgress(t) = [loc |-> m, val |-> v, state |-> "runs"]

\* Nobody is neither a write nor an answer.
LEMMA NotNobody ==
  ASSUME NEW m \in Locations, NEW v \in Values
  PROVE  /\ [loc |-> m, val |-> v] # Nobody
         /\ \A b \in {"runs", "threw"} : [loc |-> m, val |-> v, state |-> b] # Nobody
  BY EepromAssumption DEF EepromAssumption, Item

\* What a write says of itself.
LEMMA FieldsOfWrite ==
  ASSUME NEW m \in Locations, NEW v \in Values, NEW s \in {"runs", "threw"}, NEW r,
         r = [loc |-> m, val |-> v, state |-> s]
  PROVE  r # Nobody /\ r.state = s /\ r.loc = m /\ r.val = v
<1>1. r # Nobody
  BY NotNobody
<1> QED
  BY <1>1

\* A thread that writes does so in the register as well.
LEMMA IsWrite ==
  ASSUME NEW m \in Locations, NEW v \in Values, NEW r, r = [loc |-> m, val |-> v, state |-> "runs"]
  PROVE  r \in Register!Write
  BY DEF Register!Write

\* A write that has not thrown may still take effect.
LEMMA IsUnderway ==
  ASSUME NEW t \in Threads, NEW m \in Locations, NEW v \in Values, WriteOf(t, m, v)
  PROVE  Register!Underway(t)
<1>1. InProgress(t) # Nobody /\ InProgress(t).state = "runs"
  BY FieldsOfWrite DEF WriteOf
<1>2. [u \in Threads |-> InProgress(u)][t] = InProgress(t)
  OBVIOUS
<1> QED
  BY <1>1, <1>2, Zenon DEF Register!Underway

\* A write that takes effect changes what everybody sees, in its location only.
LEMMA WrittenIs ==
  ASSUME NEW t \in Threads, NEW m \in Locations, NEW v \in Values, WriteOf(t, m, v)
  PROVE  Register!Written(t) = [[l \in Locations |-> Visible(l)] EXCEPT ![m] = v]
<1>1. InProgress(t).loc = m /\ InProgress(t).val = v
  BY DEF WriteOf
<1>2. [u \in Threads |-> InProgress(u)][t] = InProgress(t)
  OBVIOUS
<1> QED
  BY <1>1, <1>2, Zenon DEF Register!Written

\* A write that throws differs in nothing but its state.
LEMMA ThrownWriteIs ==
  ASSUME NEW t \in Threads, NEW m \in Locations, NEW v \in Values, WriteOf(t, m, v)
  PROVE  [[u \in Threads |-> InProgress(u)][t] EXCEPT !.state = "threw"] = [loc |-> m, val |-> v, state |-> "threw"]
<1>1. [u \in Threads |-> InProgress(u)][t] = [loc |-> m, val |-> v, state |-> "runs"]
  BY DEF WriteOf
<1> QED
  BY <1>1

\* What happens to the answers is what the register's reads do.
LEMMA AnsweringIs ==
  ASSUME Answering
  PROVE  Register!Answers
<1>1. ASSUME NEW t \in Threads, Reading(t)
      PROVE  Register!Reads(t)
  <2>1. PICK l \in Locations, v \in Values : Answer(t)' = [loc |-> l, val |-> v] /\ Visible(l)' = v
    BY <1>1 DEF Reading
  <2>2. Answer(t)' \in Register!Item /\ Answer(t)'.val = v /\ Answer(t)'.loc = l
    BY <2>1 DEF Register!Item
  <2>3. [x \in Locations |-> Visible(x)'][Answer(t)'.loc] = v
    BY <2>1, <2>2
  <2> QED
    BY <1>1, <2>2, <2>3 DEF Reading, Register!Reads
<1> QED
  BY <1>1 DEF Answering, Register!Answers, Register!Forgets

\* Nothing is written and reads answer or are forgotten: the register reads.
LEMMA MapsToRead ==
  ASSUME Unchanged, SameWrites, Answering
  PROVE  Register!Next
<1>1. Register!Answers
  BY AnsweringIs
<1>2. [l \in Locations |-> Visible(l)]' = [l \in Locations |-> Visible(l)]
  BY DEF Unchanged
<1>3. [t \in Threads |-> InProgress(t)]' = [t \in Threads |-> InProgress(t)]
  BY DEF SameWrites
<1> QED
  BY <1>1, <1>2, <1>3 DEF Register!Next, Register!Read

\* One location changes, and the registers with it.
LEMMA ValueBecomes ==
  ASSUME NEW m \in Locations, NEW v, Becomes(m, v)
  PROVE  [l \in Locations |-> Visible(l)]' = [[l \in Locations |-> Visible(l)] EXCEPT ![m] = v]
  BY DEF Becomes

\* Everybody sees the value of a write that goes on: it takes effect.
LEMMA MapsToEffect ==
  ASSUME NEW t \in Threads, NEW m \in Locations, NEW v \in Values, WriteOf(t, m, v),
         Becomes(m, v), SameWrites, Answering
  PROVE  Register!Next
<1>1. Register!Answers
  BY AnsweringIs
<1>2. [l \in Locations |-> Visible(l)]' = [[l \in Locations |-> Visible(l)] EXCEPT ![m] = v]
  BY ValueBecomes
<1>3. [u \in Threads |-> InProgress(u)]' = [u \in Threads |-> InProgress(u)]
  BY DEF SameWrites
<1>4. Register!Underway(t)
  BY IsUnderway
<1>5. Register!Written(t) = [[l \in Locations |-> Visible(l)] EXCEPT ![m] = v]
  BY WrittenIs
<1>6. Register!TakeEffect(t)
  BY <1>1, <1>2, <1>3, <1>4, <1>5 DEF Register!TakeEffect
<1> QED
  BY <1>6 DEF Register!Next

\* One thread's write changes, and the register's with it.
LEMMA WritesBecome ==
  ASSUME NEW t \in Threads, OtherWrites(t)
  PROVE  [u \in Threads |-> InProgress(u)]' = [[u \in Threads |-> InProgress(u)] EXCEPT ![t] = InProgress(t)']
  BY DEF OtherWrites

\* A write is over and everybody sees its value: it returns.
LEMMA MapsToReturn ==
  ASSUME NEW t \in Threads, NEW m \in Locations, NEW v \in Values, WriteOf(t, m, v),
         Becomes(m, v) \/ (m \in Volatile /\ Unchanged), SameAnswers, OtherWrites(t),
         \/ InProgress(t)' = Nobody
         \/ \E l \in Locations, x \in Values : InProgress(t)' = [loc |-> l, val |-> x, state |-> "runs"]
  PROVE  Register!Next
<1>1. Becomes(m, v) => [l \in Locations |-> Visible(l)]' = [[l \in Locations |-> Visible(l)] EXCEPT ![m] = v]
  BY ValueBecomes
<1>2. Unchanged => [l \in Locations |-> Visible(l)]' = [l \in Locations |-> Visible(l)]
  BY DEF Unchanged
<1>3. [u \in Threads |-> InProgress(u)]' = [[u \in Threads |-> InProgress(u)] EXCEPT ![t] = InProgress(t)']
  BY WritesBecome
<1>4. Register!Underway(t) /\ [u \in Threads |-> InProgress(u)][t].loc = m
  BY IsUnderway DEF WriteOf
<1>5. Register!Written(t) = [[l \in Locations |-> Visible(l)] EXCEPT ![m] = v]
  BY WrittenIs
<1>6. [u \in Threads |-> Answer(u)]' = [u \in Threads |-> Answer(u)]
  BY DEF SameAnswers
<1>7. InProgress(t)' \in Register!Write \cup {Nobody}
  BY IsWrite
<1>8. Register!Becomes(t, InProgress(t)')
  BY <1>3 DEF Register!Becomes
<1>9. Register!Return(t)
  BY <1>1, <1>2, <1>4, <1>5, <1>6, <1>7, <1>8 DEF Register!Return
<1> QED
  BY <1>9 DEF Register!Next

\* A write fails, with its value seen or not: it throws.
LEMMA MapsToThrow ==
  ASSUME NEW t \in Threads, NEW m \in Locations, NEW v \in Values, WriteOf(t, m, v),
         Becomes(m, v) \/ Unchanged, SameAnswers, OtherWrites(t),
         InProgress(t)' = [loc |-> m, val |-> v, state |-> "threw"]
  PROVE  Register!Next
<1>1. Becomes(m, v) => [l \in Locations |-> Visible(l)]' = [[l \in Locations |-> Visible(l)] EXCEPT ![m] = v]
  BY ValueBecomes
<1>2. Unchanged => [l \in Locations |-> Visible(l)]' = [l \in Locations |-> Visible(l)]
  BY DEF Unchanged
<1>3. [u \in Threads |-> InProgress(u)]' = [[u \in Threads |-> InProgress(u)] EXCEPT ![t] = InProgress(t)']
  BY WritesBecome
<1>4. Register!Underway(t)
  BY IsUnderway
<1>5. Register!Written(t) = [[l \in Locations |-> Visible(l)] EXCEPT ![m] = v]
  BY WrittenIs
<1>6. [u \in Threads |-> Answer(u)]' = [u \in Threads |-> Answer(u)]
  BY DEF SameAnswers
<1>7. Register!Becomes(t, [[u \in Threads |-> InProgress(u)][t] EXCEPT !.state = "threw"])
  BY <1>3, ThrownWriteIs, Zenon DEF Register!Becomes
<1>8. Register!Throw(t)
  BY <1>1, <1>2, <1>4, <1>5, <1>6, <1>7 DEF Register!Throw
<1> QED
  BY <1>8 DEF Register!Next

\* The exception of a write reaches the caller.
LEMMA MapsToCaught ==
  ASSUME NEW t \in Threads, NEW m \in Locations, NEW v \in Values,
         InProgress(t) = [loc |-> m, val |-> v, state |-> "threw"], InProgress(t)' = Nobody,
         Unchanged, SameAnswers, OtherWrites(t)
  PROVE  Register!Next
<1>1. [l \in Locations |-> Visible(l)]' = [l \in Locations |-> Visible(l)]
  BY DEF Unchanged
<1>2. [u \in Threads |-> InProgress(u)]' = [[u \in Threads |-> InProgress(u)] EXCEPT ![t] = InProgress(t)']
  BY WritesBecome
<1>3. [u \in Threads |-> Answer(u)]' = [u \in Threads |-> Answer(u)]
  BY DEF SameAnswers
<1>4. [u \in Threads |-> InProgress(u)][t] # Nobody /\ [u \in Threads |-> InProgress(u)][t].state = "threw"
  <2>1. [u \in Threads |-> InProgress(u)][t] = InProgress(t)
    OBVIOUS
  <2> QED
    BY <2>1, FieldsOfWrite
<1>5. Register!Caught(t)
  BY <1>1, <1>2, <1>3, <1>4 DEF Register!Caught, Register!Becomes
<1> QED
  BY <1>5 DEF Register!Next

\* A write begins, and nobody sees its value yet.
LEMMA MapsToBegin ==
  ASSUME NEW t \in Threads, NEW m \in Locations, NEW v \in Values,
         InProgress(t) = Nobody, Answer(t) = Nobody,
         InProgress(t)' = [loc |-> m, val |-> v, state |-> "runs"],
         Unchanged, SameAnswers, OtherWrites(t)
  PROVE  Register!Next
<1>1. [l \in Locations |-> Visible(l)]' = [l \in Locations |-> Visible(l)]
  BY DEF Unchanged
<1>2. [u \in Threads |-> InProgress(u)]' = [[u \in Threads |-> InProgress(u)] EXCEPT ![t] = InProgress(t)']
  BY WritesBecome
<1>3. [u \in Threads |-> Answer(u)]' = [u \in Threads |-> Answer(u)]
  BY DEF SameAnswers
<1>4. InProgress(t)' \in Register!Write
  BY IsWrite
<1>5. Register!Begin(t)
  BY <1>1, <1>2, <1>3, <1>4 DEF Register!Begin, Register!Becomes
<1> QED
  BY <1>5 DEF Register!Next

\* The Node changes a volatile location.
LEMMA MapsToChange ==
  ASSUME NEW m \in Volatile, NEW v \in Values, Becomes(m, v), SameAnswers, SameWrites
  PROVE  Register!Next
<1>1. m \in Locations
  BY Constants
<1>2. [l \in Locations |-> Visible(l)]' = [[l \in Locations |-> Visible(l)] EXCEPT ![m] = v]
  BY <1>1, ValueBecomes
<1>3. [l \in Locations |-> Visible(l)]'[m] = v
  BY <1>1, <1>2
<1>4. [u \in Threads |-> InProgress(u)]' = [u \in Threads |-> InProgress(u)]
  BY DEF SameWrites
<1>5. [u \in Threads |-> Answer(u)]' = [u \in Threads |-> Answer(u)]
  BY DEF SameAnswers
<1>6. Register!Changes(m)
  BY <1>2, <1>3, <1>4, <1>5 DEF Register!Changes
<1> QED
  BY <1>6 DEF Register!Next

-----------------------------------------------------------------------------
(* What the steps of a thread are to the register *)

Finished == {"written", "reset", "answered"}

\* A step of one thread leaves the writes and the answers of the others.
LEMMA OthersAreSame ==
  ASSUME NEW t \in Threads, Others(t)
  PROVE  /\ OtherWrites(t)
         /\ \A u \in Threads : u # t => Answer(u)' = Answer(u)
         /\ Answer(t)' = Answer(t) => SameAnswers
         /\ InProgress(t)' = InProgress(t) => SameWrites
         /\ Answer(t)' = Answer(t) \/ Reading(t) \/ (Answer(t) # Nobody /\ Answer(t)' = Nobody) => Answering
<1>1. \A u \in Threads : u # t => InProgress(u)' = InProgress(u)
  BY DEF Others, InProgress, At, Loc
<1>2. \A u \in Threads : u # t => Answer(u)' = Answer(u)
  BY DEF Others, Answer, At, Loc
<1> QED
  BY <1>1, <1>2 DEF OtherWrites, SameAnswers, SameWrites, Answering

\* A step of one thread leaves the kinds of the others.
LEMMA KindsKept ==
  ASSUME Kinds, NEW t \in Threads, Others(t), KindOK(call'[t])
  PROVE  Kinds'
  BY DEF Kinds, Others, KindOK

\* What a call is, to the register.
LEMMA ProgressIs ==
  ASSUME NEW t \in Threads
  PROVE  /\ call[t].op \notin {"write", "apply"} => InProgress(t) = Nobody
         /\ call[t].at \in Finished \/ call[t].todo = <<>> => InProgress(t) = Nobody
         /\ /\ call[t].op \in {"write", "apply"} /\ call[t].todo # <<>>
            /\ call[t].at \in DirtyAt \cup {"lookupWrite"}
            => InProgress(t) = [loc |-> Loc(t), val |-> Head(call[t].todo).val, state |-> "runs"]
         /\ call[t].op \in {"write", "apply"} /\ call[t].todo # <<>> /\ call[t].at = "failed"
            => InProgress(t) = [loc |-> Loc(t), val |-> Head(call[t].todo).val, state |-> "threw"]
  BY DEF InProgress, At, Finished, DirtyAt, Loc

\* The same after a step.
LEMMA ProgressIsThen ==
  ASSUME NEW t \in Threads
  PROVE  /\ call'[t].op \notin {"write", "apply"} => InProgress(t)' = Nobody
         /\ call'[t].at \in Finished \/ call'[t].todo = <<>> => InProgress(t)' = Nobody
         /\ /\ call'[t].op \in {"write", "apply"} /\ call'[t].todo # <<>>
            /\ call'[t].at \in DirtyAt \cup {"lookupWrite"}
            => InProgress(t)' = [loc |-> Head(call'[t].todo).loc, val |-> Head(call'[t].todo).val, state |-> "runs"]
         /\ call'[t].op \in {"write", "apply"} /\ call'[t].todo # <<>> /\ call'[t].at = "failed"
            => InProgress(t)' = [loc |-> Head(call'[t].todo).loc, val |-> Head(call'[t].todo).val, state |-> "threw"]
  BY DEF InProgress, At, Finished, DirtyAt, Loc

\* What a thread has just read, case by case.
LEMMA AnswerIs ==
  ASSUME NEW t \in Threads
  PROVE  /\ call[t].op # "read" \/ call[t].at \notin {"answered", "parse"} => Answer(t) = Nobody
         /\ call[t].op = "read" /\ call[t].at = "answered" => Answer(t) = Head(call[t].todo)
         /\ call[t].op = "read" /\ call[t].at = "parse" =>
              Answer(t) = IF Loc(t) \in Volatile THEN [loc |-> Loc(t), val |-> call[t].fetched[Loc(t)]] ELSE Nobody
  BY DEF Answer, At

\* The same after a step.
LEMMA AnswerIsThen ==
  ASSUME NEW t \in Threads
  PROVE  /\ call'[t].op # "read" \/ call'[t].at \notin {"answered", "parse"} => Answer(t)' = Nobody
         /\ call'[t].op = "read" /\ call'[t].at = "answered" => Answer(t)' = Head(call'[t].todo)
         /\ call'[t].op = "read" /\ call'[t].at = "parse" =>
              Answer(t)' = IF Head(call'[t].todo).loc \in Volatile
                           THEN [loc |-> Head(call'[t].todo).loc, val |-> call'[t].fetched[Head(call'[t].todo).loc]]
                           ELSE Nobody
  BY DEF Answer, At, Loc

Simulated == Kinds' /\ InOrder' /\ Register!Next

\* A step of a thread that writes nothing; it may answer a read.
LEMMA Quietly ==
  ASSUME Coherent, Coherent', OneWriter, Kinds, InOrder, NEW t \in Threads, Others(t), Persists(t),
         UNCHANGED <<device, cache>>, call[t].at # "parse", KindOK(call'[t]),
         call'[t].at = "parse" =>
           \A l \in DOMAIN call'[t].fetched \ Volatile : call'[t].fetched[l] = device[l],
         InProgress(t)' = InProgress(t),
         \/ Answer(t)' = Answer(t)
         \/ /\ Answer(t) = Nobody /\ InProgress(t) = Nobody
            /\ \E l \in Locations, v \in Values : Answer(t)' = [loc |-> l, val |-> v] /\ Visible(l) = v
         \/ Answer(t)' = Nobody
  PROVE  Simulated
<1>1. \A l : Visible(l)' = Visible(l)
  BY SameView DEF Coherent
<1>2. InOrder'
  BY OrderKept
<1>3. Answer(t)' = Answer(t) \/ Reading(t) \/ (Answer(t) # Nobody /\ Answer(t)' = Nobody)
  BY <1>1 DEF Reading
<1>4. Answering /\ SameWrites
  BY <1>3, OthersAreSame
<1>5. Register!Next
  BY <1>1, <1>4, MapsToRead DEF Unchanged
<1> QED
  BY <1>2, <1>5, KindsKept DEF Simulated

\* The call goes on elsewhere, and the register sees nothing of it.
LEMMA GoesOn ==
  ASSUME Coherent, Coherent', OneWriter, Kinds, InOrder, NEW t \in Threads, Others(t),
         UNCHANGED <<device, cache>>,
         call'[t].op = call[t].op, call'[t].todo = call[t].todo,
         call[t].at \notin {"parse", "answered", "failed"}, call'[t].at \notin {"parse", "lookupWrite"},
         KindOK(call'[t]),
         call'[t].at \in DirtyAt => call[t].at \in DirtyAt \cup {"lookupWrite"},
         call'[t].at = "answered" => call[t].op \in {"none", "ping", "clear", "import"} \/ call[t].todo = <<>>
                                     \/ call[t].at \in {"written", "reset"},
         call'[t].at = "failed" => call[t].op \notin {"write", "apply"} \/ call[t].todo = <<>>,
         call[t].op = "read" => call'[t].at # "answered",
         call'[t].at \in {"written", "reset"} => call[t].at \in {"written", "reset"}
  PROVE  Simulated
<1>1. InProgress(t)' = InProgress(t)
  BY DEF InProgress, Loc, At, Kinds, KindOK
<1>2. Answer(t)' = Answer(t)
  BY AnswerIs, AnswerIsThen
<1>3. Persists(t)
  BY DEF Persists
<1> QED
  BY <1>1, <1>2, <1>3, Quietly

\* Nobody reads while the cache changes, and it agrees with the Node.
LEMMA InTheCache ==
  ASSUME Coherent, Coherent', OneWriter, Kinds, InOrder, NEW t \in Threads, Others(t), Persists(t),
         UNCHANGED device, \A r \in Threads : call[r].at # "parse" /\ call'[r].at # "parse",
         \A l \in (DOMAIN cache \cup DOMAIN cache') \ Volatile :
           \/ l \in DOMAIN cache /\ l \in DOMAIN cache' /\ cache'[l] = cache[l]
           \/ /\ l \in DOMAIN cache => cache[l] = device[l]
              /\ l \in DOMAIN cache' => cache'[l] = device[l],
         KindOK(call'[t]), InProgress(t)' = InProgress(t), Answer(t)' = Answer(t)
  PROVE  Simulated
<1>1. InOrder'
  BY OrderInCache
<1>2. ASSUME NEW l PROVE Visible(l)' = Visible(l)
  BY PlainView DEF Coherent
<1>3. Answering /\ SameWrites
  BY OthersAreSame
<1>4. Register!Next
  BY <1>2, <1>3, MapsToRead DEF Unchanged
<1> QED
  BY <1>1, <1>4, KindsKept DEF Simulated

\* A thread's record is replaced by another.
LEMMA Fields ==
  ASSUME TypeInv, NEW t \in Threads, NEW c, call' = [call EXCEPT ![t] = c]
  PROVE  call'[t] = c /\ Others(t)
  BY DEF TypeInv, CallsOK, Others

\* A read, a ping or the work on the cache begins unseen; a write begins.
LEMMA CallsSimulated ==
  ASSUME TypeInv, Control, Coherent, Coherent', OneWriter, Kinds, InOrder, NEW t \in Threads, Calls(t)
  PROVE  Simulated
<1> USE DEF node, locks, shared
<1>1. ASSUME NEW op \in {"read", "write", "apply", "ping", "clear", "import"}, NEW todo,
             NEW at \in {"lookup", "lookupWrite", "ping", "forget", "import"},
             Start(t, op, todo, at)
      PROVE  /\ call[t].op = "none" /\ call[t].at = "idle" /\ Others(t)
             /\ call'[t].op = op /\ call'[t].at = at /\ call'[t].todo = todo
             /\ InProgress(t) = Nobody /\ Answer(t) = Nobody
  <2> DEFINE c == [NoCall EXCEPT !.op = op, !.todo = todo, !.at = at]
  <2>1. c.op = op /\ c.at = at /\ c.todo = todo
    BY DEF NoCall
  <2>2. call' = [call EXCEPT ![t] = c] /\ call[t].at = "idle"
    BY <1>1 DEF Start, At
  <2> HIDE DEF c
  <2>3. call'[t] = c /\ Others(t)
    BY <2>2, Fields
  <2>4. call[t].op = "none"
    BY <2>2 DEF Control, IdleIsNothing, At
  <2> QED
    BY <2>1, <2>2, <2>3, <2>4, ProgressIs, AnswerIs
<1>2. ASSUME NEW op \in {"read", "ping", "clear", "import"}, NEW todo,
             NEW at \in {"lookup", "ping", "forget", "import"}, Start(t, op, todo, at),
             at = "lookup" => op = "read", at = "ping" => op = "ping", UNCHANGED <<device, cache>>
      PROVE  Simulated
  <2>1. /\ call[t].op = "none" /\ call[t].at = "idle" /\ Others(t)
        /\ call'[t].op = op /\ call'[t].at = at
        /\ InProgress(t) = Nobody /\ Answer(t) = Nobody
    BY <1>1, <1>2
  <2>2. InProgress(t)' = Nobody /\ Answer(t)' = Nobody
    BY <2>1, ProgressIsThen, AnswerIsThen
  <2>3. Persists(t) /\ KindOK(call'[t])
    BY <1>2, <2>1 DEF Persists, DirtyAt, KindOK
  <2> QED
    BY <1>2, <2>1, <2>2, <2>3, Quietly
<1>3. ASSUME NEW op \in {"write", "apply"}, NEW todo \in Seq(Item), todo # <<>>,
             Start(t, op, todo, "lookupWrite"), UNCHANGED <<device, cache>>
      PROVE  Simulated
  <2>1. /\ call[t].op = "none" /\ call[t].at = "idle" /\ Others(t)
        /\ call'[t].op = op /\ call'[t].at = "lookupWrite" /\ call'[t].todo = todo
        /\ InProgress(t) = Nobody /\ Answer(t) = Nobody
    BY <1>1, <1>3
  <2>2. Head(todo) \in Item
    BY <1>3
  <2>3. Head(todo).loc \in Locations /\ Head(todo).val \in Values
    BY <2>2 DEF Item
  <2>4. /\ InProgress(t)' = [loc |-> Head(todo).loc, val |-> Head(todo).val, state |-> "runs"]
        /\ Answer(t)' = Nobody
    BY <1>3, <2>1, ProgressIsThen, AnswerIsThen
  <2>5. Persists(t) /\ KindOK(call'[t])
    BY <2>1 DEF Persists, DirtyAt, KindOK
  <2>6. \A l : Visible(l)' = Visible(l)
    BY <1>3, <2>1, SameView DEF Coherent
  <2>7. Register!Next
    BY <2>1, <2>3, <2>4, <2>6, OthersAreSame, MapsToBegin DEF Unchanged
  <2> QED
    BY <1>3, <2>1, <2>5, <2>7, KindsKept, OrderKept DEF Simulated
<1>4. CASE \E l \in Locations : ReadEeprom(t, l)
  BY <1>2, <1>4 DEF ReadEeprom
<1>5. ASSUME NEW l \in Plain, NEW v \in Values, WriteEeprom(t, l, v)
      PROVE  Simulated
  <2>1. [loc |-> l, val |-> v] \in Item
    BY Constants DEF Item
  <2>2. <<[loc |-> l, val |-> v]>> \in Seq(Item) /\ <<[loc |-> l, val |-> v]>> # <<>>
    BY <2>1
  <2> QED
    BY <1>3, <1>5, <2>2 DEF WriteEeprom
<1>6. CASE ApplyConfig(t)
  BY <1>3, <1>6, Constants DEF ApplyConfig
<1>7. CASE Ping(t)
  BY <1>2, <1>7 DEF Ping
<1>8. CASE ClearEepromCache(t)
  BY <1>2, <1>8 DEF ClearEepromCache
<1>9. CASE UpdateEepromCacheFromNodeDiscovery(t)
  BY <1>2, <1>9 DEF UpdateEepromCacheFromNodeDiscovery
<1> QED
  BY <1>4, <1>5, <1>6, <1>7, <1>8, <1>9 DEF Calls

\* An exception is not the end of a write: the cache is still to be told.
LEMMA ThrowEffect ==
  ASSUME TypeInv, NEW t \in Threads, Throw(t)
  PROVE  /\ Others(t) /\ call'[t].op = call[t].op /\ call'[t].todo = call[t].todo
         /\ call'[t].at = IF call[t].at = "write" THEN "clear" ELSE "failed"
<1>1. call[t] \in Call
  BY DEF TypeInv, CallsOK, CallOK
<1>2. /\ Thrown(t).op = call[t].op /\ Thrown(t).todo = call[t].todo
      /\ Thrown(t).at = IF call[t].at = "write" THEN "clear" ELSE "failed"
  BY <1>1 DEF Thrown, Call, At
<1>3. call' = [call EXCEPT ![t] = Thrown(t)]
  BY DEF Throw
<1> HIDE DEF Thrown
<1> QED
  BY <1>2, <1>3, Fields

\* A command fails: the register sees nothing of it, for a write is first taken off the cache.
LEMMA ThrowSimulated ==
  ASSUME TypeInv, Coherent, Coherent', OneWriter, Kinds, InOrder, NEW t \in Threads,
         Throw(t), call[t].at \in Commands, UNCHANGED <<device, cache>>
  PROVE  Simulated
<1>1. /\ Others(t) /\ call'[t].op = call[t].op /\ call'[t].todo = call[t].todo
      /\ call'[t].at = IF call[t].at = "write" THEN "clear" ELSE "failed"
  BY ThrowEffect
<1>2. KindOK(call[t])
  BY DEF Kinds
<1>3. call[t].at # "write" => call[t].op \notin {"write", "apply"} \/ call[t].todo = <<>>
  BY <1>2 DEF KindOK, Commands
<1>4. KindOK(call'[t])
  BY <1>1 DEF KindOK
<1> QED
  BY <1>1, <1>3, <1>4, GoesOn DEF Commands, DirtyAt

\* While the protocol is determined nobody else is in a call.
LEMMA ProtocolSimulated ==
  ASSUME TypeInv, Control, Coherent, Coherent', OneWriter, Kinds, InOrder, NEW t \in Threads,
         ProtocolStep(t)
  PROVE  Simulated
<1> USE DEF node, locks, shared
<1>1. call[t] \in Call /\ KindOK(call[t])
  BY DEF TypeInv, CallsOK, CallOK, Kinds
<1>2. call[t].stage # "none" => call[t].at \in Commands
  BY DEF Control, DeterminingIsAlone
<1>3. ASSUME NEW c, call' = [call EXCEPT ![t] = c], c.op = call[t].op, c.at = call[t].at, c.todo = call[t].todo,
             call[t].at \in Commands
      PROVE  /\ Others(t) /\ call'[t] = c /\ KindOK(call'[t])
             /\ UNCHANGED <<device, cache>> => Simulated
  <2>1. call'[t] = c /\ Others(t)
    BY <1>3, Fields
  <2>2. KindOK(call'[t])
    BY <1>1, <1>3, <2>1 DEF KindOK
  <2>3. call[t].at \in {"reset"} => call[t].todo = <<>>
    BY <1>1 DEF KindOK
  <2>4. UNCHANGED <<device, cache>> => Simulated
    BY <1>3, <2>1, <2>2, GoesOn DEF Commands
  <2> QED
    BY <2>1, <2>2, <2>4
<1>4. CASE GetProtocol(t)
  <2>1. call[t].at \in Commands /\ UNCHANGED <<device, cache>>
    BY <1>4 DEF GetProtocol
  <2>2. CASE call' = [call EXCEPT ![t].ref = TRUE]
    <3> DEFINE c == [call[t] EXCEPT !.ref = TRUE]
    <3>1. c.op = call[t].op /\ c.at = call[t].at /\ c.todo = call[t].todo
      BY <1>1 DEF Call
    <3>2. call' = [call EXCEPT ![t] = c]
      BY <2>2
    <3> HIDE DEF c
    <3> QED
      BY <1>3, <2>1, <3>1, <3>2
  <2>3. CASE call' = [call EXCEPT ![t].stage = "v1_1"]
    <3> DEFINE c == [call[t] EXCEPT !.stage = "v1_1"]
    <3>1. c.op = call[t].op /\ c.at = call[t].at /\ c.todo = call[t].todo
      BY <1>1 DEF Call
    <3>2. call' = [call EXCEPT ![t] = c]
      BY <2>3
    <3> HIDE DEF c
    <3> QED
      BY <1>3, <2>1, <3>1, <3>2
  <2> QED
    BY <1>4, <2>2, <2>3 DEF GetProtocol
<1>5. CASE VersionRead(t)
  <2> DEFINE c == [call[t] EXCEPT !.stage = "none", !.ref = TRUE]
  <2>1. c.op = call[t].op /\ c.at = call[t].at /\ c.todo = call[t].todo
    BY <1>1 DEF Call
  <2>2. call' = [call EXCEPT ![t] = c] /\ UNCHANGED device /\ call[t].stage # "none"
    BY <1>5 DEF VersionRead, Determining
  <2> HIDE DEF c
  <2>3. Others(t) /\ call'[t] = c /\ KindOK(call'[t])
    BY <1>2, <1>3, <2>1, <2>2
  <2>4. \A r \in Threads : call[r].at # "parse" /\ call'[r].at # "parse"
    BY <1>2, <2>1, <2>2, <2>3 DEF Control, DeterminingIsAlone, Alone, At, Others, Commands
  <2>5. ASSUME NEW l \in DOMAIN cache \cup DOMAIN cache'
        PROVE  \/ l \in DOMAIN cache /\ l \in DOMAIN cache' /\ cache'[l] = cache[l]
               \/ l \notin DOMAIN cache /\ (l \in DOMAIN cache' => cache'[l] = device[l])
    <3>1. CASE cache' = cache
      BY <2>5, <3>1
    <3>2. CASE cache' = With(cache, Only(Version, device[Version])) /\ Version \notin DOMAIN cache
      BY <2>5, <3>2 DEF With, Only
    <3> QED
      BY <1>5, <3>1, <3>2 DEF VersionRead
  <2>6. InProgress(t)' = InProgress(t) /\ Answer(t)' = Answer(t)
    <3>1. call'[t].op = call[t].op /\ call'[t].at = call[t].at /\ call'[t].todo = call[t].todo /\ call[t].at # "parse"
      BY <2>1, <2>3, <2>4
    <3>2. InProgress(t)' = InProgress(t)
      BY <3>1 DEF InProgress, Loc, At
    <3> QED
      BY <3>1, <3>2 DEF Answer, Loc, At
  <2>7. Persists(t)
    BY <2>1, <2>3 DEF Persists
  <2> QED
    BY <2>2, <2>3, <2>4, <2>5, <2>6, <2>7, InTheCache
<1>6. CASE OlderProtocol(t)
  <2> DEFINE c == [call[t] EXCEPT !.stage = "v1_0"]
  <2>1. c.op = call[t].op /\ c.at = call[t].at /\ c.todo = call[t].todo
    BY <1>1 DEF Call
  <2>2. call' = [call EXCEPT ![t] = c] /\ UNCHANGED <<device, cache>> /\ call[t].stage # "none"
    BY <1>6 DEF OlderProtocol, Determining
  <2> HIDE DEF c
  <2> QED
    BY <1>2, <1>3, <2>1, <2>2
<1>7. CASE NotDetermined(t) \/ PortFailsDetermining(t)
  <2>1. Throw(t) /\ call[t].at \in Commands /\ UNCHANGED <<device, cache>>
    BY <1>2, <1>7 DEF NotDetermined, PortFailsDetermining, Determining
  <2> QED
    BY <2>1, ThrowSimulated
<1> QED
  BY <1>4, <1>5, <1>6, <1>7 DEF ProtocolStep

\* What the register is while a value is taken over into the cache: a location
\* that changes is the one that is being written.
LEMMA TakenOver ==
  ASSUME TypeInv, Coherent, Coherent', OneWriter, InOrder, NEW t \in Threads, Others(t),
         call[t].at = "parse", call'[t].at # "parse", UNCHANGED device,
         cache' = With(cache, call[t].fetched)
  PROVE  /\ \A l \in DOMAIN call[t].fetched \ Volatile : Visible(l)' = call[t].fetched[l]
         /\ \A l : Visible(l)' = Visible(l) \/
              \E w \in Threads : /\ call[w].at \in DirtyAt /\ Loc(w) = l
                                 /\ Visible(l)' = Head(call[w].todo).val
<1>1. \A r \in Threads : call[r].at = "parse" => r = t
  BY DEF Coherent, ReadersHold, WithCache
<1>2. \A r \in Threads : call'[r].at # "parse"
  BY <1>1 DEF Others
<1>3. DOMAIN cache' = DOMAIN cache \cup DOMAIN call[t].fetched
      /\ \A l \in DOMAIN cache' : cache'[l] = IF l \in DOMAIN call[t].fetched THEN call[t].fetched[l] ELSE cache[l]
  BY DEF With
<1>4. ASSUME NEW l
      PROVE  Visible(l)' = IF l \in Volatile THEN device[l]
                           ELSE IF l \in DOMAIN call[t].fetched THEN call[t].fetched[l]
                           ELSE IF l \in DOMAIN cache THEN cache[l] ELSE device[l]
  <2>1. ReadersHold' /\ \A r \in Threads : ~At(r, "parse")'
    BY <1>2 DEF Coherent, At
  <2>2. CASE l \in Volatile
    BY <2>1, <2>2, VisibleIsThen
  <2>3. CASE l \notin Volatile /\ l \in DOMAIN cache'
    BY <1>3, <2>1, <2>3, VisibleIsThen
  <2>4. CASE l \notin Volatile /\ l \notin DOMAIN cache'
    BY <1>3, <2>1, <2>4, VisibleIsThen
  <2> QED
    BY <2>2, <2>3, <2>4
<1>5. ASSUME NEW l, Visible(l)' # Visible(l)
      PROVE  l \notin Volatile /\ l \in DOMAIN call[t].fetched /\ l \in DOMAIN cache
             /\ cache[l] # call[t].fetched[l]
  <2>1. ReadersHold /\ At(t, "parse")
    BY DEF Coherent, At
  <2>2. l \notin Volatile
    BY <1>4, <1>5, <2>1, VisibleIs
  <2>3. CASE l \notin DOMAIN call[t].fetched
    <3>1. \A r \in Threads : ~(At(r, "parse") /\ l \in DOMAIN call[r].fetched)
      BY <1>1, <2>3 DEF At
    <3> QED
      BY <1>4, <1>5, <2>1, <2>2, <2>3, <3>1, VisibleIs
  <2>4. CASE l \in DOMAIN call[t].fetched /\ l \notin DOMAIN cache
    BY <1>4, <1>5, <2>1, <2>2, <2>4, VisibleIs
  <2>5. CASE l \in DOMAIN call[t].fetched /\ l \in DOMAIN cache
    BY <1>4, <1>5, <2>1, <2>2, <2>5, VisibleIs
  <2> QED
    BY <2>2, <2>3, <2>4, <2>5
<1>6. ASSUME NEW l, Visible(l)' # Visible(l)
      PROVE  \E w \in Threads : /\ call[w].at \in DirtyAt /\ Loc(w) = l
                                /\ Visible(l)' = Head(call[w].todo).val
  <2>1. /\ l \notin Volatile /\ l \in DOMAIN call[t].fetched /\ l \in DOMAIN cache
        /\ cache[l] # call[t].fetched[l]
    BY <1>5, <1>6
  <2>2. Dirty(l)
    BY <2>1, CleanIsDevice DEF At
  <2>3. PICK w \in Threads : call[w].at \in DirtyAt /\ Loc(w) = l
    BY <2>2 DEF Dirty
  <2>4. call[t].fetched[l] = Head(call[w].todo).val
    BY <2>1, <2>3 DEF InOrder, NotBefore, At
  <2>5. Visible(l)' = call[t].fetched[l]
    BY <1>4, <2>1
  <2> QED
    BY <2>3, <2>4, <2>5
<1> QED
  BY <1>4, <1>6

\* What a thread that is writing is doing, to the register.
LEMMA DirtyIsWrite ==
  ASSUME TypeInv, Coherent, NEW w \in Threads, call[w].at \in DirtyAt \cup {"lookupWrite"}
  PROVE  /\ Loc(w) \in Locations /\ Head(call[w].todo).val \in Values
         /\ WriteOf(w, Loc(w), Head(call[w].todo).val)
         /\ call[w].op \in {"write", "apply"} /\ call[w].todo # <<>> /\ Answer(w) = Nobody
<1>1. CallOK(call[w]) /\ call[w].at \in AtLocation
  BY DEF TypeInv, CallsOK, DirtyAt, AtLocation
<1>2. call[w].op \in {"write", "apply"}
  BY DEF Coherent, WritersKnown
<1>3. /\ call[w].todo # <<>> /\ Loc(w) \in Locations /\ Head(call[w].todo).val \in Values
  BY <1>1, ItemIs DEF Loc
<1> QED
  BY <1>2, <1>3, ProgressIs, AnswerIs DEF WriteOf

\* What a page download fetched is stored: of what is in the cache, at most the value that is being written changes.
LEMMA ParseSimulated ==
  ASSUME TypeInv, Coherent, Coherent', OneWriter, Kinds, InOrder, NEW t \in Threads, ParseRead(t)
  PROVE  Simulated
<1> USE DEF node, locks, shared
<1>1. CallOK(call[t]) /\ call[t] \in Call /\ call[t].op = "read" /\ call[t].at = "parse"
  BY DEF TypeInv, CallsOK, CallOK, Kinds, KindOK, ParseRead, At
<1>2. /\ call[t].todo \in Seq(Item) /\ call[t].todo # <<>> /\ Head(call[t].todo) = call[t].todo[1]
      /\ Loc(t) \in Locations /\ Head(call[t].todo) \in Item /\ Loc(t) \in DOMAIN call[t].fetched
  <2>1. call[t].todo \in Seq(Item) /\ call[t].todo # <<>>
    BY <1>1 DEF CallOK, Call, AtLocation
  <2>2. Head(call[t].todo) \in Item /\ Head(call[t].todo) = call[t].todo[1]
    BY <2>1
  <2> QED
    BY <1>1, <2>1, <2>2 DEF Loc, Item, CallOK
<1> DEFINE v == cache'[Loc(t)]
           b == [call[t] EXCEPT !.todo[1].val = v]
           c == Answered(b)
<1>3. /\ cache' = With(cache, call[t].fetched) /\ UNCHANGED device
      /\ call' = [call EXCEPT ![t] = c]
  BY DEF ParseRead
<1>4. v = call[t].fetched[Loc(t)] /\ v \in Values
  <2>1. call[t].fetched \in Partial
    BY <1>1 DEF Call
  <2>2. v = call[t].fetched[Loc(t)]
    BY <1>2, <1>3 DEF With
  <2> QED
    BY <1>2, <2>1, <2>2, PartialHas
<1> HIDE DEF v
<1>5. b.op = "read" /\ b.todo = [call[t].todo EXCEPT ![1].val = v] /\ DOMAIN b = DOMAIN call[t]
  BY <1>1 DEF Call
<1>6. b.todo[1] = [loc |-> Loc(t), val |-> v] /\ b.todo \in Seq(Item) /\ b.todo # <<>>
  <2>1. call[t].todo[1] \in Item /\ call[t].todo[1].loc = Loc(t)
    BY <1>2 DEF Loc
  <2>2. [call[t].todo[1] EXCEPT !.val = v] = [loc |-> Loc(t), val |-> v]
    BY <2>1 DEF Item
  <2>3. 1 \in DOMAIN call[t].todo /\ [loc |-> Loc(t), val |-> v] \in Item
    BY <1>2, <1>4 DEF Item
  <2>4. b.todo = [call[t].todo EXCEPT ![1] = [loc |-> Loc(t), val |-> v]]
    BY <1>5, <2>2
  <2> HIDE DEF b
  <2> QED
    BY <1>2, <2>3, <2>4
<1>7. c.op = "read" /\ c.at = "answered" /\ c.todo = b.todo
  <2>1. b \in [op : {"read"}, at : Places, todo : Seq(Item), tries : Nat, ref : BOOLEAN,
               stage : {"none", "v1_1", "v1_0"}, fetched : Partial]
    BY <1>1, <1>5, <1>6 DEF Call
  <2> HIDE DEF b
  <2> QED
    BY <2>1 DEF Answered
<1> HIDE DEF b, c
<1>8. call'[t] = c /\ Others(t)
  BY <1>3, Fields
<1>9. /\ Answer(t)' = [loc |-> Loc(t), val |-> v] /\ InProgress(t) = Nobody /\ InProgress(t)' = Nobody
      /\ Answer(t) = IF Loc(t) \in Volatile THEN [loc |-> Loc(t), val |-> v] ELSE Nobody
  <2>1. Head(c.todo) = [loc |-> Loc(t), val |-> v]
    BY <1>6, <1>7
  <2>2. Answer(t)' = [loc |-> Loc(t), val |-> v]
    BY <1>7, <1>8, <2>1, AnswerIsThen
  <2>3. InProgress(t) = Nobody /\ InProgress(t)' = Nobody
    BY <1>1, <1>7, <1>8, ProgressIs, ProgressIsThen
  <2> QED
    BY <1>1, <1>4, <2>2, <2>3, AnswerIs
<1>10. /\ \A l \in DOMAIN call[t].fetched \ Volatile : Visible(l)' = call[t].fetched[l]
       /\ \A l : Visible(l)' = Visible(l) \/
            \E w \in Threads : /\ call[w].at \in DirtyAt /\ Loc(w) = l
                               /\ Visible(l)' = Head(call[w].todo).val
  BY <1>1, <1>3, <1>7, <1>8, TakenOver
<1>11. Answering /\ SameWrites
  <2>1. Loc(t) \notin Volatile => Reading(t)
    <3> DEFINE m == Loc(t)
    <3>1. m \in Locations /\ v \in Values /\ Answer(t)' = [loc |-> m, val |-> v]
      BY <1>2, <1>4, <1>9
    <3>2. \A l \in Locations : l = m /\ m \notin Volatile => Visible(l)' = v
      BY <1>2, <1>4, <1>10
    <3> HIDE DEF m
    <3>3. m \notin Volatile => Answer(t) = Nobody /\ InProgress(t) = Nobody
      BY <1>9 DEF m
    <3>4. m \notin Volatile => Reading(t)
      BY <3>1, <3>2, <3>3 DEF Reading
    <3> QED
      BY <3>4 DEF m
  <2>2. Loc(t) \in Volatile => Answer(t)' = Answer(t)
    BY <1>9
  <2> QED
    BY <1>8, <1>9, <2>1, <2>2, OthersAreSame
<1>12. Register!Next
  <2>1. CASE \A l \in Locations : Visible(l)' = Visible(l)
    BY <1>11, <2>1, MapsToRead DEF Unchanged
  <2>2. CASE \E l \in Locations : Visible(l)' # Visible(l)
    <3>1. PICK l \in Locations : Visible(l)' # Visible(l)
      BY <2>2
    <3>2. PICK w \in Threads : /\ call[w].at \in DirtyAt /\ Loc(w) = l
                               /\ Visible(l)' = Head(call[w].todo).val
      BY <1>10, <3>1
    <3>3. \A k : Visible(k)' # Visible(k) => k = l
      BY <1>10, <3>2, OneIsDirty
    <3>4. Becomes(l, Head(call[w].todo).val)
      BY <3>2, <3>3 DEF Becomes
    <3> QED
      BY <1>11, <3>2, <3>4, DirtyIsWrite, MapsToEffect
  <2> QED
    BY <2>1, <2>2
<1>13. InOrder'
  <2>1. Persists(t)
    BY <1>7, <1>8 DEF Persists, DirtyAt
  <2>2. \A r \in Threads : call'[r].at # "parse"
    <3>1. \A r \in Threads : call[r].at = "parse" => r = t
      BY <1>1 DEF Coherent, ReadersHold, WithCache
    <3> QED
      BY <1>7, <1>8, <3>1 DEF Others
  <2>3. \A l \in DOMAIN cache' : \/ l \in DOMAIN cache /\ cache'[l] = cache[l]
                                 \/ l \in DOMAIN call[t].fetched /\ cache'[l] = call[t].fetched[l]
    BY <1>3 DEF With
  <2> QED
    BY <1>1, <1>3, <1>8, <2>1, <2>2, <2>3, OrderInCache
<1>14. KindOK(call'[t])
  BY <1>7, <1>8 DEF KindOK
<1> QED
  BY <1>8, <1>12, <1>13, <1>14, KindsKept DEF Simulated

\* A read answers from the cache, or it fetches what the Node has.
LEMMA ReadSimulated ==
  ASSUME TypeInv, Coherent, Coherent', OneWriter, Kinds, InOrder, NEW t \in Threads, ReadStep(t)
  PROVE  Simulated
<1> USE DEF node, locks, shared
<1>1. CallOK(call[t]) /\ call[t] \in Call /\ KindOK(call[t])
  BY DEF TypeInv, CallsOK, CallOK, Kinds
<1>2. call[t].at \in AtLocation =>
        /\ call[t].todo \in Seq(Item) /\ call[t].todo # <<>> /\ Head(call[t].todo) = call[t].todo[1]
        /\ call[t].todo[1] \in Item /\ call[t].todo[1].loc = Loc(t) /\ Loc(t) \in Locations
  <2>1. ASSUME call[t].at \in AtLocation
        PROVE  /\ call[t].todo \in Seq(Item) /\ call[t].todo # <<>> /\ Head(call[t].todo) = call[t].todo[1]
               /\ call[t].todo[1] \in Item /\ call[t].todo[1].loc = Loc(t) /\ Loc(t) \in Locations
    <3>1. call[t].todo \in Seq(Item) /\ call[t].todo # <<>>
      BY <1>1, <2>1 DEF CallOK, Call
    <3>2. call[t].todo[1] \in Item /\ Head(call[t].todo) = call[t].todo[1]
      BY <3>1
    <3> QED
      BY <3>1, <3>2 DEF Loc, Item
  <2> QED
    BY <2>1

\* On the way, nothing is answered.
<1>3. ASSUME call[t].op = "read", call[t].at \in {"lookup", "lock", "group", "single"},
             NEW c, call' = [call EXCEPT ![t] = c], c.op = "read", c.todo = call[t].todo,
             c.at \in {"lock", "group", "single"}, UNCHANGED <<device, cache>>
      PROVE  Simulated
  <2>1. call'[t] = c /\ Others(t)
    BY <1>3, Fields
  <2>2. KindOK(call'[t])
    BY <1>3, <2>1 DEF KindOK
  <2> QED
    BY <1>3, <2>1, <2>2, GoesOn DEF DirtyAt

\* What is fetched is what everybody sees; a volatile location is answered by it.
<1>4. ASSUME call[t].op = "read", call[t].at \in {"group", "single"}, NEW c, call' = [call EXCEPT ![t] = c],
             c.op = "read", c.todo = call[t].todo, c.at = "parse", UNCHANGED <<device, cache>>,
             Loc(t) \in DOMAIN c.fetched, \A l \in DOMAIN c.fetched : c.fetched[l] = device[l]
      PROVE  Simulated
  <2>1. call'[t] = c /\ Others(t)
    BY <1>4, Fields
  <2>2. KindOK(call'[t]) /\ Persists(t)
    BY <1>4, <2>1 DEF KindOK, Persists, DirtyAt
  <2>3. InProgress(t) = Nobody /\ InProgress(t)' = Nobody /\ Answer(t) = Nobody
    BY <1>4, <2>1, ProgressIs, ProgressIsThen, AnswerIs
  <2>4. Loc(t) \in Locations
    BY <1>2, <1>4 DEF AtLocation
  <2>5. Answer(t)' = IF Loc(t) \in Volatile THEN [loc |-> Loc(t), val |-> device[Loc(t)]] ELSE Nobody
    <3>1. Head(call'[t].todo).loc = Loc(t)
      BY <1>4, <2>1 DEF Loc
    <3> QED
      BY <1>4, <2>1, <3>1, AnswerIsThen
  <2>6. Loc(t) \in Volatile => Visible(Loc(t)) = device[Loc(t)]
    BY VisibleIs DEF Coherent
  <2>7. device[Loc(t)] \in Values
    BY <2>4 DEF TypeInv, NodeOK
  <2> QED
    BY <1>4, <2>1, <2>2, <2>3, <2>4, <2>5, <2>6, <2>7, Quietly
<1>5. CASE Lookup(t)
  <2>1. call[t].at = "lookup" /\ call[t].op = "read" /\ UNCHANGED <<device, cache>>
    BY <1>1, <1>5 DEF Lookup, At, KindOK
  <2>2. CASE Loc(t) \in DOMAIN cache \ Volatile
    <3> DEFINE v == cache[Loc(t)]
               c == [call[t] EXCEPT !.at = "answered", !.todo[1].val = v]
    <3>1. call' = [call EXCEPT ![t] = c]
      BY <1>5, <2>2 DEF Lookup
    <3>2. v \in Values /\ Visible(Loc(t)) = v
      <4>1. v \in Values
        BY <2>2, PartialHas DEF TypeInv, NodeOK
      <4>2. Visible(Loc(t)) = v
        BY <2>2, VisibleIs DEF Coherent
      <4> QED
        BY <4>1, <4>2
    <3> HIDE DEF v
    <3>3. c.op = "read" /\ c.at = "answered" /\ c.todo = [call[t].todo EXCEPT ![1].val = v]
      BY <1>1, <2>1 DEF Call
    <3>4. Head(c.todo) = [loc |-> Loc(t), val |-> v]
      <4>1. call[t].todo[1] \in Item /\ call[t].todo[1].loc = Loc(t) /\ 1 \in DOMAIN call[t].todo
            /\ call[t].todo \in Seq(Item)
        BY <1>2, <2>1 DEF AtLocation
      <4>2. [call[t].todo[1] EXCEPT !.val = v] = [loc |-> Loc(t), val |-> v]
        BY <4>1 DEF Item
      <4>3. c.todo = [call[t].todo EXCEPT ![1] = [loc |-> Loc(t), val |-> v]]
        BY <3>3, <4>2
      <4>4. [loc |-> Loc(t), val |-> v] \in Item
        BY <3>2, <4>1 DEF Item
      <4> HIDE DEF c
      <4> QED
        BY <4>1, <4>3, <4>4
    <3> HIDE DEF c
    <3>5. call'[t] = c /\ Others(t)
      BY <3>1, Fields
    <3>6. KindOK(call'[t]) /\ Persists(t)
      BY <3>3, <3>5 DEF KindOK, Persists, DirtyAt
    <3>7. /\ InProgress(t) = Nobody /\ InProgress(t)' = Nobody /\ Answer(t) = Nobody
          /\ Answer(t)' = [loc |-> Loc(t), val |-> v]
      BY <2>1, <3>3, <3>4, <3>5, ProgressIs, ProgressIsThen, AnswerIs, AnswerIsThen
    <3>8. Loc(t) \in Locations
      BY <1>2, <2>1 DEF AtLocation
    <3> QED
      BY <2>1, <3>2, <3>3, <3>5, <3>6, <3>7, <3>8, Quietly
  <2>3. CASE ~(Loc(t) \in DOMAIN cache \ Volatile)
    <3> DEFINE c == [call[t] EXCEPT !.at = "lock"]
    <3>1. call' = [call EXCEPT ![t] = c]
      BY <1>5, <2>3 DEF Lookup, Goto
    <3>2. c.op = "read" /\ c.at = "lock" /\ c.todo = call[t].todo
      BY <1>1, <2>1 DEF Call
    <3> HIDE DEF c
    <3> QED
      BY <1>3, <2>1, <3>1, <3>2
  <2> QED
    BY <2>2, <2>3
<1>6. CASE LockCache(t)
  <2> DEFINE to == IF settings = "own" THEN "group" ELSE "single"
             c  == [call[t] EXCEPT !.at = to]
  <2>1. call[t].at = "lock" /\ call[t].op = "read" /\ UNCHANGED <<device, cache>>
    BY <1>1, <1>6 DEF LockCache, At, KindOK
  <2>2. call' = [call EXCEPT ![t] = c]
    BY <1>6 DEF LockCache, Goto
  <2>3. c.op = "read" /\ c.at \in {"group", "single"} /\ c.todo = call[t].todo
    BY <1>1, <2>1 DEF Call
  <2> HIDE DEF c
  <2> QED
    BY <1>3, <2>1, <2>2, <2>3
<1>7. CASE GroupRead(t)
  <2>1. call[t].at = "group" /\ call[t].op = "read" /\ UNCHANGED <<device, cache>>
    BY <1>1, <1>7 DEF GroupRead, Commanding, At, KindOK
  <2>2. CASE Group[Loc(t)] # {} /\ call' = [call EXCEPT ![t].at = "parse", ![t].fetched = Restrict(device, Group[Loc(t)])]
    <3> DEFINE c == [call[t] EXCEPT !.at = "parse", !.fetched = Restrict(device, Group[Loc(t)])]
    <3>1. call' = [call EXCEPT ![t] = c]
      BY <2>2
    <3>2. c.op = "read" /\ c.at = "parse" /\ c.todo = call[t].todo /\ c.fetched = Restrict(device, Group[Loc(t)])
      BY <1>1, <2>1 DEF Call
    <3>3. Loc(t) \in Group[Loc(t)]
      BY <1>2, <2>1, <2>2, Constants DEF AtLocation
    <3> HIDE DEF c
    <3>4. Loc(t) \in DOMAIN c.fetched /\ \A l \in DOMAIN c.fetched : c.fetched[l] = device[l]
      BY <3>2, <3>3 DEF Restrict
    <3> QED
      BY <1>4, <2>1, <3>1, <3>2, <3>4
  <2>3. CASE call' = [call EXCEPT ![t].at = "single", ![t].ref = FALSE, ![t].tries = 1]
    <3> DEFINE c == [call[t] EXCEPT !.at = "single", !.ref = FALSE, !.tries = 1]
    <3>1. call' = [call EXCEPT ![t] = c]
      BY <2>3
    <3>2. c.op = "read" /\ c.at = "single" /\ c.todo = call[t].todo
      BY <1>1, <2>1 DEF Call
    <3> HIDE DEF c
    <3> QED
      BY <1>3, <2>1, <3>1, <3>2
  <2> QED
    BY <1>7, <2>2, <2>3 DEF GroupRead
<1>8. CASE SingleRead(t)
  <2> DEFINE c == [call[t] EXCEPT !.at = "parse", !.fetched = Only(Loc(t), device[Loc(t)])]
  <2>1. call[t].at = "single" /\ call[t].op = "read" /\ UNCHANGED <<device, cache>>
    BY <1>1, <1>8 DEF SingleRead, Commanding, At, KindOK
  <2>2. call' = [call EXCEPT ![t] = c]
    BY <1>8 DEF SingleRead
  <2>3. c.op = "read" /\ c.at = "parse" /\ c.todo = call[t].todo /\ c.fetched = Only(Loc(t), device[Loc(t)])
    BY <1>1, <2>1 DEF Call
  <2> HIDE DEF c
  <2>4. Loc(t) \in DOMAIN c.fetched /\ \A l \in DOMAIN c.fetched : c.fetched[l] = device[l]
    BY <2>3 DEF Only
  <2> QED
    BY <1>4, <2>1, <2>2, <2>3, <2>4
<1>9. CASE SingleReadFails(t)
  <2>1. call[t].at = "single" /\ call[t].op = "read" /\ UNCHANGED <<device, cache>>
    BY <1>1, <1>9 DEF SingleReadFails, Commanding, At, KindOK
  <2>2. CASE call' = [call EXCEPT ![t].tries = @ + 1, ![t].ref = FALSE]
    <3> DEFINE c == [call[t] EXCEPT !.tries = call[t].tries + 1, !.ref = FALSE]
    <3>1. call' = [call EXCEPT ![t] = c]
      BY <2>2
    <3>2. c.op = "read" /\ c.at = "single" /\ c.todo = call[t].todo
      BY <1>1, <2>1 DEF Call
    <3> HIDE DEF c
    <3> QED
      BY <1>3, <2>1, <3>1, <3>2
  <2>3. CASE Throw(t)
    BY <2>1, <2>3, ThrowSimulated DEF Commands
  <2> QED
    BY <1>9, <2>2, <2>3 DEF SingleReadFails
<1> QED
  BY <1>5, <1>6, <1>7, <1>8, <1>9, ParseSimulated DEF ReadStep

\* The Node changes, and the reads go on with what they have.
LEMMA DeviceView ==
  ASSUME Coherent, Coherent', UNCHANGED cache,
         \A r \in Threads : call'[r].at = "parse" \/ call[r].at = "parse" => call'[r] = call[r], NEW l
  PROVE  /\ l \notin Volatile => Visible(l)' = Visible(l) \/ Visible(l)' = device'[l]
         /\ l \in Volatile => Visible(l)' = device'[l]
         /\ device'[l] = device[l] => Visible(l)' = Visible(l)
<1>1. \A r \in Threads : At(r, "parse")' /\ l \in DOMAIN call'[r].fetched
                         <=> At(r, "parse") /\ l \in DOMAIN call[r].fetched
  BY DEF At
<1>2. ReadersHold /\ ReadersHold'
  BY DEF Coherent
<1>3. CASE l \in Volatile \/ l \in DOMAIN cache
  BY <1>2, <1>3, VisibleIs, VisibleIsThen
<1>4. CASE l \notin Volatile /\ l \notin DOMAIN cache
  <2>1. CASE \E r \in Threads : At(r, "parse") /\ l \in DOMAIN call[r].fetched
    <3>1. PICK r \in Threads : At(r, "parse") /\ l \in DOMAIN call[r].fetched
      BY <2>1
    <3>2. At(r, "parse")' /\ call'[r] = call[r]
      BY <3>1 DEF At
    <3>3. Visible(l) = call[r].fetched[l]
      BY <1>2, <1>4, <3>1, VisibleIs
    <3>4. Visible(l)' = call'[r].fetched[l]
      BY <1>2, <1>4, <3>1, <3>2, VisibleIsThen
    <3> QED
      BY <1>4, <3>2, <3>3, <3>4
  <2>2. CASE \A r \in Threads : ~(At(r, "parse") /\ l \in DOMAIN call[r].fetched)
    <3>1. Visible(l) = device[l]
      BY <1>2, <1>4, <2>2, VisibleIs
    <3>2. Visible(l)' = device'[l]
      BY <1>1, <1>2, <1>4, <2>2, VisibleIsThen
    <3> QED
      BY <1>4, <3>1, <3>2
  <2> QED
    BY <2>1, <2>2
<1> QED
  BY <1>3, <1>4

\* The write takes effect, or it does not yet.
LEMMA DeviceSimulated ==
  ASSUME TypeInv, Coherent, Coherent', OneWriter, Kinds, InOrder, NEW t \in Threads, Others(t),
         call[t].at = "write", call'[t].at \in DirtyAt, call'[t].op = call[t].op, call'[t].todo = call[t].todo,
         UNCHANGED cache,
         device' \in {device, [device EXCEPT ![Loc(t)] = Head(call[t].todo).val]}
  PROVE  Simulated
<1> DEFINE m == Loc(t)
           v == Head(call[t].todo).val
<1>1. /\ m \in Locations /\ v \in Values /\ WriteOf(t, m, v) /\ Answer(t) = Nobody
      /\ call[t].op \in {"write", "apply"} /\ call[t].todo # <<>>
  BY DirtyIsWrite DEF DirtyAt
<1>2. InProgress(t)' = InProgress(t) /\ Answer(t)' = Nobody
  <2>1. InProgress(t)' = [loc |-> m, val |-> v, state |-> "runs"]
    BY <1>1, ProgressIsThen DEF Loc
  <2>2. Answer(t)' = Nobody
    BY AnswerIsThen DEF DirtyAt
  <2> QED
    BY <1>1, <2>1, <2>2 DEF WriteOf
<1>3. Answering /\ SameWrites
  BY <1>1, <1>2, OthersAreSame
<1>4. InOrder' /\ KindOK(call'[t])
  BY OrderOnDevice DEF KindOK, DirtyAt
<1>5. \A l \in Locations : device'[l] = device[l] \/ (l = m /\ device'[l] = v)
  BY <1>1 DEF TypeInv, NodeOK
<1>6. \A r \in Threads : call'[r].at = "parse" \/ call[r].at = "parse" => call'[r] = call[r]
  BY DEF Others, DirtyAt
<1> HIDE DEF m, v
<1>7. ASSUME NEW l \in Locations
      PROVE  Visible(l)' = Visible(l) \/ (l = m /\ Visible(l)' = v)
  BY <1>5, <1>6, DeviceView
<1>8. Register!Next
  <2>1. CASE Unchanged
    BY <1>3, <2>1, MapsToRead
  <2>2. CASE ~Unchanged
    <3>1. PICK l \in Locations : Visible(l)' # Visible(l)
      BY <2>2 DEF Unchanged
    <3>2. l = m /\ Visible(l)' = v
      BY <1>7, <3>1
    <3>3. Becomes(m, v)
      BY <1>7, <3>2 DEF Becomes
    <3> QED
      BY <1>1, <1>3, <3>3, MapsToEffect
  <2> QED
    BY <2>1, <2>2
<1> QED
  BY <1>4, <1>8, KindsKept DEF Simulated

\* What is left when one of several is done, and when the last is.
LEMMA TailIs ==
  ASSUME NEW s \in Seq(Item), s # <<>>
  PROVE  /\ Tail(s) \in Seq(Item)
         /\ Len(s) > 1 => Tail(s) # <<>>
         /\ ~(Len(s) > 1) => Tail(s) = <<>>
<1>1. ASSUME NEW q \in Seq(Item), Len(q) = 0
      PROVE  q = <<>>
  BY <1>1
<1>2. ASSUME NEW q, q = <<>>
      PROVE  Len(q) = 0
  BY <1>2
<1>3. Tail(s) \in Seq(Item) /\ Len(Tail(s)) = Len(s) - 1 /\ Len(s) \in Nat
  OBVIOUS
<1>4. Len(s) # 0
  BY <1>1
<1> DEFINE n == Len(s)
           m == Len(Tail(s))
<1>5. n \in Nat /\ n # 0 /\ m = n - 1
  BY <1>3, <1>4
<1> HIDE DEF n, m
<1>6. (n > 1 => m # 0) /\ (~(n > 1) => m = 0)
  BY <1>5
<1> QED
  BY <1>1, <1>2, <1>3, <1>6 DEF n, m

\* Where a call is when a write of it is done.
LEMMA AnsweredWrite ==
  ASSUME NEW c, CallOK(c), c.op \in {"write", "apply"}, c.todo # <<>>
  PROVE  /\ Answered(c).op = c.op
         /\ \/ Answered(c).at = "answered"
            \/ c.op = "apply" /\ Answered(c).at = "written" /\ Answered(c).todo = <<>>
            \/ Answered(c).at = "lookupWrite" /\ Answered(c).todo \in Seq(Item) /\ Answered(c).todo # <<>>
<1>1. c \in Call /\ c.todo \in Seq(Item)
  BY DEF CallOK, Call
<1>2. CASE c.op = "apply" /\ Len(c.todo) > 1
  <2>1. Answered(c).op = c.op /\ Answered(c).at = "lookupWrite" /\ Answered(c).todo = Tail(c.todo)
    BY <1>1, <1>2 DEF Answered, Call
  <2>2. Tail(c.todo) \in Seq(Item) /\ Tail(c.todo) # <<>>
    BY <1>1, <1>2, TailIs
  <2> QED
    BY <2>1, <2>2
<1>3. CASE c.op = "apply" /\ ~(Len(c.todo) > 1)
  <2>1. Answered(c).op = c.op /\ Answered(c).at = "written" /\ Answered(c).todo = Tail(c.todo)
    BY <1>1, <1>3 DEF Answered, Call
  <2>2. Tail(c.todo) = <<>>
    BY <1>1, <1>3, TailIs
  <2> QED
    BY <1>3, <2>1, <2>2
<1>4. CASE c.op # "apply"
  BY <1>1, <1>4 DEF Answered, Call
<1> QED
  BY <1>2, <1>3, <1>4

\* A write ends, and the next item of a configuration begins with it.
LEMMA WriteReturns ==
  ASSUME TypeInv, Coherent, NEW t \in Threads, call[t].at \in DirtyAt \cup {"lookupWrite"},
         call' = [call EXCEPT ![t] = Answered(call[t])]
  PROVE  /\ Others(t) /\ call'[t].at \notin DirtyAt \cup {"parse"} /\ KindOK(call'[t]) /\ Persists(t)
         /\ OtherWrites(t) /\ SameAnswers
         /\ \/ InProgress(t)' = Nobody
            \/ \E l \in Locations, x \in Values : InProgress(t)' = [loc |-> l, val |-> x, state |-> "runs"]
<1>1. call'[t] = Answered(call[t]) /\ Others(t)
  BY Fields
<1>2. CallOK(call[t]) /\ call[t].op \in {"write", "apply"} /\ call[t].todo # <<>> /\ Answer(t) = Nobody
  BY DirtyIsWrite DEF TypeInv, CallsOK
<1>3. /\ call'[t].op \in {"write", "apply"}
      /\ \/ call'[t].at = "answered"
         \/ call'[t].op = "apply" /\ call'[t].at = "written" /\ call'[t].todo = <<>>
         \/ call'[t].at = "lookupWrite" /\ call'[t].todo \in Seq(Item) /\ call'[t].todo # <<>>
  BY <1>1, <1>2, AnsweredWrite
<1>4. Answer(t)' = Nobody
  BY <1>3, AnswerIsThen
<1>5. \/ InProgress(t)' = Nobody
      \/ \E l \in Locations, x \in Values : InProgress(t)' = [loc |-> l, val |-> x, state |-> "runs"]
  <2>1. CASE call'[t].at \in {"answered", "written"}
    BY <2>1, ProgressIsThen DEF Finished
  <2>2. CASE call'[t].at = "lookupWrite" /\ call'[t].todo \in Seq(Item) /\ call'[t].todo # <<>>
    <3>1. Head(call'[t].todo) \in Item
      BY <2>2
    <3>2. Head(call'[t].todo).loc \in Locations /\ Head(call'[t].todo).val \in Values
      BY <3>1 DEF Item
    <3> QED
      BY <1>3, <2>2, <3>2, ProgressIsThen
  <2> QED
    BY <1>3, <2>1, <2>2
<1> QED
  BY <1>1, <1>2, <1>3, <1>4, <1>5, OthersAreSame DEF KindOK, DirtyAt, Persists

\* A write is over when the cache has the value, or when it is known to have it.
LEMMA WriteSimulated ==
  ASSUME TypeInv, Coherent, Coherent', OneWriter, Kinds, InOrder, NEW t \in Threads, WriteStep(t)
  PROVE  Simulated
<1> USE DEF node, locks, shared
<1>1. call[t] \in Call /\ KindOK(call[t])
  BY DEF TypeInv, CallsOK, CallOK, Kinds
<1> DEFINE m == Loc(t)
           v == Head(call[t].todo).val
<1>2. call[t].at \in DirtyAt \cup {"lookupWrite"} =>
        /\ m \in Locations /\ v \in Values /\ WriteOf(t, m, v) /\ Answer(t) = Nobody
        /\ call[t].op \in {"write", "apply"} /\ call[t].todo # <<>>
  BY DirtyIsWrite
<1>3. cacheMutex = Nobody /\ call[t].at \notin {"parse"} /\ call'[t].at # "parse" /\ Others(t)
        => \A r \in Threads : call[r].at # "parse" /\ call'[r].at # "parse"
  BY Constants DEF Coherent, ReadersHold, WithCache, Others
<1>4. call[t].at \in {"update", "clear"} /\ call'[t].at \notin DirtyAt /\ Others(t) => InOrder'
  <2>1. call[t].at \in {"update", "clear"} /\ call'[t].at \notin DirtyAt /\ Others(t)
          => \A u \in Threads : call'[u].at \notin DirtyAt
    BY OneIsDirty DEF DirtyAt, Others
  <2> QED
    BY <2>1 DEF InOrder
<1>5. CASE LookupWrite(t)
  <2>1. call[t].at = "lookupWrite" /\ UNCHANGED <<device, cache>>
    BY <1>5 DEF LookupWrite, At
  <2>2. CASE call' = [call EXCEPT ![t] = Answered(call[t])] /\ m \in DOMAIN cache /\ cache[m] = v
    <3>1. /\ Others(t) /\ call'[t].at \notin DirtyAt \cup {"parse"} /\ KindOK(call'[t]) /\ Persists(t)
          /\ OtherWrites(t) /\ SameAnswers
          /\ \/ InProgress(t)' = Nobody
             \/ \E l \in Locations, x \in Values : InProgress(t)' = [loc |-> l, val |-> x, state |-> "runs"]
      BY <2>1, <2>2, WriteReturns
    <3>2. InOrder' /\ Kinds'
      BY <2>1, <3>1, OrderKept, KindsKept
    <3>3. \A l : Visible(l)' = Visible(l)
      BY <2>1, <3>1, SameView DEF Coherent
    <3>4. m \notin Volatile => Visible(m) = v
      BY <2>2, VisibleIs DEF Coherent
    <3> HIDE DEF m, v
    <3>5. Becomes(m, v) \/ (m \in Volatile /\ Unchanged)
      BY <3>3, <3>4 DEF Becomes, Unchanged
    <3>6. Register!Next
      BY <1>2, <2>1, <3>1, <3>5, MapsToReturn
    <3> QED
      BY <3>2, <3>6 DEF Simulated
  <2>3. CASE call' = [call EXCEPT ![t] = [call[t] EXCEPT !.at = "write"]]
    <3> DEFINE c == [call[t] EXCEPT !.at = "write"]
    <3>1. c.op = call[t].op /\ c.at = "write" /\ c.todo = call[t].todo
      BY <1>1 DEF Call
    <3> HIDE DEF c
    <3>2. call'[t] = c /\ Others(t)
      BY <2>3, Fields DEF c
    <3>3. KindOK(call'[t]) /\ call[t].op # "read"
      BY <1>2, <2>1, <3>1, <3>2 DEF KindOK
    <3> QED
      BY <2>1, <3>1, <3>2, <3>3, GoesOn DEF DirtyAt
  <2> QED
    BY <1>5, <2>2, <2>3 DEF LookupWrite, Loc
<1>6. CASE WriteCommand(t)
  <2> DEFINE c == [call[t] EXCEPT !.at = "update"]
  <2>1. /\ call[t].at = "write" /\ UNCHANGED cache
        /\ device' = [device EXCEPT ![Loc(t)] = Head(call[t].todo).val]
    BY <1>6 DEF WriteCommand, Commanding, At
  <2>2. call' = [call EXCEPT ![t] = c]
    BY <1>6 DEF WriteCommand, Goto
  <2>3. c.op = call[t].op /\ c.at = "update" /\ c.todo = call[t].todo
    BY <1>1 DEF Call
  <2> HIDE DEF c
  <2>4. call'[t] = c /\ Others(t)
    BY <2>2, Fields
  <2> QED
    BY <2>1, <2>3, <2>4, DeviceSimulated DEF DirtyAt
<1>7. CASE WriteCommandFails(t)
  <2>1. /\ call[t].at = "write" /\ UNCHANGED cache
        /\ device' \in {device, [device EXCEPT ![Loc(t)] = Head(call[t].todo).val]}
    BY <1>7 DEF WriteCommandFails, Commanding, At
  <2>2. \E c : /\ call' = [call EXCEPT ![t] = c] /\ c.op = call[t].op /\ c.todo = call[t].todo
               /\ c.at \in {"write", "clear"}
    <3>1. CASE call' = [call EXCEPT ![t].tries = @ + 1, ![t].ref = FALSE]
      <4> DEFINE c == [call[t] EXCEPT !.tries = call[t].tries + 1, !.ref = FALSE]
      <4>1. c.op = call[t].op /\ c.at = "write" /\ c.todo = call[t].todo
        BY <1>1, <2>1 DEF Call
      <4>2. call' = [call EXCEPT ![t] = c]
        BY <3>1
      <4> HIDE DEF c
      <4> QED
        BY <4>1, <4>2
    <3>2. CASE call' = [call EXCEPT ![t] = Thrown(t)]
      <4>1. Thrown(t).op = call[t].op /\ Thrown(t).todo = call[t].todo /\ Thrown(t).at = "clear"
        BY <1>1, <2>1 DEF Thrown, Call, At
      <4> QED
        BY <3>2, <4>1
    <3> QED
      BY <1>7, <3>1, <3>2 DEF WriteCommandFails
  <2>3. /\ Others(t) /\ call'[t].op = call[t].op /\ call'[t].todo = call[t].todo
        /\ call'[t].at \in {"write", "clear"}
    BY <2>2, Fields
  <2> QED
    BY <2>1, <2>3, DeviceSimulated DEF DirtyAt
<1>8. CASE UpdateCache(t)
  <2>1. /\ call[t].at = "update" /\ cacheMutex = Nobody /\ UNCHANGED device
        /\ call' = [call EXCEPT ![t] = Answered(call[t])] /\ cache' = With(cache, Only(m, v))
    BY <1>8 DEF UpdateCache, At
  <2>2. /\ Others(t) /\ call'[t].at \notin DirtyAt \cup {"parse"} /\ KindOK(call'[t])
        /\ OtherWrites(t) /\ SameAnswers
        /\ \/ InProgress(t)' = Nobody
           \/ \E l \in Locations, x \in Values : InProgress(t)' = [loc |-> l, val |-> x, state |-> "runs"]
    BY <2>1, WriteReturns DEF DirtyAt
  <2>3. InOrder' /\ Kinds'
    BY <1>4, <2>1, <2>2, KindsKept
  <2>4. \A r \in Threads : call[r].at # "parse" /\ call'[r].at # "parse"
    BY <1>3, <2>1, <2>2
  <2>5. ASSUME NEW l
        PROVE  Visible(l)' = IF l = m /\ m \notin Volatile THEN v ELSE Visible(l)
    <3>1. /\ Visible(l)  = IF l \in DOMAIN cache \ Volatile THEN cache[l] ELSE device[l]
          /\ Visible(l)' = IF l \in DOMAIN cache' \ Volatile THEN cache'[l] ELSE device'[l]
      BY <2>4, PlainView DEF Coherent
    <3> HIDE DEF m, v
    <3>2. CASE l = m
      <4>1. l \in DOMAIN cache' /\ cache'[l] = v
        BY <2>1, <3>2 DEF With, Only
      <4> QED
        BY <2>1, <3>1, <3>2, <4>1
    <3>3. CASE l # m
      <4>1. /\ l \in DOMAIN cache' <=> l \in DOMAIN cache
            /\ l \in DOMAIN cache => cache'[l] = cache[l]
        BY <2>1, <3>3 DEF With, Only
      <4> QED
        BY <2>1, <3>1, <3>3, <4>1
    <3> QED
      BY <3>2, <3>3
  <2> HIDE DEF m, v
  <2>6. Becomes(m, v) \/ (m \in Volatile /\ Unchanged)
    BY <2>5 DEF Becomes, Unchanged
  <2>7. Register!Next
    BY <1>2, <2>1, <2>2, <2>6, MapsToReturn DEF DirtyAt
  <2> QED
    BY <2>3, <2>7 DEF Simulated
<1>9. CASE ClearCacheLocation(t)
  <2> DEFINE c == [call[t] EXCEPT !.at = "failed"]
  <2>1. /\ call[t].at = "clear" /\ cacheMutex = Nobody /\ UNCHANGED device /\ cache' = Without(cache, m)
    BY <1>9 DEF ClearCacheLocation, At
  <2>2. call' = [call EXCEPT ![t] = c]
    BY <1>9 DEF ClearCacheLocation, Goto
  <2>3. c.op = call[t].op /\ c.at = "failed" /\ c.todo = call[t].todo
    BY <1>1 DEF Call
  <2> HIDE DEF c
  <2>4. call'[t] = c /\ Others(t)
    BY <2>2, Fields
  <2>5. InOrder' /\ Kinds'
    <3>1. KindOK(call'[t])
      BY <2>3, <2>4 DEF KindOK
    <3> QED
      BY <1>4, <2>1, <2>3, <2>4, <3>1, KindsKept DEF DirtyAt
  <2>6. InProgress(t)' = [loc |-> m, val |-> v, state |-> "threw"] /\ Answer(t)' = Answer(t)
    BY <1>2, <2>1, <2>3, <2>4, ProgressIsThen, AnswerIsThen DEF DirtyAt, Loc
  <2>7. \A r \in Threads : call[r].at # "parse" /\ call'[r].at # "parse"
    BY <1>3, <2>1, <2>3, <2>4
  <2>8. m \in DOMAIN cache /\ m \notin Volatile => cache[m] = device[m] \/ device[m] = v
    BY <2>1 DEF InOrder, NotBefore, DirtyAt
  <2>9. ASSUME NEW l
        PROVE  Visible(l)' = Visible(l) \/ (l = m /\ Visible(l)' = v)
    <3>1. /\ Visible(l)  = IF l \in DOMAIN cache \ Volatile THEN cache[l] ELSE device[l]
          /\ Visible(l)' = IF l \in DOMAIN cache' \ Volatile THEN cache'[l] ELSE device'[l]
      BY <2>7, PlainView DEF Coherent
    <3> HIDE DEF m, v
    <3>2. CASE l = m
      <4>1. l \notin DOMAIN cache'
        BY <2>1, <3>2 DEF Without, Restrict
      <4> QED
        BY <2>1, <2>8, <3>1, <3>2, <4>1
    <3>3. CASE l # m
      <4>1. /\ l \in DOMAIN cache' <=> l \in DOMAIN cache
            /\ l \in DOMAIN cache => cache'[l] = cache[l]
        BY <2>1, <3>3 DEF Without, Restrict
      <4> QED
        BY <2>1, <3>1, <3>3, <4>1
    <3> QED
      BY <3>2, <3>3
  <2> HIDE DEF m, v
  <2>10. Becomes(m, v) \/ Unchanged
    BY <2>9 DEF Becomes, Unchanged
  <2>11. Register!Next
    BY <1>2, <2>1, <2>4, <2>6, <2>10, OthersAreSame, MapsToThrow DEF DirtyAt
  <2> QED
    BY <2>5, <2>11 DEF Simulated
<1> QED
  BY <1>5, <1>6, <1>7, <1>8, <1>9 DEF WriteStep

\* A call that has thrown is over for the register when the application sees it.
LEMMA ReturnSimulated ==
  ASSUME TypeInv, Coherent, Coherent', OneWriter, Kinds, InOrder, NEW t \in Threads, Return(t)
  PROVE  Simulated
<1> USE DEF node, locks, shared
<1>1. /\ call[t].at \in {"answered", "failed"} /\ UNCHANGED <<device, cache>>
      /\ call' = [call EXCEPT ![t] = NoCall]
  BY DEF Return
<1>2. NoCall.op = "none" /\ NoCall.at = "idle"
  BY DEF NoCall
<1>3. call'[t] = NoCall /\ Others(t)
  BY <1>1, Fields
<1>4. InProgress(t)' = Nobody /\ Answer(t)' = Nobody
  BY <1>2, <1>3, ProgressIsThen, AnswerIsThen
<1>5. KindOK(call'[t]) /\ Persists(t)
  BY <1>2, <1>3 DEF KindOK, Persists, DirtyAt
<1>6. CASE InProgress(t) = Nobody
  BY <1>1, <1>2, <1>3, <1>4, <1>5, <1>6, Quietly
<1>7. CASE InProgress(t) # Nobody
  <2>1. call[t].op \in {"write", "apply"} /\ call[t].at = "failed" /\ call[t].todo # <<>>
    BY <1>1, <1>7, ProgressIs DEF Finished
  <2>2. call[t].todo \in Seq(Item)
    BY DEF TypeInv, CallsOK, CallOK, Call
  <2>3. Head(call[t].todo) \in Item
    BY <2>1, <2>2
  <2>4. Loc(t) \in Locations /\ Head(call[t].todo).val \in Values
    BY <2>3 DEF Loc, Item
  <2>5. InProgress(t) = [loc |-> Loc(t), val |-> Head(call[t].todo).val, state |-> "threw"] /\ Answer(t) = Nobody
    BY <2>1, ProgressIs, AnswerIs
  <2>6. \A l : Visible(l)' = Visible(l)
    BY <1>1, <1>2, <1>3, SameView DEF Coherent
  <2>7. Register!Next
    BY <1>3, <1>4, <2>4, <2>5, <2>6, OthersAreSame, MapsToCaught DEF Unchanged
  <2> QED
    BY <1>1, <1>2, <1>3, <1>5, <2>7, KindsKept, OrderKept DEF Simulated
<1> QED
  BY <1>6, <1>7

\* The cache is emptied or replaced when nothing is being read or written.
LEMMA CacheCallSimulated ==
  ASSUME TypeInv, Control, Coherent, Coherent', OneWriter, Kinds, InOrder, NEW t \in Threads,
         ClearCache(t) \/ ImportCache(t) \/ ForgetProtocol(t)
  PROVE  Simulated
<1> USE DEF node, locks, shared
<1>1. call[t] \in Call /\ call[t].at \in CacheCalls /\ UNCHANGED device
  BY DEF TypeInv, CallsOK, CallOK, ClearCache, ImportCache, ForgetProtocol, At, CacheCalls
<1>2. call[t].op \in {"clear", "import"} /\ Alone(t)
  BY <1>1 DEF Control, CacheCallIsAlone
<1>3. \A u \in Threads : call[u].at \notin DirtyAt \cup {"parse"}
  BY <1>1, <1>2 DEF Alone, At, CacheCalls, DirtyAt
<1>4. PICK to \in {"answered", "forgetProtocol"} : call' = [call EXCEPT ![t].at = to]
  BY DEF ClearCache, ImportCache, ForgetProtocol, Goto
<1> DEFINE c == [call[t] EXCEPT !.at = to]
<1>5. c.op = call[t].op /\ c.at = to /\ c.todo = call[t].todo
  BY <1>1 DEF Call
<1>6. call' = [call EXCEPT ![t] = c]
  BY <1>4
<1> HIDE DEF c
<1>7. call'[t] = c /\ Others(t)
  BY <1>6, Fields
<1>8. \A r \in Threads : call[r].at # "parse" /\ call'[r].at # "parse"
  BY <1>3, <1>5, <1>7 DEF Others
<1>9. InProgress(t)' = InProgress(t) /\ Answer(t)' = Answer(t) /\ KindOK(call'[t]) /\ Persists(t)
  <2>1. InProgress(t) = Nobody /\ InProgress(t)' = Nobody /\ Answer(t) = Nobody /\ Answer(t)' = Nobody
    BY <1>2, <1>5, <1>7, ProgressIs, ProgressIsThen, AnswerIs, AnswerIsThen
  <2> QED
    BY <1>5, <1>7, <2>1 DEF KindOK, Persists, DirtyAt
<1>10. \A l : ~Dirty(l)
  BY <1>3 DEF Dirty
<1>11. \A l \in DOMAIN cache \ Volatile : cache[l] = device[l]
  BY <1>10, CleanIsDevice
<1>12. \A l \in DOMAIN cache' \ Volatile : (l \in DOMAIN cache /\ cache'[l] = cache[l]) \/ cache'[l] = device[l]
  <2>1. CASE ClearCache(t)
    BY <2>1 DEF ClearCache
  <2>2. CASE ImportCache(t)
    <3>1. cache' = With(cache, packet) /\ News /\ DOMAIN packet = Discovered
      BY <2>2 DEF ImportCache, Coherent, PacketIsNews
    <3> QED
      BY <3>1 DEF With, News
  <2>3. CASE ForgetProtocol(t)
    BY <2>3 DEF ForgetProtocol
  <2> QED
    BY <2>1, <2>2, <2>3
<1> QED
  BY <1>1, <1>7, <1>8, <1>9, <1>11, <1>12, InTheCache

\* The reset behind a configuration, the work on the cache, and the end of a call.
LEMMA OtherSimulated ==
  ASSUME TypeInv, Control, Coherent, Coherent', OneWriter, Kinds, InOrder, NEW t \in Threads, OtherStep(t)
  PROVE  Simulated
<1> USE DEF node, locks, shared
<1>1. call[t] \in Call /\ KindOK(call[t])
  BY DEF TypeInv, CallsOK, CallOK, Kinds
<1>2. ASSUME NEW c, call' = [call EXCEPT ![t] = c], c.op = call[t].op, c.todo = call[t].todo,
             UNCHANGED <<device, cache>>,
             \/ call[t].at \in {"written", "reset"} /\ c.at \in {"reset", "answered"}
             \/ call[t].at = "ping" /\ c.at = "answered"
      PROVE  Simulated
  <2>1. call'[t] = c /\ Others(t)
    BY <1>2, Fields
  <2>2. KindOK(call'[t]) /\ call[t].op # "read"
    BY <1>1, <1>2, <2>1 DEF KindOK
  <2>3. call[t].at = "ping" => call[t].op = "ping"
    BY <1>1 DEF KindOK
  <2> QED
    BY <1>2, <2>1, <2>2, <2>3, GoesOn DEF DirtyAt
<1>3. CASE Written(t)
  <2> DEFINE to == IF hasWritten THEN "reset" ELSE "answered"
             c  == [call[t] EXCEPT !.at = to]
  <2>1. call[t].at = "written" /\ UNCHANGED <<device, cache>>
    BY <1>3 DEF Written, At
  <2>2. call' = [call EXCEPT ![t] = c]
    BY <1>3 DEF Written, Goto
  <2>3. c.op = call[t].op /\ c.at \in {"reset", "answered"} /\ c.todo = call[t].todo
    BY <1>1 DEF Call
  <2> HIDE DEF c
  <2> QED
    BY <1>2, <2>1, <2>2, <2>3
<1>4. CASE ResetNode(t)
  <2>1. call[t].at = "reset" /\ UNCHANGED <<device, cache>>
    BY <1>4 DEF ResetNode, Commanding, At
  <2>2. CASE call' = [call EXCEPT ![t] = [call[t] EXCEPT !.at = "answered", !.ref = FALSE, !.tries = 0]]
    <3> DEFINE c == [call[t] EXCEPT !.at = "answered", !.ref = FALSE, !.tries = 0]
    <3>1. c.op = call[t].op /\ c.at = "answered" /\ c.todo = call[t].todo
      BY <1>1 DEF Call
    <3>2. call' = [call EXCEPT ![t] = c]
      BY <2>2
    <3> HIDE DEF c
    <3> QED
      BY <1>2, <2>1, <3>1, <3>2
  <2>3. CASE call' = [call EXCEPT ![t].tries = @ + 1, ![t].ref = FALSE]
    <3> DEFINE c == [call[t] EXCEPT !.tries = call[t].tries + 1, !.ref = FALSE]
    <3>1. c.op = call[t].op /\ c.at = "reset" /\ c.todo = call[t].todo
      BY <1>1, <2>1 DEF Call
    <3>2. call' = [call EXCEPT ![t] = c]
      BY <2>3
    <3> HIDE DEF c
    <3> QED
      BY <1>2, <2>1, <3>1, <3>2
  <2> QED
    BY <1>4, <2>2, <2>3 DEF ResetNode
<1>5. CASE PingDone(t)
  <2> DEFINE c == [call[t] EXCEPT !.at = "answered", !.ref = FALSE]
  <2>1. call[t].at = "ping" /\ UNCHANGED <<device, cache>>
    BY <1>5 DEF PingDone, Commanding, At
  <2>2. call' = [call EXCEPT ![t] = c]
    BY <1>5 DEF PingDone
  <2>3. c.op = call[t].op /\ c.at = "answered" /\ c.todo = call[t].todo
    BY <1>1 DEF Call
  <2> HIDE DEF c
  <2> QED
    BY <1>2, <2>1, <2>2, <2>3
<1>6. CASE PortFails(t)
  <2>1. call[t].at \in Commands /\ Throw(t) /\ UNCHANGED cache
    BY <1>6 DEF PortFails
  <2>2. CASE call[t].at = "write"
    <3>1. device' \in {device, [device EXCEPT ![Loc(t)] = Head(call[t].todo).val]}
      BY <1>6, <2>2 DEF PortFails, At
    <3>2. /\ Others(t) /\ call'[t].op = call[t].op /\ call'[t].todo = call[t].todo /\ call'[t].at = "clear"
      BY <2>1, <2>2, ThrowEffect
    <3> QED
      BY <2>1, <2>2, <3>1, <3>2, DeviceSimulated DEF DirtyAt
  <2>3. CASE call[t].at # "write"
    <3>1. device' = device
      BY <1>6, <2>3 DEF PortFails, At
    <3> QED
      BY <2>1, <3>1, ThrowSimulated
  <2> QED
    BY <2>2, <2>3
<1> QED
  BY <1>3, <1>4, <1>5, <1>6, CacheCallSimulated, ReturnSimulated DEF OtherStep

\* The device changes a location by itself, and everybody sees it at once.
LEMMA NodeSimulated ==
  ASSUME TypeInv, Coherent, Coherent', Kinds, InOrder, NodeActs
  PROVE  Simulated
<1> USE DEF node, locks, shared
<1>1. UNCHANGED <<cache, call>> /\ DOMAIN device = Locations
  BY DEF NodeActs, TypeInv, NodeOK
<1>2. SameWrites /\ SameAnswers /\ Kinds'
  <2>1. \A t \in Threads : InProgress(t)' = InProgress(t)
    BY <1>1 DEF InProgress, Loc, At
  <2>2. \A t \in Threads : Answer(t)' = Answer(t)
    BY <1>1 DEF Answer, Loc, At
  <2> QED
    BY <1>1, <2>1, <2>2 DEF SameWrites, SameAnswers, Kinds
<1>3. \A w \in Threads : call[w].at \in DirtyAt => Loc(w) \in Locations
  BY DirtyIsWrite
<1>4. \A l \in Locations \ Volatile : device'[l] = device[l]
  BY <1>1 DEF NodeActs
<1>5. InOrder'
  <2> SUFFICES ASSUME NEW w \in Threads, call'[w].at \in DirtyAt, Loc(w)' \notin Volatile
               PROVE  /\ Loc(w)' \in DOMAIN cache' => NotBefore(cache[Loc(w)], device[Loc(w)], w)'
                      /\ \A r \in Threads : At(r, "parse")' /\ Loc(w)' \in DOMAIN call'[r].fetched =>
                           /\ NotBefore(call[r].fetched[Loc(w)], device[Loc(w)], w)'
                           /\ Loc(w)' \in DOMAIN cache' => NotBefore(cache[Loc(w)], call[r].fetched[Loc(w)], w)'
    BY DEF InOrder
  <2> DEFINE l == Loc(w)
             v == Head(call[w].todo).val
  <2>1. Loc(w)' = l /\ l \notin Volatile /\ l \in Locations /\ call[w].at \in DirtyAt
    BY <1>1, <1>3 DEF Loc
  <2>2. device'[l] = device[l]
    BY <1>4, <2>1
  <2>3. /\ l \in DOMAIN cache => cache[l] = device[l] \/ device[l] = v
        /\ \A r \in Threads : At(r, "parse") /\ l \in DOMAIN call[r].fetched =>
             /\ call[r].fetched[l] = device[l] \/ device[l] = v
             /\ l \in DOMAIN cache => cache[l] = call[r].fetched[l] \/ call[r].fetched[l] = v
    BY <2>1 DEF InOrder, NotBefore
  <2> HIDE DEF l
  <2> QED
    BY <1>1, <2>1, <2>2, <2>3 DEF NotBefore, At
<1>6. ASSUME NEW l
      PROVE  /\ l \in Volatile => Visible(l)' = device'[l]
             /\ device'[l] = device[l] => Visible(l)' = Visible(l)
  BY <1>1, DeviceView
<1>7. CASE device' = device
  <2>1. Answering /\ Unchanged
    BY <1>2, <1>6, <1>7 DEF Answering, SameAnswers, Unchanged
  <2> QED
    BY <1>2, <1>5, <2>1, MapsToRead DEF Simulated
<1>8. CASE \E l \in Volatile, v \in Values : device' = [device EXCEPT ![l] = v]
  <2>1. PICK l \in Volatile, v \in Values : device' = [device EXCEPT ![l] = v]
    BY <1>8
  <2>2. l \in Locations
    BY Constants
  <2>3. device'[l] = v /\ \A k \in Locations : k # l => device'[k] = device[k]
    BY <1>1, <2>1, <2>2
  <2>4. Becomes(l, v)
    BY <1>6, <2>3 DEF Becomes
  <2>5. Register!Next
    BY <1>2, <2>4, MapsToChange
  <2> QED
    BY <1>2, <1>5, <2>5 DEF Simulated
<1> QED
  BY <1>7, <1>8 DEF NodeActs

\* Every step is one of the register, or it sees nothing of it.
LEMMA StepSimulated ==
  ASSUME "fresh" \in Rules, OneWriter
  PROVE  TypeInv /\ Control /\ Coherent /\ Coherent' /\ Kinds /\ InOrder /\ [Next]_vars
           => Kinds' /\ InOrder' /\ [Register!Next]_(Register!vars)
<1> SUFFICES ASSUME TypeInv, Control, Coherent, Coherent', Kinds, InOrder, [Next]_vars
             PROVE  Kinds' /\ InOrder' /\ [Register!Next]_(Register!vars)
  OBVIOUS
<1>1. CASE UNCHANGED vars
  <2>1. UNCHANGED <<device, cache, call>>
    BY <1>1 DEF vars, node
  <2>2. Kinds' /\ InOrder'
    BY <2>1 DEF Kinds, InOrder, NotBefore, At, Loc
  <2>3. [l \in Locations |-> Visible(l)]' = [l \in Locations |-> Visible(l)]
    BY <2>1 DEF Visible, Fetching, At
  <2>4. [t \in Threads |-> InProgress(t)]' = [t \in Threads |-> InProgress(t)]
    BY <2>1 DEF InProgress, Loc, At
  <2>5. [t \in Threads |-> Answer(t)]' = [t \in Threads |-> Answer(t)]
    BY <2>1 DEF Answer, Loc, At
  <2> QED
    BY <2>2, <2>3, <2>4, <2>5 DEF Register!vars
<1>2. CASE NodeActs
  BY <1>2, NodeSimulated DEF Simulated
<1>3. ASSUME NEW t \in Threads, Calls(t) \/ Step(t)
      PROVE  Simulated
  BY <1>3, CallsSimulated, ProtocolSimulated, ReadSimulated, WriteSimulated, OtherSimulated DEF Step
<1> QED
  BY <1>1, <1>2, <1>3 DEF Next, Simulated

\* The cache, its lock, the page downloads and the retries cannot be told from one
\* register for each location: a read answers what the location has at a moment of
\* the call, and what a write has written is never seen to come and go.
THEOREM CacheImplementsRegister ==
  ASSUME {"alone", "fresh"} \subseteq Rules, OneWriter
  PROVE  Spec => ImplementsRegister
<1>1. Init => Kinds /\ InOrder /\ Register!Init
  <2> SUFFICES ASSUME Init PROVE Kinds /\ InOrder /\ Register!Init
    OBVIOUS
  <2>1. \A t \in Threads : call[t].at = "idle" /\ call[t].op = "none"
    BY DEF Init, NoCall
  <2>2. Kinds /\ InOrder
    BY <2>1 DEF Kinds, KindOK, InOrder, DirtyAt
  <2>3. \A t \in Threads : InProgress(t) = Nobody /\ Answer(t) = Nobody
    BY <2>1, ProgressIs, AnswerIs
  <2>4. \A l \in Locations : Visible(l) \in Values
    BY InitType, InitCoherent, VisibleHasType DEF Coherent
  <2>5. [l \in Locations |-> Visible(l)] \in [Locations -> Values]
    BY <2>4
  <2> QED
    BY <2>2, <2>3, <2>5 DEF Register!Init
<1>2. TypeInv /\ Control /\ Coherent /\ [Next]_vars => Coherent'
  BY CoherentKept
<1>3. TypeInv /\ Control /\ Coherent /\ Coherent' /\ Kinds /\ InOrder /\ [Next]_vars
        => Kinds' /\ InOrder' /\ [Register!Next]_(Register!vars)
  BY StepSimulated
<1>4. Spec => [](TypeInv /\ Control)
  BY ControlHolds
<1> QED
  BY <1>1, <1>2, <1>3, <1>4, InitCoherent, PTL DEF Spec, ImplementsRegister, Register!Spec
=============================================================================
