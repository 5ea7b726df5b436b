-------------------------- MODULE ConnectionProofs --------------------------
(***************************************************************************)
(* Threads wait for each other in a circle only through one that asks for  *)
(* the comm mutex with a mutex held.  The argument is an order of the      *)
(* mutexes: response before parse before comm.  Every other thread that    *)
(* holds a mutex waits, if at all, for the holder of an earlier one, so of *)
(* any set of such threads the one that holds the earliest waits for       *)
(* nobody in the set.                                                      *)
(*                                                                         *)
(* Of a connection that is not reconnected also: the function of a device  *)
(* is called only while the device is attached, no end of the IO thread    *)
(* goes unnoticed, and raw byte mode stays raw.                            *)
(***************************************************************************)
EXTENDS Connection, TLAPS

\* Which thread may hold a mutex, by where it is.
HoldsComm(t) ==
  t \in Apps /\ pc[t] \in {"wantComm", "inComm", "wantParse", "inParse", "joining", "opened"}
HoldsParse(t) ==
  \/ t \in Apps /\ pc[t] = "inParse"
  \/ t = IO /\ io \in {"wantResponse", "matching", "parsed"}
HoldsResponse(t) ==
  \/ t \in Apps /\ pc[t] = "inResponse"
  \/ t \in Apps /\ op[t] = "register" /\ pc[t] \in {"wantComm", "inComm"}
  \/ t = IO /\ io = "matching"

LocksHeld ==
  /\ owner["comm"] # NoThread => HoldsComm(owner["comm"])
  /\ owner["parse"] # NoThread => HoldsParse(owner["parse"])
  /\ owner["response"] # NoThread => HoldsResponse(owner["response"])

IInv == TypeOK /\ LocksHeld

-----------------------------------------------------------------------------
LEMMA InitIInv == Init => IInv
  BY ConnectionAssumption DEF Init, IInv, TypeOK, LocksHeld, Locks, Threads

LEMMA DropGives ==
  ASSUME TypeOK, NEW ls \in SUBSET Locks, Drop(ls)
  PROVE  /\ owner' \in [Locks -> Threads \cup {NoThread}]
         /\ \A l \in Locks : owner'[l] = IF l \in ls THEN NoThread ELSE owner[l]
  BY DEF TypeOK, Drop, Locks

LEMMA TakeGives ==
  ASSUME TypeOK, NEW t \in Threads, NEW l \in Locks, Take(t, l)
  PROVE  /\ owner' \in [Locks -> Threads \cup {NoThread}]
         /\ owner[l] = NoThread
         /\ \A k \in Locks : owner'[k] = IF k = l THEN t ELSE owner[k]
  BY DEF TypeOK, Take, Locks

LEMMA GotoGives ==
  ASSUME TypeOK, NEW a \in Apps,
         NEW to \in {"idle", "wantResponse", "inResponse", "wantComm", "inComm",
                     "wantParse", "inParse", "joining", "opened"},
         Goto(a, to)
  PROVE  /\ pc' \in [Apps -> {"idle", "wantResponse", "inResponse", "wantComm", "inComm",
                              "wantParse", "inParse", "joining", "opened"}]
         /\ \A b \in Apps : pc'[b] = IF b = a THEN to ELSE pc[b]
  BY DEF TypeOK, Goto

-----------------------------------------------------------------------------
(* The type invariant *)

LEMMA TypeKept ==
  ASSUME TypeOK, Next
  PROVE  TypeOK'
<1> USE ConnectionAssumption DEF Threads, link, functions
<1>1. ASSUME NEW a \in Apps, NEW o \in Ops, Call(a, o)
      PROVE  TypeOK'
  BY <1>1 DEF Call, TypeOK, Goto
<1>2. ASSUME NEW a \in Apps, AppStep(a)
      PROVE  TypeOK'
  <2>1. CASE TakeResponse(a) \/ TakeComm(a)
    <3>1. PICK l \in {"response", "comm"}, to \in {"inResponse", "wantComm", "inComm"} :
            Take(a, l) /\ Goto(a, to)
      BY <2>1 DEF TakeResponse, TakeComm
    <3> QED
      BY <2>1, <3>1, TakeGives, GotoGives DEF TakeResponse, TakeComm, TypeOK, Locks
  <2>2. CASE DropResponse(a) \/ Position(a) \/ Refuse(a)
    <3>1. PICK ls \in SUBSET Locks, to \in {"idle", "inResponse"} : Drop(ls) /\ Goto(a, to)
      BY <2>2 DEF DropResponse, Position, Refuse, Locks
    <3> QED
      BY <2>2, <3>1, DropGives, GotoGives DEF DropResponse, Position, Refuse, TypeOK
  <2>3. CASE Write(a)
    BY <2>3, DropGives, GotoGives DEF Write, TypeOK, Locks
  <2>4. CASE StoreParser(a)
    <3>1. \/ Goto(a, "wantParse") /\ UNCHANGED owner
          \/ Goto(a, "idle") /\ Drop({"comm"})
      BY <2>4 DEF StoreParser
    <3> QED
      BY <2>4, <3>1, DropGives, GotoGives DEF StoreParser, TypeOK, Locks
  <2>5. CASE ChangeMode(a)
    BY <2>5, GotoGives DEF ChangeMode, TypeOK
  <2>6. CASE TakeParse(a)
    BY <2>6, TakeGives, GotoGives DEF TakeParse, TypeOK, Locks
  <2>7. CASE DropParse(a)
    BY <2>7, DropGives, GotoGives DEF DropParse, TypeOK, Locks
  <2>8. CASE Disconnect(a)
    BY <2>8, GotoGives DEF Disconnect, TypeOK
  <2>9. CASE Disconnected(a)
    BY <2>9, DropGives, GotoGives DEF Disconnected, TypeOK, Locks
  <2>10. CASE Establish(a)
    <3>1. CASE ~established /\ Goto(a, "opened") /\ comm' = TRUE
      BY <2>10, <3>1, GotoGives DEF Establish, TypeOK
    <3>2. CASE UNCHANGED <<link, installed, io, stop>>
      <4>1. PICK to \in {"opened", "wantComm", "idle"} : Goto(a, to)
        BY <2>10 DEF Establish
      <4>2. UNCHANGED owner \/ Drop({"comm"})
        BY <2>10 DEF Establish
      <4> QED
        BY <2>10, <3>2, <4>1, <4>2, DropGives, GotoGives DEF Establish, TypeOK, Locks
    <3> QED
      BY <2>10, <3>1, <3>2 DEF Establish
  <2>11. CASE Reconnected(a)
    <3>1. \/ Goto(a, "wantParse") /\ UNCHANGED owner
          \/ Goto(a, "idle") /\ Drop({"comm"})
      BY <2>11 DEF Reconnected
    <3> QED
      BY <2>11, <3>1, DropGives, GotoGives DEF Reconnected, TypeOK, Locks
  <2> QED
    BY <1>2, <2>1, <2>2, <2>3, <2>4, <2>5, <2>6, <2>7, <2>8, <2>9, <2>10, <2>11 DEF AppStep
<1>3. CASE Arrive \/ Stopped \/ PortFails
  BY <1>3 DEF Arrive, Stopped, PortFails, TypeOK
<1>4. CASE Parse \/ TakePacket
  <2>1. PICK l \in Locks : Take(IO, l)
    BY <1>4 DEF Parse, TakePacket, Locks
  <2> QED
    BY <1>4, <2>1, TakeGives DEF Parse, TakePacket, TypeOK
<1>5. CASE Matched("wantResponse") \/ Matched("parsed") \/ Parsed
  <2>1. PICK ls \in SUBSET Locks : Drop(ls)
    BY <1>5 DEF Matched, Parsed, Locks
  <2> QED
    BY <1>5, <2>1, DropGives DEF Matched, Parsed, TypeOK
<1> QED
  BY <1>1, <1>2, <1>3, <1>4, <1>5 DEF Next, IoStep

\* Whatever the applications call, and whether ports open or not, the IO thread,
\* m_comm and m_established come and go together, and every variable has its type.
THEOREM TypeCorrect == Spec => []TypeOK
<1>1. Init => TypeOK
  BY InitIInv DEF IInv
<1>2. TypeOK /\ [Next]_vars => TypeOK'
  BY TypeKept DEF TypeOK, vars, link, functions, Next
<1> QED
  BY <1>1, <1>2, PTL DEF Spec

-----------------------------------------------------------------------------
(* Who holds a mutex *)

LEMMA AppKeeps ==
  ASSUME IInv, NEW a \in Apps, AppStep(a)
  PROVE  LocksHeld'
<1> USE ConnectionAssumption DEF IInv, Locks, Threads
<1> USE DEF LocksHeld, HoldsComm, HoldsParse, HoldsResponse
<1>1. CASE TakeResponse(a)
  <2>1. PICK to \in {"wantComm", "inResponse"} :
          Goto(a, to) /\ (to = "wantComm" => op[a] = "register")
    BY <1>1 DEF TakeResponse, NeedsPosition
  <2> QED
    BY <1>1, <2>1, GotoGives, TakeGives DEF TypeOK, TakeResponse
<1>2. CASE DropResponse(a)
  BY <1>2, GotoGives, DropGives DEF TypeOK, DropResponse
<1>3. CASE TakeComm(a)
  BY <1>3, GotoGives, TakeGives DEF TypeOK, TakeComm
<1>4. CASE Position(a)
  BY <1>4, GotoGives, DropGives DEF TypeOK, Position, NeedsPosition
<1>5. CASE Write(a)
  BY <1>5, GotoGives, DropGives DEF TypeOK, Write
<1>6. CASE Refuse(a)
  BY <1>6, GotoGives, DropGives DEF TypeOK, Refuse, Refuses
<1>7. CASE StoreParser(a)
  <2>1. CASE Goto(a, "wantParse") /\ UNCHANGED owner
    BY <1>7, <2>1, GotoGives DEF TypeOK, StoreParser
  <2>2. CASE Drop({"comm"}) /\ Goto(a, "idle")
    BY <1>7, <2>2, GotoGives, DropGives DEF TypeOK, StoreParser
  <2> QED
    BY <1>7, <2>1, <2>2 DEF StoreParser
<1>8. CASE ChangeMode(a)
  BY <1>8, GotoGives DEF TypeOK, ChangeMode
<1>9. CASE TakeParse(a)
  BY <1>9, GotoGives, TakeGives DEF TypeOK, TakeParse
<1>10. CASE DropParse(a)
  BY <1>10, GotoGives, DropGives DEF TypeOK, DropParse
<1>11. CASE Disconnect(a)
  BY <1>11, GotoGives DEF TypeOK, Disconnect
<1>12. CASE Disconnected(a)
  BY <1>12, GotoGives, DropGives DEF TypeOK, Disconnected
<1>13. CASE Establish(a)
  <2>1. CASE Drop({"comm"}) /\ Goto(a, "idle") /\ UNCHANGED io
    BY <1>13, <2>1, GotoGives, DropGives DEF TypeOK, Establish
  <2>2. ASSUME NEW to \in {"opened", "wantComm"}, Goto(a, to),
               UNCHANGED owner, UNCHANGED io \/ ~established
        PROVE  LocksHeld'
    <3>1. UNCHANGED io \/ io = "none"
      BY <2>2 DEF TypeOK
    <3>2. \A l \in Locks : owner[l] = IO => io' = io
      BY <3>1
    <3> QED
      BY <1>13, <2>2, <3>2, GotoGives DEF TypeOK, Establish
  <2>3. \/ Drop({"comm"}) /\ Goto(a, "idle") /\ UNCHANGED io
        \/ \E to \in {"opened", "wantComm"} :
             Goto(a, to) /\ UNCHANGED owner /\ (UNCHANGED io \/ ~established)
    BY <1>13 DEF Establish
  <2> QED
    BY <2>1, <2>2, <2>3
<1>14. CASE Reconnected(a)
  <2>1. CASE Goto(a, "wantParse") /\ UNCHANGED owner
    BY <1>14, <2>1, GotoGives DEF TypeOK, Reconnected
  <2>2. CASE Drop({"comm"}) /\ Goto(a, "idle")
    BY <1>14, <2>2, GotoGives, DropGives DEF TypeOK, Reconnected
  <2> QED
    BY <1>14, <2>1, <2>2 DEF Reconnected
<1> QED
  BY <1>1, <1>2, <1>3, <1>4, <1>5, <1>6, <1>7, <1>8, <1>9, <1>10, <1>11, <1>12,
     <1>13, <1>14 DEF AppStep

LEMMA OtherKeeps ==
  ASSUME IInv,
         \/ \E a \in Apps, o \in Ops : Call(a, o)
         \/ Arrive \/ IoStep \/ Stopped \/ PortFails
  PROVE  LocksHeld'
<1> USE ConnectionAssumption DEF IInv, Locks, Threads
<1> USE DEF LocksHeld, HoldsComm, HoldsParse, HoldsResponse
<1>1. ASSUME NEW a \in Apps, NEW o \in Ops, Call(a, o)
      PROVE  LocksHeld'
  <2>1. PICK to \in {"wantResponse", "wantComm"} : Goto(a, to)
    BY <1>1 DEF Call
  <2> QED
    BY <1>1, <2>1, GotoGives DEF Call, TypeOK
<1>2. CASE Arrive
  BY <1>2 DEF Arrive, TypeOK
<1>3. CASE Parse
  BY <1>3, TakeGives DEF Parse, TypeOK
<1>4. CASE TakePacket
  BY <1>4, TakeGives DEF TakePacket, TypeOK
<1>5. CASE Matched("wantResponse") \/ Matched("parsed")
  BY <1>5, DropGives DEF Matched, TypeOK
<1>6. CASE Parsed
  BY <1>6, DropGives DEF Parsed, TypeOK
<1>7. CASE Stopped
  BY <1>7 DEF Stopped, TypeOK
<1>8. CASE PortFails
  BY <1>8 DEF PortFails, TypeOK
<1> QED
  BY <1>1, <1>2, <1>3, <1>4, <1>5, <1>6, <1>7, <1>8 DEF IoStep

-----------------------------------------------------------------------------
\* The order: nobody in S holds the response mutex; so the IO thread is not in
\* S; so nobody in S holds the parse or the comm mutex; so nobody is in S.
LEMMA OrderedLocks == IInv => NoDeadlock
<1> SUFFICES ASSUME IInv, NEW S \in SUBSET {t \in Threads : ~OutOfOrder(t)},
                    \A t \in S : BlockedBy(t) \cap S # {}
             PROVE  S = {}
  BY DEF NoDeadlock
<1> USE ConnectionAssumption
<1>1. \A t \in S \ {IO} : pc[t] \in {"wantResponse", "wantComm", "wantParse", "joining"}
  BY DEF BlockedBy, Threads
<1>2. IO \in S => io \in {"wantParse", "wantResponse"}
  BY DEF BlockedBy
<1>0. \A t \in S \ {IO} : pc[t] = "wantComm" => \A l \in Locks : owner[l] # t
  BY DEF OutOfOrder
<1>3. owner["response"] \notin S
  BY <1>0, <1>1, <1>2 DEF IInv, LocksHeld, HoldsResponse, Threads, Locks
<1>4. IO \notin S
  <2> SUFFICES ASSUME IO \in S PROVE FALSE
    OBVIOUS
  <2>1. CASE io = "wantParse"
    <3>1. owner["parse"] \in S /\ owner["parse"] # NoThread
      BY <2>1 DEF BlockedBy
    <3>2. HoldsParse(owner["parse"])
      BY <3>1 DEF IInv, LocksHeld
    <3> QED
      BY <3>1, <3>2, <2>1, <1>1 DEF HoldsParse
  <2>2. CASE io = "wantResponse"
    BY <2>2, <1>3 DEF BlockedBy
  <2> QED
    BY <2>1, <2>2, <1>2
<1>5. owner["parse"] \notin S
  BY <1>1, <1>4 DEF IInv, LocksHeld, HoldsParse, Threads
<1>6. \A t \in S : pc[t] \notin {"wantParse", "joining", "wantResponse"}
  BY <1>3, <1>4, <1>5 DEF BlockedBy
<1>7. owner["comm"] \notin S
  <2> SUFFICES ASSUME owner["comm"] \in S PROVE FALSE
    OBVIOUS
  <2>1. HoldsComm(owner["comm"])
    BY DEF IInv, LocksHeld, Threads
  <2> QED
    BY <2>1, <1>0, <1>1, <1>4, <1>6 DEF HoldsComm, Locks
<1>8. \A t \in S : pc[t] # "wantComm"
  BY <1>4, <1>7 DEF BlockedBy
<1> QED
  BY <1>1, <1>4, <1>6, <1>8

\* However many threads there are and whatever they call, they wait for each
\* other in a circle only through one that asks for the comm mutex with a mutex
\* held: writes, devices that come or go, clearBuffer, the modes, disconnect,
\* reconnect and the read handler alone never do.
THEOREM DeadlockFree == Spec => []NoDeadlock
<1>1. Init => IInv
  BY InitIInv
<1>2. IInv /\ [Next]_vars => IInv'
  <2> SUFFICES ASSUME IInv, [Next]_vars PROVE IInv'
    OBVIOUS
  <2>1. CASE Next
    BY <2>1, AppKeeps, OtherKeeps, TypeKept DEF Next, IInv
  <2>2. CASE UNCHANGED vars
    BY <2>2 DEF vars, link, functions, IInv, TypeOK, LocksHeld, HoldsComm, HoldsParse, HoldsResponse
  <2> QED
    BY <2>1, <2>2
<1>3. IInv => NoDeadlock
  BY OrderedLocks
<1> QED
  BY <1>1, <1>2, <1>3, PTL DEF Spec

-----------------------------------------------------------------------------
(* The modes of a connection that is not reconnected *)

CommHeld ==
  \A a \in Apps : pc[a] \in {"inComm", "wantParse", "inParse", "joining"} => owner["comm"] = a

\* Who is going to change the function of m_comm, and in which mode.
Changing == {"wantParse", "inParse"}
ChangesKnown ==
  \A a \in Apps :
    /\ pc[a] # "opened"
    /\ pc[a] \in Changing => comm /\ op[a] \in {"clear", "attach", "detach", "rawOn", "rawOff"}
    /\ pc[a] \in Changing /\ op[a] \in {"attach", "detach", "rawOn"} => ~raw
    /\ pc[a] = "inParse" /\ op[a] = "rawOn" => installed = "raw"

\* What the three properties become while a thread holds the comm mutex.
InstalledKnown ==
  /\ ~comm => installed = "none"
  /\ raw /\ installed = "device" => \E a \in Apps : pc[a] = "inParse" /\ op[a] = "rawOff"
  /\ installed = "device" /\ parser # "device" => \E a \in Apps : pc[a] = "wantParse" /\ op[a] = "detach"

EndKnown ==
  /\ stop => \E a \in Apps : pc[a] = "joining"
  /\ io = "ended" => error \/ stop

ModesInv == CommHeld /\ ChangesKnown /\ InstalledKnown /\ EndKnown

LEMMA InitModes == Init => ModesInv
  BY DEF Init, ModesInv, CommHeld, ChangesKnown, InstalledKnown, EndKnown, Changing

\* Only the holder of the comm mutex is anywhere behind it.
LEMMA OneHolder ==
  ASSUME CommHeld, NEW a \in Apps, NEW b \in Apps,
         pc[a] \in {"inComm", "wantParse", "inParse", "joining"},
         pc[b] \in {"inComm", "wantParse", "inParse", "joining"}
  PROVE  a = b
  BY DEF CommHeld

LEMMA CommHeldKept ==
  ASSUME TypeOK, CommHeld, NEW a \in Apps, AppStep(a), op[a] # "reconnect", pc[a] # "opened"
  PROVE  CommHeld'
<1> USE DEF link, functions
<1>1. IO \notin Apps /\ NoThread \notin Apps
  BY ConnectionAssumption
<1>2. CASE TakeResponse(a)
  <2>1. PICK to \in {"inResponse", "wantComm"} : Take(a, "response") /\ Goto(a, to)
    BY <1>2 DEF TakeResponse
  <2> QED
    BY <2>1, TakeGives, GotoGives DEF CommHeld, Threads, Locks
<1>3. CASE TakeComm(a)
  BY <1>1, <1>3, TakeGives, GotoGives DEF TakeComm, CommHeld, Threads, Locks
<1>4. CASE DropResponse(a)
  BY <1>4, DropGives, GotoGives DEF DropResponse, CommHeld, Locks
<1>5. CASE ChangeMode(a) \/ Disconnect(a)
  BY <1>5, GotoGives DEF ChangeMode, Disconnect, CommHeld
<1>6. CASE TakeParse(a)
  BY <1>6, TakeGives, GotoGives DEF TakeParse, CommHeld, Threads, Locks
<1>7. ASSUME pc[a] \in {"inComm", "wantParse", "inParse", "joining"},
             NEW to \in {"idle", "inResponse", "wantParse"}, Goto(a, to),
             \/ UNCHANGED owner /\ (to = "wantParse" => pc[a] = "inComm")
             \/ Drop({"comm"}) /\ to \in {"idle", "inResponse"}
             \/ Drop({"parse", "comm"}) /\ to \in {"idle", "inResponse"}
      PROVE  CommHeld'
  <2>1. ASSUME NEW ls \in SUBSET Locks, Drop(ls), to \in {"idle", "inResponse"}
        PROVE  CommHeld'
    <3>1. \A b \in Apps : pc[b] \in {"inComm", "wantParse", "inParse", "joining"} => b = a
      BY <1>7, <2>1, OneHolder
    <3> QED
      BY <1>7, <2>1, <3>1, GotoGives DEF CommHeld
  <2>2. CASE UNCHANGED owner /\ (to = "wantParse" => pc[a] = "inComm")
    BY <1>7, <2>2, GotoGives DEF CommHeld
  <2> QED
    BY <1>7, <2>1, <2>2 DEF Locks
<1>8. CASE Position(a) \/ Write(a) \/ Refuse(a)
  BY <1>7, <1>8 DEF Position, Write, Refuse
<1>9. CASE StoreParser(a)
  BY <1>7, <1>9 DEF StoreParser
<1>10. CASE DropParse(a)
  BY <1>7, <1>10 DEF DropParse
<1>11. CASE Disconnected(a)
  BY <1>7, <1>11 DEF Disconnected
<1> QED
  BY <1>2, <1>3, <1>4, <1>5, <1>6, <1>8, <1>9, <1>10, <1>11 DEF AppStep, Establish, Reconnected

\* A step that changes neither the functions nor the mode.
LEMMA QuietStep ==
  ASSUME ModesInv, NEW a \in Apps,
         \A b \in Apps : b # a => pc'[b] = pc[b] /\ op'[b] = op[b],
         pc[a] \notin Changing, pc'[a] \notin Changing \cup {"opened"},
         UNCHANGED <<comm, raw, parser, installed>>
  PROVE  ChangesKnown' /\ InstalledKnown'
<1>1. ChangesKnown'
  BY DEF ModesInv, ChangesKnown, Changing
<1>2. InstalledKnown'
  BY DEF ModesInv, InstalledKnown, Changing
<1> QED
  BY <1>1, <1>2

\* Who has asked the IO thread to stop waits for it.
LEMMA EndStep ==
  ASSUME ModesInv, NEW a \in Apps, \A b \in Apps : b # a => pc'[b] = pc[b],
         pc[a] # "joining", UNCHANGED <<stop, io>>, error => error'
  PROVE  EndKnown'
  BY DEF ModesInv, EndKnown

LEMMA AppKeepsModes ==
  ASSUME TypeOK, ModesInv, "reconnect" \notin Ops, NEW a \in Apps, AppStep(a)
  PROVE  ModesInv'
<1> USE DEF link, functions
<1>1. op[a] # "reconnect" /\ pc[a] # "opened"
  BY DEF TypeOK, ModesInv, ChangesKnown
<1>2. CommHeld'
  BY <1>1, CommHeldKept DEF ModesInv
<1>3. ASSUME NEW to \in {"idle", "inResponse", "wantComm", "inComm", "wantParse", "inParse", "joining"},
             Goto(a, to)
      PROVE  pc'[a] = to /\ \A b \in Apps : b # a => pc'[b] = pc[b]
  BY <1>3, GotoGives
<1>4. pc[a] \in {"inComm", "wantParse", "inParse", "joining"} =>
        \A b \in Apps : pc[b] \in {"inComm", "wantParse", "inParse", "joining"} => b = a
  BY OneHolder DEF ModesInv
<1>5. CASE TakeResponse(a) \/ DropResponse(a) \/ TakeComm(a) \/ Position(a) \/ Write(a) \/ Refuse(a)
  <2>1. PICK to \in {"idle", "inResponse", "wantComm", "inComm"} : Goto(a, to)
    BY <1>5 DEF TakeResponse, DropResponse, TakeComm, Position, Write, Refuse
  <2>2. /\ UNCHANGED <<op, comm, raw, parser, installed, stop, io>> /\ (error => error')
        /\ pc[a] \notin Changing /\ pc[a] # "joining"
    BY <1>5 DEF TakeResponse, DropResponse, TakeComm, Position, Write, Refuse, Changing
  <2> QED
    BY <1>2, <1>3, <2>1, <2>2, QuietStep, EndStep DEF ModesInv, Changing
<1>6. CASE StoreParser(a)
  <2>1. /\ pc[a] = "inComm" /\ op[a] \in {"attach", "detach"}
        /\ parser' = IF op[a] = "attach" THEN "device" ELSE "none"
        /\ UNCHANGED <<op, comm, raw, installed, stop, io, error>>
    BY <1>6 DEF StoreParser
  <2>2. \/ ~raw /\ comm /\ Goto(a, "wantParse")
        \/ (raw \/ ~comm) /\ Goto(a, "idle")
    BY <1>6 DEF StoreParser
  <2>3. \A b \in Apps : b # a => pc[b] \notin Changing
    BY <1>4, <2>1 DEF Changing
  <2>4. CASE ~raw /\ comm /\ Goto(a, "wantParse")
    <3>1. ChangesKnown'
      BY <1>3, <2>1, <2>4 DEF ModesInv, ChangesKnown, Changing
    <3>2. InstalledKnown'
      <4>1. parser # "device" /\ installed = "device" => op[a] = "detach" \/ parser' = "device"
        BY <2>1
      <4> QED
        BY <1>3, <2>1, <2>4 DEF ModesInv, InstalledKnown
    <3>3. EndKnown'
      BY <1>3, <2>1, <2>4, EndStep
    <3> QED
      BY <1>2, <3>1, <3>2, <3>3 DEF ModesInv
  <2>5. CASE (raw \/ ~comm) /\ Goto(a, "idle")
    <3>1. installed # "device"
      BY <2>1, <2>3, <2>5 DEF ModesInv, InstalledKnown, Changing
    <3>2. ChangesKnown'
      BY <1>3, <2>1, <2>5 DEF ModesInv, ChangesKnown, Changing
    <3>3. InstalledKnown'
      BY <2>1, <3>1 DEF ModesInv, InstalledKnown
    <3>4. EndKnown'
      BY <1>3, <2>1, <2>5, EndStep
    <3> QED
      BY <1>2, <3>2, <3>3, <3>4 DEF ModesInv
  <2> QED
    BY <2>2, <2>4, <2>5
<1>7. CASE ChangeMode(a)
  <2>1. /\ pc[a] = "inComm" /\ op[a] \in {"clear", "rawOn", "rawOff"} /\ Goto(a, "wantParse")
        /\ comm /\ (op[a] = "rawOn" => ~raw)
        /\ UNCHANGED <<op, comm, raw, parser, installed, stop, io, error>>
    BY <1>7 DEF ChangeMode, Refuses
  <2>2. ChangesKnown'
    BY <1>3, <2>1 DEF ModesInv, ChangesKnown, Changing
  <2>3. InstalledKnown'
    BY <1>3, <2>1 DEF ModesInv, InstalledKnown
  <2> QED
    BY <1>2, <1>3, <2>1, <2>2, <2>3, EndStep DEF ModesInv
<1>8. CASE TakeParse(a)
  <2>1. /\ pc[a] = "wantParse" /\ Goto(a, "inParse")
        /\ installed' = IF op[a] = "rawOn" THEN "raw"
                        ELSE IF op[a] = "clear" THEN installed ELSE parser
        /\ UNCHANGED <<op, comm, raw, parser, stop, io, error>>
    BY <1>8 DEF TakeParse
  <2>2. \A b \in Apps : b # a => pc[b] \notin Changing
    BY <1>4, <2>1 DEF Changing
  <2>3. /\ comm /\ op[a] \in {"clear", "attach", "detach", "rawOn", "rawOff"}
        /\ op[a] \in {"attach", "detach", "rawOn"} => ~raw
    BY <2>1 DEF ModesInv, ChangesKnown, Changing
  <2>4. ChangesKnown'
    BY <1>3, <2>1, <2>2, <2>3 DEF ModesInv, ChangesKnown, Changing
  <2>5. InstalledKnown'
    BY <1>3, <2>1, <2>2, <2>3 DEF ModesInv, InstalledKnown, Changing
  <2> QED
    BY <1>2, <1>3, <2>1, <2>4, <2>5, EndStep DEF ModesInv
<1>9. CASE DropParse(a)
  <2>1. /\ pc[a] = "inParse" /\ Goto(a, "idle")
        /\ raw' = IF op[a] = "rawOn" THEN TRUE ELSE IF op[a] = "rawOff" THEN FALSE ELSE raw
        /\ UNCHANGED <<op, comm, parser, installed, stop, io>>
    BY <1>9 DEF DropParse
  <2>2. error' = error
    BY <1>1, <1>9 DEF DropParse, TypeOK
  <2>3. \A b \in Apps : b # a => pc[b] \notin Changing
    BY <1>4, <2>1 DEF Changing
  <2>4. op[a] = "rawOn" => installed = "raw"
    BY <2>1 DEF ModesInv, ChangesKnown
  <2>5. ChangesKnown'
    BY <1>3, <2>1, <2>3 DEF ModesInv, ChangesKnown, Changing
  <2>6. InstalledKnown'
    BY <1>3, <2>1, <2>3, <2>4 DEF ModesInv, InstalledKnown, Changing
  <2> QED
    BY <1>2, <1>3, <2>1, <2>2, <2>5, <2>6, EndStep DEF ModesInv
<1>10. CASE Disconnect(a)
  <2>1. /\ pc[a] = "inComm" /\ Goto(a, "joining") /\ stop' = TRUE
        /\ UNCHANGED <<op, comm, raw, parser, installed>>
    BY <1>10 DEF Disconnect
  <2>2. EndKnown'
    BY <1>3, <2>1 DEF EndKnown
  <2> QED
    BY <1>2, <1>3, <2>1, <2>2, QuietStep DEF ModesInv, Changing
<1>11. CASE Disconnected(a)
  <2>1. /\ pc[a] \in {"joining", "inComm"} /\ Goto(a, "idle") /\ stop' = FALSE /\ io' = "none"
        /\ comm' = FALSE /\ installed' = "none" /\ UNCHANGED <<op, raw, parser>>
    BY <1>11 DEF Disconnected
  <2>2. \A b \in Apps : b # a => pc[b] \notin Changing
    BY <1>4, <2>1 DEF Changing
  <2>3. ChangesKnown' /\ InstalledKnown' /\ EndKnown'
    BY <1>3, <2>1, <2>2 DEF ModesInv, ChangesKnown, InstalledKnown, EndKnown, Changing
  <2> QED
    BY <1>2, <2>3 DEF ModesInv
<1> QED
  BY <1>1, <1>5, <1>6, <1>7, <1>8, <1>9, <1>10, <1>11 DEF AppStep, Establish, Reconnected

LEMMA ModesKept ==
  ASSUME "reconnect" \notin Ops
  PROVE  TypeOK /\ ModesInv /\ [Next]_vars => ModesInv'
<1> SUFFICES ASSUME TypeOK, ModesInv, [Next]_vars
             PROVE  ModesInv'
  OBVIOUS
<1> USE DEF link, functions
<1>1. CASE UNCHANGED vars
  BY <1>1 DEF vars, ModesInv, CommHeld, ChangesKnown, InstalledKnown, EndKnown
<1>2. ASSUME NEW a \in Apps, AppStep(a)
      PROVE  ModesInv'
  BY <1>2, AppKeepsModes
<1>3. ASSUME NEW a \in Apps, NEW o \in Ops, Call(a, o)
      PROVE  ModesInv'
  <2>1. PICK to \in {"wantResponse", "wantComm"} : Goto(a, to)
    BY <1>3 DEF Call
  <2>2. pc'[a] = to /\ \A b \in Apps : b # a => pc'[b] = pc[b] /\ op'[b] = op[b]
    BY <1>3, <2>1, GotoGives DEF Call, TypeOK
  <2>3. UNCHANGED <<comm, raw, parser, installed, stop, io, error, owner>> /\ pc[a] = "idle"
    BY <1>3 DEF Call
  <2>4. CommHeld'
    BY <2>2, <2>3 DEF ModesInv, CommHeld
  <2> QED
    BY <2>2, <2>3, <2>4, QuietStep, EndStep DEF ModesInv, Changing
<1>4. CASE Arrive \/ IoStep \/ Stopped \/ PortFails
  <2>1. UNCHANGED <<pc, op, comm, raw, parser, installed, stop>>
    BY <1>4 DEF Arrive, IoStep, Stopped, PortFails, Parse, TakePacket, Matched, Parsed
  <2>2. ChangesKnown' /\ InstalledKnown'
    BY <2>1 DEF ModesInv, ChangesKnown, InstalledKnown
  <2>3. (error => error') /\ (io' = "ended" => io = "ended" \/ stop \/ error')
    BY <1>4 DEF Arrive, IoStep, Stopped, PortFails, Parse, TakePacket, Matched, Parsed
  <2>4. EndKnown'
    BY <2>1, <2>3 DEF ModesInv, EndKnown
  <2>5. owner'["comm"] = owner["comm"]
    <3>1. CASE Parse \/ TakePacket
      <4>1. PICK l \in {"parse", "response"} : Take(IO, l)
        BY <3>1 DEF Parse, TakePacket
      <4> QED
        BY <4>1, TakeGives DEF Threads, Locks
    <3>2. CASE Matched("wantResponse") \/ Matched("parsed") \/ Parsed
      <4>1. Drop({"response"}) \/ Drop({"parse"})
        BY <3>2 DEF Matched, Parsed
      <4> QED
        BY <4>1, DropGives DEF Locks
    <3>3. CASE Arrive \/ Stopped \/ PortFails
      BY <3>3 DEF Arrive, Stopped, PortFails
    <3> QED
      BY <1>4, <3>1, <3>2, <3>3 DEF IoStep
  <2>6. CommHeld'
    BY <2>1, <2>5 DEF ModesInv, CommHeld
  <2> QED
    BY <2>2, <2>4, <2>6 DEF ModesInv
<1> QED
  BY <1>1, <1>2, <1>3, <1>4 DEF Next

LEMMA ModesHold ==
  ASSUME "reconnect" \notin Ops
  PROVE  Spec => []ModesInv
<1>1. TypeOK /\ ModesInv /\ [Next]_vars => ModesInv'
  BY ModesKept
<1> QED
  BY <1>1, InitModes, TypeCorrect, PTL DEF Spec

\* unregisterParser ends with the function of m_comm reset, or with none there
\* because of raw byte mode or a closed port (Connection_Impl.h:638): the read
\* handler does not call the function of a device that is gone.
THEOREM ParserStaysRegistered ==
  ASSUME "reconnect" \notin Ops
  PROVE  Spec => []ParserIsRegistered
<1>1. NoThread \notin Apps
  BY ConnectionAssumption
<1>2. ModesInv => ParserIsRegistered
  BY <1>1 DEF ModesInv, CommHeld, InstalledKnown, ParserIsRegistered
<1> QED
  BY <1>2, ModesHold, PTL

\* The IO thread ends when it is asked to, by a thread that then takes the
\* connection away, or with m_connectionError set (Connection_Impl.h:655).
THEOREM EndIsReported ==
  ASSUME "reconnect" \notin Ops
  PROVE  Spec => []ErrorIsReported
<1>1. NoThread \notin Apps
  BY ConnectionAssumption
<1>2. ModesInv => ErrorIsReported
  BY <1>1 DEF ModesInv, CommHeld, EndKnown, ErrorIsReported
<1> QED
  BY <1>2, ModesHold, PTL

\* A device that is attached or detached in raw byte mode, and a port that is
\* closed in it, leave the function of the mode alone (Connection_Impl.h:624).
THEOREM RawModeIsRaw ==
  ASSUME "reconnect" \notin Ops
  PROVE  Spec => []RawModeStopsParsing
<1>1. NoThread \notin Apps
  BY ConnectionAssumption
<1>2. ModesInv => RawModeStopsParsing
  BY <1>1 DEF ModesInv, CommHeld, InstalledKnown, RawModeStopsParsing
<1> QED
  BY <1>2, ModesHold, PTL
=============================================================================
