--------------------------- MODULE EepromRegister ---------------------------
(***************************************************************************)
(* What the EEPROM of a Node promises to the callers of readEeprom and     *)
(* writeEeprom: every location is one register.  A read answers the value  *)
(* the register has at one moment of the call.  A write takes effect       *)
(* between its call and its return, and if it throws perhaps not at all.   *)
(***************************************************************************)
EXTENDS Naturals

CONSTANTS Threads, Locations, Volatile, Values, Nothing

VARIABLES
  value,    \* the registers
  writing,  \* the write a thread is in the middle of, or Nothing
  answer    \* what its read has just answered, or Nothing

vars == <<value, writing, answer>>

Item  == [loc : Locations, val : Values]
Write == [loc : Locations, val : Values, state : {"runs"}]

Init ==
  /\ value \in [Locations -> Values]
  /\ writing = [t \in Threads |-> Nothing] /\ answer = [t \in Threads |-> Nothing]

\* A read answers the value there is now.
Reads(t) ==
  /\ answer[t] = Nothing /\ writing[t] = Nothing
  /\ answer'[t] \in Item /\ answer'[t].val = value'[answer'[t].loc]

Forgets(t) == answer[t] # Nothing /\ answer'[t] = Nothing

Answers == \A t \in Threads : answer'[t] = answer[t] \/ Reads(t) \/ Forgets(t)

Read == UNCHANGED <<value, writing>> /\ Answers

Becomes(t, w) == writing' = [writing EXCEPT ![t] = w]

\* A write begins, takes effect, and returns or throws; another one may follow.
Begin(t) ==
  /\ writing[t] = Nothing /\ answer[t] = Nothing
  /\ writing'[t] \in Write /\ Becomes(t, writing'[t])
  /\ UNCHANGED <<value, answer>>

Underway(t) == writing[t] # Nothing /\ writing[t].state = "runs"
Written(t)  == [value EXCEPT ![writing[t].loc] = writing[t].val]

TakeEffect(t) ==
  /\ Underway(t)
  /\ value' = Written(t)
  /\ UNCHANGED writing
  /\ Answers

\* A location that the device changes may have been changed again by then; and as
\* its last value known is cached, a write of that value is skipped and has no effect.
Return(t) ==
  /\ Underway(t)
  /\ value' = Written(t) \/ (writing[t].loc \in Volatile /\ UNCHANGED value)
  /\ writing'[t] \in Write \cup {Nothing} /\ Becomes(t, writing'[t])
  /\ UNCHANGED answer

Throw(t) ==
  /\ Underway(t)
  /\ value' \in {value, Written(t)}
  /\ Becomes(t, [writing[t] EXCEPT !.state = "threw"])
  /\ UNCHANGED answer

Caught(t) ==
  /\ writing[t] # Nothing /\ writing[t].state = "threw"
  /\ Becomes(t, Nothing)
  /\ UNCHANGED <<value, answer>>

\* The device changes the location by itself.
Changes(l) ==
  /\ value'[l] \in Values
  /\ value' = [value EXCEPT ![l] = value'[l]]
  /\ UNCHANGED <<writing, answer>>

Next ==
  \/ Read
  \/ \E t \in Threads : Begin(t) \/ TakeEffect(t) \/ Return(t) \/ Throw(t) \/ Caught(t)
  \/ \E l \in Volatile : Changes(l)

Spec == Init /\ [][Next]_vars
=============================================================================
