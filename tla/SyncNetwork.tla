---------------------------- MODULE SyncNetwork ----------------------------
(***************************************************************************)
(* A synchronized sampling network with its devices: SyncSchedule computes *)
(* the schedule, applyConfiguration writes it to the Nodes, startSampling  *)
(* turns off the beacon, sends each Node the start command and turns the   *)
(* beacon on.  Every command can fail, or be carried out without the reply *)
(* coming back.                                                            *)
(***************************************************************************)
EXTENDS SyncSchedule

CONSTANTS
  MaxAttempts,     \* MAX_ATTEMPTS in sendStartToAllNodes
  LegacyOffset     \* LEGACY_MODE_TDMA_OFFSET in applyConfiguration

ASSUME NetworkAssumption == MaxAttempts \in Nat /\ LegacyOffset \in Nat

VARIABLES
  device,          \* what was last written to each Node
  sampling,        \* the Nodes that have heard the start command
  beacon,          \* whether the BaseStation sends its beacon
  disabledBeacon   \* m_disabledBeacon

devices == <<device, sampling, beacon, disabledBeacon>>
vars    == <<scheduleVars, devices>>

Init ==
  /\ ScheduleInit
  /\ device = [n \in Nodes |-> [tx |-> 0, tdma |-> 0]]
  /\ sampling = {} /\ beacon \in BOOLEAN /\ disabledBeacon = FALSE

-----------------------------------------------------------------------------
(* applyConfiguration() and startSampling() *)

\* In a mixed network the addresses of newer Nodes are moved.
Computed(n) ==
  [tx |-> info[n].tx,
   tdma |-> info[n].tdma + (IF InLegacyMode /\ n \notin V1 THEN LegacyOffset ELSE 0)]

Unapplied == Among(allNodes, {n \in Members : ~info[n].applied})

ApplyConfiguration ==
  /\ Idle
  /\ protocol = DeviceProtocol /\ pending = {} /\ networkOk
  /\ op' = "apply" /\ phase' = "write" /\ todo' = Unapplied
  /\ UNCHANGED <<info, lists, settings, table, status, devices, locals>>

\* Mutant of WriteNode: the Node is flagged before the writes are done.
WriteNodeFlaggedFirst ==
  /\ phase = "write" /\ todo # <<>>
  /\ LET n == Head(todo)
     IN \/ /\ device' = [device EXCEPT ![n] = Computed(n)]
           /\ sampling' = sampling \ {n}
           /\ info' = [info EXCEPT ![n].applied = TRUE]
           /\ todo' = Tail(todo) /\ UNCHANGED <<op, phase, locals>>
        \/ /\ device' \in {device, [device EXCEPT ![n].tx = Computed(n).tx],
                           [device EXCEPT ![n] = Computed(n)]}
           /\ Return
           /\ info' = [info EXCEPT ![n].applied = TRUE]
           /\ UNCHANGED sampling
  /\ UNCHANGED <<lists, settings, table, status, beacon, disabledBeacon>>

\* The Node is written and reset, or stops answering between two writes.
WriteNode ==
  /\ phase = "write" /\ todo # <<>>
  /\ LET n == Head(todo)
     IN \/ /\ device' = [device EXCEPT ![n] = Computed(n)]
           /\ sampling' = sampling \ {n}
           /\ info' = [info EXCEPT ![n].applied = TRUE]
           /\ todo' = Tail(todo) /\ UNCHANGED <<op, phase, locals>>
        \/ /\ device' \in {device, [device EXCEPT ![n].tx = Computed(n).tx],
                           [device EXCEPT ![n] = Computed(n)]}
           /\ Return
           /\ UNCHANGED <<info, sampling>>
  /\ UNCHANGED <<lists, settings, table, status, beacon, disabledBeacon>>

Applied ==
  /\ phase = "write" /\ todo = <<>>
  /\ configApplied' = TRUE
  /\ Return
  /\ UNCHANGED <<info, lists, settings, table, networkOk, devices>>

NotStarted == Among(allNodes, {n \in Members : ~info[n].started})

\* startSampling, or startSampling_noBeacon.
StartSampling(o) ==
  /\ Idle /\ configApplied
  /\ op' = o
  /\ \/ o = "start" /\ ~disabledBeacon /\ phase' = "beaconOff" /\ UNCHANGED todo
     \/ (o = "start" => disabledBeacon) /\ phase' = "send" /\ todo' = NotStarted
  /\ UNCHANGED <<info, lists, settings, table, status, devices, locals>>

DisableBeacon ==
  /\ phase = "beaconOff"
  /\ \/ /\ beacon' = FALSE /\ disabledBeacon' = TRUE
        /\ phase' = "send" /\ todo' = NotStarted /\ UNCHANGED <<op, locals>>
     \/ /\ beacon' \in {beacon, FALSE} /\ UNCHANGED disabledBeacon
        /\ Return
  /\ UNCHANGED <<info, lists, settings, table, status, device, sampling>>

\* The start command is answered, or it is not, and may still have been heard.
SendStart ==
  /\ phase = "send" /\ todo # <<>>
  /\ LET n == Head(todo)
     IN \/ /\ info' = [info EXCEPT ![n].started = TRUE]
           /\ sampling' = sampling \cup {n}
           /\ UNCHANGED attempt
        \/ /\ sampling' \in {sampling, sampling \cup {n}}
           /\ attempt' = [attempt EXCEPT !.failed = TRUE]
           /\ UNCHANGED info
  /\ todo' = Tail(todo)
  /\ UNCHANGED <<lists, settings, table, status, device, beacon, disabledBeacon,
                 op, phase, adding, trying, allFound>>

\* The connection is lost while the commands are sent.
SendThrows ==
  /\ phase = "send" /\ todo # <<>>
  /\ Return
  /\ UNCHANGED <<info, lists, settings, table, status, devices>>

NextAttempt ==
  /\ phase = "send" /\ todo = <<>>
  /\ attempt.failed /\ attempt.count < MaxAttempts
  /\ attempt' = [count |-> attempt.count + 1, failed |-> FALSE]
  /\ todo' = NotStarted
  /\ UNCHANGED <<info, lists, settings, table, status, devices, op, phase, adding, trying, allFound>>

\* The loop ends, also when a Node has failed in every attempt.
Sent ==
  /\ phase = "send" /\ todo = <<>>
  /\ attempt.failed => attempt.count = MaxAttempts
  /\ \/ op = "start" /\ phase' = "beaconOn" /\ UNCHANGED <<op, todo, locals>>
     \/ op # "start" /\ Return
  /\ UNCHANGED <<info, lists, settings, table, status, devices>>

EnableBeacon ==
  /\ phase = "beaconOn"
  /\ beacon' \in {beacon, TRUE}
  /\ Return
  /\ UNCHANGED <<info, lists, settings, table, status, device, sampling, disabledBeacon>>

-----------------------------------------------------------------------------

\* The application sets a Node to idle.
SetToIdle(n) ==
  /\ Idle
  /\ sampling' = sampling \ {n}
  /\ UNCHANGED <<scheduleVars, device, beacon, disabledBeacon>>

ApplyStep == WriteNode \/ Applied
StartStep == DisableBeacon \/ SendStart \/ SendThrows \/ NextAttempt \/ Sent \/ EnableBeacon

Next ==
  \/ ScheduleNext /\ UNCHANGED devices
  \/ ApplyConfiguration \/ \E o \in {"start", "startNoBeacon"} : StartSampling(o)
  \/ \E n \in Nodes : SetToIdle(n)
  \/ ApplyStep \/ StartStep

Spec == Init /\ [][Next]_vars

-----------------------------------------------------------------------------
(* Properties *)

\* What has been applied is the schedule as it is now, on every Node; a partly
\* written network is never taken for an applied one.
AppliedMeansWritten ==
  configApplied => networkOk /\ \A n \in Members : device[n] = Computed(n)

\* "The beacon will not be started until all nodes have started"
\* (SyncSamplingNetwork.h, startSampling).
BeaconWaitsForNodes == [][beacon' # beacon /\ beacon' => \A n \in Members : info[n].started]_vars

\* "Each node should be sent the start command, then the beacon should be
\* enabled" (SyncSamplingNetwork.cpp:350): no Node is started under the beacon.
StartedBeforeBeacon ==
  [][op = "start" /\ (\E n \in Nodes : n \in sampling' \ sampling) => ~beacon]_vars

\* startSampling is "sending the start command to each node"
\* (SyncSamplingNetwork.h): a Node it does not send it to is already sampling.
StartReachesEveryNode ==
  phase = "beaconOn" => \A n \in Members : info[n].started => n \in sampling
=============================================================================
