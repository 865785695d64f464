------------------------------ MODULE StopWord ------------------------------
(***************************************************************************)
(* The local "stop" word of one Echo, end to end.  The controller arms the *)
(* device for one turn and phase under a fresh generation (em_turn_engine  *)
(* _arm_stop, em_api _timer_current); the device's stopword.Manager keeps  *)
(* the arm until it is disarmed, expires or is consumed by a crossing; a   *)
(* consumed arm is reported with stop_detected, which em_stop.StopState    *)
(* accepts or ignores.  The two sides are joined by a FIFO control socket  *)
(* that can drop, and each side can restart on its own.  An action runs    *)
(* from one await (or lock release) of the code to the next.               *)
(***************************************************************************)
EXTENDS Integers, Sequences, FiniteSets

CONSTANTS
    Turns,      \* ids of the turn rows the database may hand out
    NoTurn,     \* Python's None for a turn id
    MaxClock,   \* bound: last wall-clock reading (ms) the model explores
    MaxQueue,   \* bound: control messages in flight in one direction
    MaxFaults   \* bound: drops, restarts, mic and scorer changes together

ASSUME TurnsAssumption == NoTurn \notin Turns
ASSUME BoundsAssumption == MaxClock \in Nat /\ MaxQueue \in Nat /\ MaxFaults \in Nat

VARIABLES
    clock,      \* wall clock, milliseconds
    link,       \* the control socket is up
    c2d, d2c,   \* messages in flight, oldest first
    \* the controller's Device object and turn table
    present,    \* the Device object is registered in _devices
    stopGen,    \* Device.stop_generation
    ready,      \* Device.stop_model_ready
    arm,        \* StopState.arm_state
    lastGen,    \* StopState._last_generation
    expired,    \* loop.time() has passed arm_state.expires_mono
    timerTurn,  \* Device.timer_stop_turn_id
    turnState,  \* where a turn is in its life (live, closing: in ENGINE.turns)
    turnGen,    \* Turn.stop_generation, 0 for None
    own,        \* turns whose Turn.device is the current Device object
    pending,    \* turns with an /endpoint request suspended in on_thinking
    \* the device process
    dArm, dGen, \* stopword.Manager.current and .generation
    dHeld,      \* the arm HandleStopCrossing consumed and has not reported yet
    dScorer,    \* the stop scorer is loaded
    dMic,       \* DataClient.micActive
    faults,     \* environment changes so far, capped by MaxFaults
    \* history, read by properties only
    crossed,    \* arms a spoken "stop" consumed on the device
    accepts,    \* arms the controller consumed for a stop_detected
    retired,    \* generations the controller disarmed
    dLost       \* generations the device refused or let expire

ctlVars == <<present, stopGen, ready, arm, lastGen, expired, timerTurn, turnState,
             turnGen, own, pending>>
devVars == <<dArm, dGen, dHeld, dScorer, dMic>>
history == <<crossed, accepts, retired, dLost>>
vars == <<clock, link, c2d, d2c, ctlVars, devVars, faults, history>>

Phases == {"thinking", "playback", "timer"}
ArmSet == [turn : Turns, gen : Nat \ {0}, phase : Phases]
NoArm == [turn |-> NoTurn, gen |-> 0, phase |-> "none"]

CtlMsg == [type : {"stop_arm"}, arm : ArmSet]
              \cup [type : {"stop_disarm"}, gen : Nat \ {0}]
DevMsg == [type : {"stop_detected"}, arm : ArmSet]
              \cup [type : {"stop_status"}, ready : BOOLEAN]

Registered(t) == turnState[t] \in {"live", "closing"}

-----------------------------------------------------------------------------
(* Transport.  Device.send_control swallows the exception of a dead socket, *)
(* and writeJSON's error is ignored: a message sent while down is lost.     *)

SendControl(m) == c2d' = IF link THEN Append(c2d, m) ELSE c2d
SendDevice(m) == d2c' = IF link THEN Append(d2c, m) ELSE d2c

-----------------------------------------------------------------------------
(* Controller: the life of a turn.                                         *)

\* _arm_stop: a fresh generation, StopState.arm, then the stop_arm message.
\* A turn of an abandoned Device object only touches that object.  The guard
\* stopGen < clock is the pace the code relies on: fewer than one arm per
\* millisecond, so stop_generation never overtakes the clock it is seeded from.
ArmStop(t, phase) ==
    IF ready /\ t \in own
    THEN LET gen == stopGen + 1
             a   == [turn |-> t, gen |-> gen, phase |-> phase]
         IN /\ stopGen < clock
            /\ Len(c2d) < MaxQueue
            /\ stopGen' = gen
            /\ IF gen > lastGen
               THEN /\ arm' = a
                    /\ lastGen' = gen
                    /\ expired' = FALSE
                    /\ turnGen' = [turnGen EXCEPT ![t] = gen]
                    /\ SendControl([type |-> "stop_arm", arm |-> a])
               ELSE UNCHANGED <<arm, lastGen, expired, turnGen, c2d>>
    ELSE UNCHANGED <<stopGen, arm, lastGen, expired, turnGen, c2d>>

\* A disarm that forgets the controller's own half.
DisarmOnlyRemote(gen) == arm' = arm

\* StopState.disarm for one exact generation.
Disarm(gen) == arm' = IF arm.gen = gen THEN NoArm ELSE arm

\* create_turn (announcement) or trigger_voice_turn registers a new turn.
NewTurn(t) ==
    /\ present
    /\ turnState[t] = "unused"
    /\ turnState' = [turnState EXCEPT ![t] = "live"]
    /\ own' = own \cup {t}
    /\ UNCHANGED <<clock, link, c2d, d2c, stopGen, ready, arm, lastGen, expired,
                   timerTurn, turnGen, pending, devVars, history, faults, present>>

\* POST /api/turns/{t}/endpoint finds the turn and awaits on_thinking.
EndpointAction(t) ==
    /\ Registered(t)
    /\ t \notin pending
    /\ pending' = pending \cup {t}
    /\ UNCHANGED <<clock, link, c2d, d2c, stopGen, ready, arm, lastGen, expired,
                   timerTurn, turnState, turnGen, own, devVars, history, faults, present>>

\* on_thinking is done: the same request arms, without looking again.
EndpointArm(t) ==
    /\ t \in pending
    /\ pending' = pending \ {t}
    /\ ArmStop(t, "thinking")
    /\ UNCHANGED <<clock, link, d2c, ready, timerTurn, turnState, own, present, devVars,
                   history, faults>>

\* POST /api/turns/{t}/tts/start.
TtsStart(t) ==
    /\ Registered(t)
    /\ ArmStop(t, "playback")
    /\ UNCHANGED <<clock, link, d2c, ready, timerTurn, turnState, own, pending,
                   devVars, history, faults, present>>

\* The turn's task reaches its end and runs _disarm_stop, which suspends only
\* when there is a disarm to send; otherwise the turn is popped at once.
FinishTurn(t) ==
    /\ turnState[t] = "live"
    /\ turnState' = [turnState EXCEPT ![t] = IF turnGen[t] # 0 THEN "closing" ELSE "gone"]
    /\ IF turnGen[t] # 0
       THEN /\ turnGen' = [turnGen EXCEPT ![t] = 0]
            /\ IF t \in own
               THEN /\ Len(c2d) < MaxQueue
                    /\ Disarm(turnGen[t])
                    /\ SendControl([type |-> "stop_disarm", gen |-> turnGen[t]])
                    /\ retired' = retired \cup {turnGen[t]}
               ELSE UNCHANGED <<arm, c2d, retired>>
       ELSE UNCHANGED <<turnGen, arm, c2d, retired>>
    /\ UNCHANGED <<clock, link, d2c, stopGen, ready, lastGen, expired, timerTurn,
                   own, pending, devVars, crossed, accepts, dLost, faults, present>>

\* stop_disarm is flushed to the socket; ENGINE.turns.pop.
PopTurn(t) ==
    /\ turnState[t] = "closing"
    /\ turnState' = [turnState EXCEPT ![t] = "gone"]
    /\ UNCHANGED <<clock, link, c2d, d2c, stopGen, ready, arm, lastGen, expired,
                   timerTurn, turnGen, own, pending, devVars, history, faults, present>>

-----------------------------------------------------------------------------
(* Controller: the arm of a ringing alarm.                                 *)

\* _disarm_timer_stop, at the head of _timer_current and from _timer_state.
DisarmTimerStop ==
    /\ present
    /\ timerTurn # NoTurn
    /\ timerTurn' = NoTurn
    /\ turnState' = [turnState EXCEPT ![timerTurn] = "gone"]
    /\ IF arm.turn = timerTurn
       THEN /\ Len(c2d) < MaxQueue
            /\ Disarm(arm.gen)
            /\ SendControl([type |-> "stop_disarm", gen |-> arm.gen])
            /\ retired' = retired \cup {arm.gen}
       ELSE UNCHANGED <<arm, c2d, retired>>
    /\ UNCHANGED <<clock, link, d2c, stopGen, ready, lastGen, expired, turnGen,
                   own, pending, devVars, crossed, accepts, dLost, faults, present>>

\* The rest of _timer_current, once the timer-alert row exists.
TimerCurrent(t) ==
    /\ present
    /\ ready
    /\ timerTurn = NoTurn
    /\ turnState[t] = "unused"
    /\ stopGen < clock
    /\ Len(c2d) < MaxQueue
    /\ stopGen' = stopGen + 1
    /\ turnState' = [turnState EXCEPT ![t] = "timer"]
    /\ IF stopGen' > lastGen
       THEN LET a == [turn |-> t, gen |-> stopGen', phase |-> "timer"]
            IN /\ arm' = a
               /\ lastGen' = stopGen'
               /\ expired' = FALSE
               /\ timerTurn' = t
               /\ SendControl([type |-> "stop_arm", arm |-> a])
       ELSE UNCHANGED <<arm, lastGen, expired, timerTurn, c2d>>
    /\ UNCHANGED <<clock, link, d2c, ready, turnGen, own, pending, devVars,
                   history, faults, present>>

-----------------------------------------------------------------------------
(* Controller: messages of the device.                                     *)

\* stop_status.
RecvStopStatus ==
    /\ present
    /\ d2c # <<>>
    /\ Head(d2c).type = "stop_status"
    /\ ready' = Head(d2c).ready
    /\ d2c' = Tail(d2c)
    /\ UNCHANGED <<clock, link, c2d, stopGen, arm, lastGen, expired, timerTurn,
                   turnState, turnGen, own, pending, devVars, history, faults, present>>

\* A StopState that accepts any detection while something is armed.
AcceptsAny(m) == arm.gen # 0 /\ ~expired

\* StopState.detected answers "accept" for the arm m reported by the device.
Accepts(m) == arm.gen # 0 /\ m.gen = arm.gen /\ ~expired
                  /\ m.turn = arm.turn /\ m.phase = arm.phase

\* StopState.detected clears the arm on accept, and on a matching late report.
AfterDetected(m) ==
    IF Accepts(m) \/ (m.gen = arm.gen /\ expired) THEN NoArm ELSE arm

\* stop_detected: drop it when the stop word is not ready, else ask StopState;
\* an accepted one dismisses the ringing alarm or stops the named turn.
RecvStopDetected ==
    /\ present
    /\ d2c # <<>>
    /\ Head(d2c).type = "stop_detected"
    /\ d2c' = Tail(d2c)
    /\ LET m == Head(d2c).arm
       IN IF ~ready
          THEN UNCHANGED <<arm, timerTurn, turnState, accepts>>
          ELSE /\ arm' = AfterDetected(m)
               /\ IF Accepts(m)
                  THEN /\ accepts' = accepts \cup {arm}
                       /\ IF m.phase = "timer" /\ m.turn = timerTurn
                          THEN /\ timerTurn' = NoTurn
                               /\ turnState' = [turnState EXCEPT ![m.turn] = "gone"]
                          ELSE UNCHANGED <<timerTurn, turnState>>
                  ELSE UNCHANGED <<accepts, timerTurn, turnState>>
    /\ UNCHANGED <<clock, link, c2d, stopGen, ready, lastGen, expired, turnGen,
                   own, pending, devVars, crossed, retired, dLost, faults, present>>

\* 135 seconds pass on the controller's monotonic clock.
ArmExpires ==
    /\ arm.gen # 0
    /\ ~expired
    /\ expired' = TRUE
    /\ UNCHANGED <<clock, link, c2d, d2c, stopGen, ready, arm, lastGen, timerTurn,
                   turnState, turnGen, own, pending, devVars, history, faults, present>>

-----------------------------------------------------------------------------
(* Device.                                                                 *)

\* stopword.Manager.Arm's acceptance test.
ManagerAccepts(a) == a.gen > dGen

\* DataClient.ArmStop: refused without a mic stream or a scorer.
RecvStopArm ==
    /\ link
    /\ c2d # <<>>
    /\ Head(c2d).type = "stop_arm"
    /\ c2d' = Tail(c2d)
    /\ LET a == Head(c2d).arm
       IN IF dMic /\ dScorer /\ ManagerAccepts(a)
          THEN dArm' = a /\ dGen' = a.gen /\ UNCHANGED dLost
          ELSE dLost' = dLost \cup {a.gen} /\ UNCHANGED <<dArm, dGen>>
    /\ UNCHANGED <<clock, link, d2c, ctlVars, dHeld, dScorer, dMic, crossed,
                   accepts, retired, faults>>

\* A Manager that obeys every disarm.
ManagerDisarmAny(gen) == dArm' = NoArm

\* stopword.Manager.Disarm: only the generation in force.
ManagerDisarm(gen) == dArm' = IF dArm.gen = gen THEN NoArm ELSE dArm

\* stop_disarm.
RecvStopDisarm ==
    /\ link
    /\ c2d # <<>>
    /\ Head(c2d).type = "stop_disarm"
    /\ c2d' = Tail(c2d)
    /\ ManagerDisarm(Head(c2d).gen)
    /\ UNCHANGED <<clock, link, d2c, ctlVars, dGen, dHeld, dScorer, dMic, history, faults>>

\* stopword.Manager.expireLocked: 135 seconds pass on the device.
DeviceExpires ==
    /\ dArm # NoArm
    /\ dArm' = NoArm
    /\ dLost' = dLost \cup {dArm.gen}
    /\ UNCHANGED <<clock, link, c2d, d2c, ctlVars, dGen, dHeld, dScorer, dMic,
                   crossed, accepts, retired, faults>>

\* HandleStopCrossing: the scorer heard "stop" and Accept consumes the arm.
StopCrossing ==
    /\ dMic /\ dScorer
    /\ dArm # NoArm
    /\ dHeld = NoArm
    /\ dHeld' = dArm
    /\ dArm' = NoArm
    /\ crossed' = crossed \cup {dArm}
    /\ UNCHANGED <<clock, link, c2d, d2c, ctlVars, dGen, dScorer, dMic, accepts,
                   retired, dLost, faults>>

\* The OnStopDetected callback: flush the speaker, then report, best effort.
SendStopDetected ==
    /\ dHeld # NoArm
    /\ Len(d2c) < MaxQueue
    /\ SendDevice([type |-> "stop_detected", arm |-> dHeld])
    /\ dHeld' = NoArm
    /\ UNCHANGED <<clock, link, c2d, ctlVars, dArm, dGen, dScorer, dMic, history, faults>>

\* The stop scorer is loaded or unloaded by a config, and reportStopStatus.
ConfigureScorer ==
    /\ faults < MaxFaults
    /\ faults' = faults + 1
    /\ Len(d2c) < MaxQueue
    /\ dScorer' = ~dScorer
    /\ SendDevice([type |-> "stop_status", ready |-> dScorer'])
    /\ UNCHANGED <<clock, link, c2d, ctlVars, dArm, dGen, dHeld, dMic, history>>

\* StartMic / StopMic.
ToggleMic ==
    /\ faults < MaxFaults
    /\ faults' = faults + 1
    /\ dMic' = ~dMic
    /\ UNCHANGED <<clock, link, c2d, d2c, ctlVars, dArm, dGen, dHeld, dScorer,
                   history>>

-----------------------------------------------------------------------------
(* Connections, restarts and time.                                         *)

\* The seed the code had before: every Device starts again from zero.
SeedFromZero == 0

\* A seed cut to a signed 32-bit integer, where epoch milliseconds go negative.
SeedTruncated == 0 - clock

\* The value a new Device object gives stop_generation.
SeedGeneration == clock

\* The socket drops: what is in flight towards the device is lost, what the
\* device sent may still be read.
Disconnect ==
    /\ faults < MaxFaults
    /\ faults' = faults + 1
    /\ link
    /\ link' = FALSE
    /\ c2d' = <<>>
    /\ UNCHANGED <<clock, d2c, ctlVars, devVars, history>>

\* handle_control sees the close and unregisters the Device; turns that hold
\* the object keep using it, but nothing it sends arrives anywhere.
NoticeDisconnect ==
    /\ present
    /\ ~link
    /\ present' = FALSE
    /\ d2c' = <<>>
    /\ UNCHANGED <<clock, link, c2d, stopGen, ready, arm, lastGen, expired,
                   timerTurn, turnState, turnGen, own, pending, devVars, history,
                   faults>>

\* The device registers again: handle_control builds a fresh Device, and the
\* device reports its stop runtime after the config is applied.
Connect ==
    /\ ~link
    /\ link' = TRUE
    /\ c2d' = <<>>
    /\ d2c' = <<[type |-> "stop_status", ready |-> dScorer]>>
    /\ stopGen' = SeedGeneration
    /\ ready' = FALSE
    /\ arm' = NoArm
    /\ lastGen' = 0
    /\ expired' = FALSE
    /\ timerTurn' = NoTurn
    /\ own' = {}
    /\ present' = TRUE
    /\ UNCHANGED <<clock, turnState, turnGen, pending, devVars, history, faults>>

\* The controller process restarts: the turn table and its requests are gone.
ControllerRestart ==
    /\ faults < MaxFaults
    /\ faults' = faults + 1
    /\ link' = FALSE
    /\ c2d' = <<>>
    /\ d2c' = <<>>
    /\ turnState' = [t \in Turns |->
                        IF turnState[t] = "unused" THEN "unused" ELSE "gone"]
    /\ pending' = {}
    /\ own' = {}
    /\ present' = FALSE
    /\ ready' = FALSE
    /\ arm' = NoArm
    /\ timerTurn' = NoTurn
    /\ UNCHANGED <<clock, stopGen, lastGen, expired, turnGen, devVars,
                   history>>

\* The device process restarts.
DeviceRestart ==
    /\ faults < MaxFaults
    /\ faults' = faults + 1
    /\ link' = FALSE
    /\ c2d' = <<>>
    /\ dArm' = NoArm
    /\ dGen' = 0
    /\ dHeld' = NoArm
    /\ dMic' = FALSE
    /\ UNCHANGED <<clock, d2c, ctlVars, dScorer, history>>

Tick ==
    /\ clock < MaxClock
    /\ clock' = clock + 1
    /\ UNCHANGED <<link, c2d, d2c, ctlVars, devVars, history, faults>>

-----------------------------------------------------------------------------
Init ==
    /\ clock = 1
    /\ link = TRUE
    /\ c2d = <<>>
    /\ d2c = <<[type |-> "stop_status", ready |-> TRUE]>>
    /\ present = TRUE
    /\ stopGen = 1
    /\ ready = FALSE
    /\ arm = NoArm
    /\ lastGen = 0
    /\ expired = FALSE
    /\ timerTurn = NoTurn
    /\ turnState = [t \in Turns |-> "unused"]
    /\ turnGen = [t \in Turns |-> 0]
    /\ own = {}
    /\ pending = {}
    /\ dArm = NoArm
    /\ dGen = 0
    /\ dHeld = NoArm
    /\ dScorer = TRUE
    /\ dMic = TRUE
    /\ faults = 0
    /\ crossed = {}
    /\ accepts = {}
    /\ retired = {}
    /\ dLost = {}

TurnNext(t) ==
    \/ NewTurn(t)
    \/ EndpointAction(t)
    \/ EndpointArm(t)
    \/ TtsStart(t)
    \/ FinishTurn(t)
    \/ PopTurn(t)
    \/ TimerCurrent(t)

DeviceNext ==
    \/ RecvStopArm
    \/ RecvStopDisarm
    \/ DeviceExpires
    \/ StopCrossing
    \/ SendStopDetected
    \/ ConfigureScorer
    \/ ToggleMic

Next ==
    \/ \E t \in Turns : TurnNext(t)
    \/ DisarmTimerStop
    \/ RecvStopStatus
    \/ RecvStopDetected
    \/ ArmExpires
    \/ DeviceNext
    \/ Disconnect
    \/ NoticeDisconnect
    \/ Connect
    \/ ControllerRestart
    \/ DeviceRestart
    \/ Tick

Spec == Init /\ [][Next]_vars

-----------------------------------------------------------------------------
(* Properties.                                                             *)

\* The flags.
FlagsOK ==
    /\ link \in BOOLEAN
    /\ present \in BOOLEAN
    /\ ready \in BOOLEAN
    /\ expired \in BOOLEAN
    /\ dScorer \in BOOLEAN
    /\ dMic \in BOOLEAN

\* Counters, arms and the turn table.
TablesOK ==
    /\ clock \in Nat
    /\ stopGen \in Nat
    /\ arm \in ArmSet \cup {NoArm}
    /\ lastGen \in Nat
    /\ timerTurn \in Turns \cup {NoTurn}
    /\ turnState \in [Turns -> {"unused", "live", "closing", "gone", "timer"}]
    /\ turnGen \in [Turns -> Nat]
    /\ own \in SUBSET Turns
    /\ pending \in SUBSET Turns
    /\ dArm \in ArmSet \cup {NoArm}
    /\ dGen \in Nat
    /\ dHeld \in ArmSet \cup {NoArm}
    /\ faults \in Nat
    /\ crossed \in SUBSET ArmSet
    /\ accepts \in SUBSET ArmSet
    /\ retired \in SUBSET Nat
    /\ dLost \in SUBSET Nat

\* Every variable has the shape the code gives it.
TypeOK ==
    /\ FlagsOK
    /\ TablesOK
    /\ c2d \in Seq(CtlMsg)
    /\ d2c \in Seq(DevMsg)

\* Whatever was lost, restarted or reconnected before, an arm the controller
\* puts on the wire is newer than every generation the device remembers, so
\* stopword.Manager never refuses it as stale (the comment on
\* Device.stop_generation tells of the seed that broke this).
FreshArmsAccepted ==
    \A i \in DOMAIN c2d : c2d[i].type = "stop_arm" => c2d[i].arm.gen > dGen

\* The arm StopState consumes for a stop_detected is the very arm - turn,
\* generation and phase - that a spoken "stop" consumed on the device: no
\* detection, however late, interrupts anything but what the user heard.
AcceptedArmWasCrossed == accepts \subseteq crossed

\* On a link that stays up, the arm the controller believes in force is in
\* force on the device as soon as its message has been read, unless the device
\* refused it, let it expire or consumed it: no late disarm of an older turn
\* takes a newer turn's protection away.
NewerArmSurvives ==
    (link /\ arm # NoArm) =>
        \/ \E i \in DOMAIN c2d : c2d[i].type = "stop_arm" /\ c2d[i].arm = arm
        \/ dArm = arm
        \/ arm \in crossed
        \/ arm.gen \in dLost

\* Once the controller has disarmed a generation (its turn is over), a
\* stop_detected for it that was already in flight is never accepted.
NoStopAfterDisarm == [][\A a \in accepts' \ accepts : a.gen \notin retired]_vars

\* "Arm one device-local interrupt generation for this active turn": the arm in
\* force belongs to a turn of ENGINE.turns or to the ringing alarm.
ArmForActiveTurn == arm # NoArm => Registered(arm.turn) \/ arm.turn = timerTurn
=============================================================================
