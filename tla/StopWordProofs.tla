--------------------------- MODULE StopWordProofs ---------------------------
(***************************************************************************)
(* Proofs about StopWord for every set of turn rows, any clock bound, any  *)
(* queue bound and any number of drops and restarts: the type invariant,   *)
(* that a fresh arm is never refused as stale, and that every accepted     *)
(* detection was spoken under exactly the arm it stops.                    *)
(***************************************************************************)
EXTENDS StopWord, TLAPS

\* Arming keeps the controller's half typed.
LEMMA ArmTyped ==
  ASSUME TypeOK, NEW t \in Turns, NEW phase \in Phases, ArmStop(t, phase)
  PROVE  /\ c2d' \in Seq(CtlMsg)
         /\ stopGen' \in Nat
         /\ arm' \in ArmSet \cup {NoArm}
         /\ lastGen' \in Nat
         /\ expired' \in BOOLEAN
         /\ turnGen' \in [Turns -> Nat]
<1> DEFINE a == [turn |-> t, gen |-> stopGen + 1, phase |-> phase]
<1>1. a \in ArmSet  BY DEF TypeOK, TablesOK, FlagsOK, ArmSet
<1>2. [type |-> "stop_arm", arm |-> a] \in CtlMsg  BY <1>1 DEF CtlMsg
<1> HIDE DEF a
<1>3. Append(c2d, [type |-> "stop_arm", arm |-> a]) \in Seq(CtlMsg)
  BY <1>2 DEF TypeOK, TablesOK, FlagsOK
<1>4. ArmStop(t, phase)
        => \/ /\ c2d' = c2d \/ c2d' = Append(c2d, [type |-> "stop_arm", arm |-> a])
              /\ stopGen' = stopGen + 1
              /\ arm' = a \/ arm' = arm
              /\ lastGen' = stopGen + 1 \/ lastGen' = lastGen
              /\ expired' = FALSE \/ expired' = expired
              /\ \/ turnGen' = [turnGen EXCEPT ![t] = stopGen + 1]
                 \/ turnGen' = turnGen
           \/ UNCHANGED <<stopGen, arm, lastGen, expired, turnGen, c2d>>
  BY DEF ArmStop, SendControl, a
<1>5. expired' \in BOOLEAN  BY <1>4 DEF TypeOK, TablesOK, FlagsOK
<1>6. c2d' \in Seq(CtlMsg)  BY <1>3, <1>4 DEF TypeOK, TablesOK, FlagsOK
<1>7. stopGen' \in Nat /\ lastGen' \in Nat  BY <1>4 DEF TypeOK, TablesOK, FlagsOK
<1>8. arm' \in ArmSet \cup {NoArm}  BY <1>1, <1>4 DEF TypeOK, TablesOK, FlagsOK
<1>9. turnGen' \in [Turns -> Nat]  BY <1>4 DEF TypeOK, TablesOK, FlagsOK
<1> QED  BY <1>5, <1>6, <1>7, <1>8, <1>9

\* The message at the head of either queue is a message of that direction.
LEMMA HeadsTyped ==
  ASSUME TypeOK
  PROVE  /\ c2d # <<>> /\ Head(c2d).type = "stop_arm" => Head(c2d).arm \in ArmSet
         /\ d2c # <<>> /\ Head(d2c).type = "stop_detected" => Head(d2c).arm \in ArmSet
<1>1. c2d # <<>> => Head(c2d) \in CtlMsg  BY DEF TypeOK
<1>2. d2c # <<>> => Head(d2c) \in DevMsg  BY DEF TypeOK
<1> QED  BY <1>1, <1>2 DEF CtlMsg, DevMsg

\* Disarming keeps the controller's half typed.
LEMMA DisarmTyped ==
  ASSUME NEW gen \in Nat \ {0}, Disarm(gen),
         SendControl([type |-> "stop_disarm", gen |-> gen]), TypeOK
  PROVE  arm' \in ArmSet \cup {NoArm} /\ c2d' \in Seq(CtlMsg)
<1>1. [type |-> "stop_disarm", gen |-> gen] \in CtlMsg  BY DEF CtlMsg
<1>2. arm' \in ArmSet \cup {NoArm}  BY DEF Disarm, TypeOK, TablesOK
<1>3. c2d' \in Seq(CtlMsg)  BY <1>1 DEF SendControl, TypeOK
<1> QED  BY <1>2, <1>3

\* Every action keeps the types.
LEMMA TypeStep == TypeOK /\ [Next]_vars => TypeOK'
<1> SUFFICES ASSUME TypeOK, [Next]_vars PROVE TypeOK'  OBVIOUS
<1> USE DEF ctlVars, devVars, history, TypeOK
<1>1. ASSUME NEW t \in Turns, NewTurn(t) PROVE TypeOK'
  <2>1. FlagsOK'  BY <1>1 DEF FlagsOK, NewTurn
  <2>2. TablesOK'  BY <1>1 DEF TablesOK, NewTurn
  <2>3. c2d' \in Seq(CtlMsg)  BY <1>1 DEF NewTurn
  <2>4. d2c' \in Seq(DevMsg)  BY <1>1 DEF NewTurn
  <2> QED  BY <2>1, <2>2, <2>3, <2>4
<1>2. ASSUME NEW t \in Turns, EndpointAction(t) PROVE TypeOK'
  <2>1. FlagsOK'  BY <1>2 DEF FlagsOK, EndpointAction
  <2>2. TablesOK'  BY <1>2 DEF TablesOK, EndpointAction
  <2>3. c2d' \in Seq(CtlMsg)  BY <1>2 DEF EndpointAction
  <2>4. d2c' \in Seq(DevMsg)  BY <1>2 DEF EndpointAction
  <2> QED  BY <2>1, <2>2, <2>3, <2>4
<1>3. ASSUME NEW t \in Turns, EndpointArm(t) PROVE TypeOK'
  <2>1. FlagsOK'  BY <1>3, ArmTyped DEF FlagsOK, EndpointArm, Phases
  <2>2. TablesOK'  BY <1>3, ArmTyped DEF TablesOK, EndpointArm, Phases
  <2>3. c2d' \in Seq(CtlMsg)  BY <1>3, ArmTyped DEF EndpointArm, Phases
  <2>4. d2c' \in Seq(DevMsg)  BY <1>3 DEF EndpointArm, Phases
  <2> QED  BY <2>1, <2>2, <2>3, <2>4
<1>4. ASSUME NEW t \in Turns, TtsStart(t) PROVE TypeOK'
  <2>1. FlagsOK'  BY <1>4, ArmTyped DEF FlagsOK, TtsStart, Phases
  <2>2. TablesOK'  BY <1>4, ArmTyped DEF TablesOK, TtsStart, Phases
  <2>3. c2d' \in Seq(CtlMsg)  BY <1>4, ArmTyped DEF TtsStart, Phases
  <2>4. d2c' \in Seq(DevMsg)  BY <1>4 DEF TtsStart, Phases
  <2> QED  BY <2>1, <2>2, <2>3, <2>4
<1>5. ASSUME NEW t \in Turns, FinishTurn(t) PROVE TypeOK'
  <2>1. FlagsOK'  BY <1>5 DEF FlagsOK, FinishTurn
  <2>a. turnGen[t] \in Nat  BY DEF TablesOK
  <2>b. arm' \in ArmSet \cup {NoArm} /\ c2d' \in Seq(CtlMsg)
    <3>1. CASE turnGen[t] # 0 /\ t \in own  BY <1>5, <2>a, <3>1, DisarmTyped DEF FinishTurn
    <3>2. CASE ~(turnGen[t] # 0 /\ t \in own)  BY <1>5, <3>2 DEF FinishTurn, TablesOK
    <3> QED  BY <3>1, <3>2
  <2>c. turnGen' \in [Turns -> Nat]  BY <1>5 DEF TablesOK, FinishTurn
  <2>d. turnState' \in [Turns -> {"unused", "live", "closing", "gone", "timer"}]
    BY <1>5 DEF TablesOK, FinishTurn
  <2>e. retired' \in SUBSET Nat  BY <1>5, <2>a DEF TablesOK, FinishTurn
  <2>2. TablesOK'  BY <1>5, <2>b, <2>c, <2>d, <2>e DEF TablesOK, FinishTurn
  <2>3. c2d' \in Seq(CtlMsg)  BY <2>b
  <2>4. d2c' \in Seq(DevMsg)  BY <1>5 DEF FinishTurn, Disarm, SendControl, CtlMsg
  <2> QED  BY <2>1, <2>2, <2>3, <2>4
<1>6. ASSUME NEW t \in Turns, PopTurn(t) PROVE TypeOK'
  <2>1. FlagsOK'  BY <1>6 DEF FlagsOK, PopTurn
  <2>2. TablesOK'  BY <1>6 DEF TablesOK, PopTurn
  <2>3. c2d' \in Seq(CtlMsg)  BY <1>6 DEF PopTurn
  <2>4. d2c' \in Seq(DevMsg)  BY <1>6 DEF PopTurn
  <2> QED  BY <2>1, <2>2, <2>3, <2>4
<1>7. ASSUME NEW t \in Turns, TimerCurrent(t) PROVE TypeOK'
  <2>1. FlagsOK'  BY <1>7 DEF FlagsOK, TimerCurrent
  <2>2. TablesOK'  BY <1>7 DEF TablesOK, TimerCurrent, SendControl, CtlMsg, ArmSet, Phases
  <2>a. [turn |-> t, gen |-> stopGen + 1, phase |-> "timer"] \in ArmSet
    BY DEF ArmSet, Phases, TablesOK
  <2>b. [type |-> "stop_arm", arm |-> [turn |-> t, gen |-> stopGen + 1,
                                      phase |-> "timer"]] \in CtlMsg
    BY <2>a DEF CtlMsg
  <2>c. stopGen' = stopGen + 1  BY <1>7 DEF TimerCurrent
  <2>d. \/ c2d' = c2d
        \/ c2d' = Append(c2d, [type |-> "stop_arm", arm |-> [turn |-> t,
                            gen |-> stopGen + 1, phase |-> "timer"]])
    BY <1>7, <2>c DEF TimerCurrent, SendControl
  <2>3. c2d' \in Seq(CtlMsg)  BY <2>b, <2>d
  <2>4. d2c' \in Seq(DevMsg)  BY <1>7 DEF TimerCurrent, SendControl, CtlMsg, ArmSet, Phases
  <2> QED  BY <2>1, <2>2, <2>3, <2>4
<1>8. ASSUME DisarmTimerStop PROVE TypeOK'
  <2>1. FlagsOK'  BY <1>8 DEF FlagsOK, DisarmTimerStop
  <2>a. arm.turn = timerTurn => arm.gen \in Nat \ {0}
    BY <1>8, TurnsAssumption DEF TablesOK, DisarmTimerStop, NoArm, ArmSet
  <2>b. arm' \in ArmSet \cup {NoArm} /\ c2d' \in Seq(CtlMsg)
    <3>1. CASE arm.turn = timerTurn  BY <1>8, <2>a, <3>1, DisarmTyped DEF DisarmTimerStop
    <3>2. CASE arm.turn # timerTurn  BY <1>8, <3>2 DEF DisarmTimerStop, TablesOK
    <3> QED  BY <3>1, <3>2
  <2>2. TablesOK'  BY <1>8, <2>a, <2>b DEF TablesOK, DisarmTimerStop
  <2>3. c2d' \in Seq(CtlMsg)  BY <2>b
  <2>4. d2c' \in Seq(DevMsg)  BY <1>8 DEF DisarmTimerStop, Disarm, SendControl, CtlMsg, NoArm, ArmSet
  <2> QED  BY <2>1, <2>2, <2>3, <2>4
<1>9. ASSUME RecvStopStatus PROVE TypeOK'
  <2>1. FlagsOK'  BY <1>9 DEF FlagsOK, RecvStopStatus, DevMsg
  <2>2. TablesOK'  BY <1>9 DEF TablesOK, RecvStopStatus
  <2>3. c2d' \in Seq(CtlMsg)  BY <1>9 DEF RecvStopStatus
  <2>4. d2c' \in Seq(DevMsg)  BY <1>9 DEF RecvStopStatus
  <2> QED  BY <2>1, <2>2, <2>3, <2>4
<1>10. ASSUME RecvStopDetected PROVE TypeOK'
  <2>1. FlagsOK'  BY <1>10 DEF FlagsOK, RecvStopDetected
  <2>a. Head(d2c).arm \in ArmSet  BY <1>10, HeadsTyped DEF RecvStopDetected
  <2>b. Accepts(Head(d2c).arm) => arm \in ArmSet  BY DEF Accepts, TablesOK, NoArm
  <2>c. arm' \in ArmSet \cup {NoArm}
    BY <1>10 DEF TablesOK, RecvStopDetected, AfterDetected
  <2>d. accepts' \in SUBSET ArmSet  BY <1>10, <2>b DEF TablesOK, RecvStopDetected
  <2>e. Head(d2c).arm.turn \in Turns  BY <2>a DEF ArmSet
  <2>f. /\ timerTurn' \in Turns \cup {NoTurn}
        /\ turnState' \in [Turns -> {"unused", "live", "closing", "gone", "timer"}]
    BY <1>10, <2>e DEF TablesOK, RecvStopDetected
  <2>2. TablesOK'  BY <1>10, <2>c, <2>d, <2>f DEF TablesOK, RecvStopDetected
  <2>3. c2d' \in Seq(CtlMsg)  BY <1>10 DEF RecvStopDetected, DevMsg, Accepts, AfterDetected
  <2>4. d2c' \in Seq(DevMsg)  BY <1>10 DEF RecvStopDetected, DevMsg, Accepts, AfterDetected
  <2> QED  BY <2>1, <2>2, <2>3, <2>4
<1>11. ASSUME ArmExpires PROVE TypeOK'
  <2>1. FlagsOK'  BY <1>11 DEF FlagsOK, ArmExpires
  <2>2. TablesOK'  BY <1>11 DEF TablesOK, ArmExpires
  <2>3. c2d' \in Seq(CtlMsg)  BY <1>11 DEF ArmExpires
  <2>4. d2c' \in Seq(DevMsg)  BY <1>11 DEF ArmExpires
  <2> QED  BY <2>1, <2>2, <2>3, <2>4
<1>12. ASSUME RecvStopArm PROVE TypeOK'
  <2>1. FlagsOK'  BY <1>12 DEF FlagsOK, RecvStopArm
  <2>a. Head(c2d).arm \in ArmSet  BY <1>12, HeadsTyped DEF RecvStopArm
  <2>b. Head(c2d).arm.gen \in Nat  BY <2>a DEF ArmSet
  <2>2. TablesOK'  BY <1>12, <2>a, <2>b DEF TablesOK, RecvStopArm
  <2>3. c2d' \in Seq(CtlMsg)  BY <1>12 DEF RecvStopArm, CtlMsg, ManagerAccepts, ArmSet
  <2>4. d2c' \in Seq(DevMsg)  BY <1>12 DEF RecvStopArm, CtlMsg, ManagerAccepts, ArmSet
  <2> QED  BY <2>1, <2>2, <2>3, <2>4
<1>13. ASSUME RecvStopDisarm PROVE TypeOK'
  <2>1. FlagsOK'  BY <1>13 DEF FlagsOK, RecvStopDisarm
  <2>2. TablesOK'  BY <1>13 DEF TablesOK, RecvStopDisarm, ManagerDisarm
  <2>3. c2d' \in Seq(CtlMsg)  BY <1>13 DEF RecvStopDisarm, ManagerDisarm
  <2>4. d2c' \in Seq(DevMsg)  BY <1>13 DEF RecvStopDisarm, ManagerDisarm
  <2> QED  BY <2>1, <2>2, <2>3, <2>4
<1>14. ASSUME DeviceExpires PROVE TypeOK'
  <2>1. FlagsOK'  BY <1>14 DEF FlagsOK, DeviceExpires
  <2>2. TablesOK'  BY <1>14 DEF TablesOK, DeviceExpires, ArmSet, NoArm
  <2>3. c2d' \in Seq(CtlMsg)  BY <1>14 DEF DeviceExpires, ArmSet, NoArm
  <2>4. d2c' \in Seq(DevMsg)  BY <1>14 DEF DeviceExpires, ArmSet, NoArm
  <2> QED  BY <2>1, <2>2, <2>3, <2>4
<1>15. ASSUME StopCrossing PROVE TypeOK'
  <2>1. FlagsOK'  BY <1>15 DEF FlagsOK, StopCrossing
  <2>2. TablesOK'  BY <1>15 DEF TablesOK, StopCrossing
  <2>3. c2d' \in Seq(CtlMsg)  BY <1>15 DEF StopCrossing
  <2>4. d2c' \in Seq(DevMsg)  BY <1>15 DEF StopCrossing
  <2> QED  BY <2>1, <2>2, <2>3, <2>4
<1>16. ASSUME SendStopDetected PROVE TypeOK'
  <2>1. FlagsOK'  BY <1>16 DEF FlagsOK, SendStopDetected
  <2>2. TablesOK'  BY <1>16 DEF TablesOK, SendStopDetected, SendDevice, DevMsg
  <2>3. c2d' \in Seq(CtlMsg)  BY <1>16 DEF SendStopDetected, SendDevice, DevMsg
  <2>4. d2c' \in Seq(DevMsg)  BY <1>16 DEF SendStopDetected, SendDevice, DevMsg, TablesOK
  <2> QED  BY <2>1, <2>2, <2>3, <2>4
<1>17. ASSUME ConfigureScorer PROVE TypeOK'
  <2>1. FlagsOK'  BY <1>17 DEF FlagsOK, ConfigureScorer
  <2>2. TablesOK'  BY <1>17 DEF TablesOK, ConfigureScorer, SendDevice, DevMsg
  <2>3. c2d' \in Seq(CtlMsg)  BY <1>17 DEF ConfigureScorer, SendDevice, DevMsg
  <2>a. dScorer' \in BOOLEAN  BY <1>17 DEF ConfigureScorer, FlagsOK
  <2>b. [type |-> "stop_status", ready |-> dScorer'] \in DevMsg  BY <2>a DEF DevMsg
  <2>4. d2c' \in Seq(DevMsg)  BY <1>17, <2>b DEF ConfigureScorer, SendDevice
  <2> QED  BY <2>1, <2>2, <2>3, <2>4
<1>18. ASSUME ToggleMic PROVE TypeOK'
  <2>1. FlagsOK'  BY <1>18 DEF FlagsOK, ToggleMic
  <2>2. TablesOK'  BY <1>18 DEF TablesOK, ToggleMic
  <2>3. c2d' \in Seq(CtlMsg)  BY <1>18 DEF ToggleMic
  <2>4. d2c' \in Seq(DevMsg)  BY <1>18 DEF ToggleMic
  <2> QED  BY <2>1, <2>2, <2>3, <2>4
<1>19. ASSUME Disconnect PROVE TypeOK'
  <2>1. FlagsOK'  BY <1>19 DEF FlagsOK, Disconnect
  <2>2. TablesOK'  BY <1>19 DEF TablesOK, Disconnect
  <2>3. c2d' \in Seq(CtlMsg)  BY <1>19 DEF Disconnect
  <2>4. d2c' \in Seq(DevMsg)  BY <1>19 DEF Disconnect
  <2> QED  BY <2>1, <2>2, <2>3, <2>4
<1>20. ASSUME NoticeDisconnect PROVE TypeOK'
  <2>1. FlagsOK'  BY <1>20 DEF FlagsOK, NoticeDisconnect
  <2>2. TablesOK'  BY <1>20 DEF TablesOK, NoticeDisconnect
  <2>3. c2d' \in Seq(CtlMsg)  BY <1>20 DEF NoticeDisconnect
  <2>4. d2c' \in Seq(DevMsg)  BY <1>20 DEF NoticeDisconnect
  <2> QED  BY <2>1, <2>2, <2>3, <2>4
<1>21. ASSUME Connect PROVE TypeOK'
  <2>1. FlagsOK'  BY <1>21 DEF FlagsOK, Connect
  <2>2. TablesOK'  BY <1>21 DEF TablesOK, Connect, SeedGeneration, DevMsg
  <2>3. c2d' \in Seq(CtlMsg)  BY <1>21 DEF Connect, SeedGeneration, DevMsg
  <2>4. d2c' \in Seq(DevMsg)  BY <1>21 DEF Connect, SeedGeneration, DevMsg, FlagsOK
  <2> QED  BY <2>1, <2>2, <2>3, <2>4
<1>22. ASSUME ControllerRestart PROVE TypeOK'
  <2>1. FlagsOK'  BY <1>22 DEF FlagsOK, ControllerRestart
  <2>2. TablesOK'  BY <1>22 DEF TablesOK, ControllerRestart
  <2>3. c2d' \in Seq(CtlMsg)  BY <1>22 DEF ControllerRestart
  <2>4. d2c' \in Seq(DevMsg)  BY <1>22 DEF ControllerRestart
  <2> QED  BY <2>1, <2>2, <2>3, <2>4
<1>23. ASSUME DeviceRestart PROVE TypeOK'
  <2>1. FlagsOK'  BY <1>23 DEF FlagsOK, DeviceRestart
  <2>2. TablesOK'  BY <1>23 DEF TablesOK, DeviceRestart
  <2>3. c2d' \in Seq(CtlMsg)  BY <1>23 DEF DeviceRestart
  <2>4. d2c' \in Seq(DevMsg)  BY <1>23 DEF DeviceRestart
  <2> QED  BY <2>1, <2>2, <2>3, <2>4
<1>24. ASSUME Tick PROVE TypeOK'
  <2>1. FlagsOK'  BY <1>24 DEF FlagsOK, Tick
  <2>2. TablesOK'  BY <1>24 DEF TablesOK, Tick
  <2>3. c2d' \in Seq(CtlMsg)  BY <1>24 DEF Tick
  <2>4. d2c' \in Seq(DevMsg)  BY <1>24 DEF Tick
  <2> QED  BY <2>1, <2>2, <2>3, <2>4
<1>25. ASSUME UNCHANGED vars PROVE TypeOK'
  BY <1>25 DEF TablesOK, FlagsOK, vars
<1> QED
  BY <1>1, <1>2, <1>3, <1>4, <1>5, <1>6, <1>7, <1>8, <1>9, <1>10, <1>11, <1>12, <1>13, <1>14, <1>15, <1>16, <1>17, <1>18, <1>19, <1>20, <1>21, <1>22, <1>23, <1>24, <1>25 DEF Next, TurnNext, DeviceNext

\* Whatever the turns, the device and the network do, every variable keeps the
\* shape the code gives it.
THEOREM TypeCorrect == Spec => []TypeOK
<1>1. Init => TypeOK
  <2> SUFFICES ASSUME Init PROVE TypeOK  OBVIOUS
  <2>1. FlagsOK  BY DEF Init, FlagsOK
  <2>2. TablesOK  BY DEF Init, TablesOK
  <2>3. [type |-> "stop_status", ready |-> TRUE] \in DevMsg  BY DEF DevMsg
  <2>4. c2d \in Seq(CtlMsg) /\ d2c \in Seq(DevMsg)  BY <2>3 DEF Init
  <2> QED  BY <2>1, <2>2, <2>4 DEF TypeOK
<1> QED  BY <1>1, TypeStep, PTL DEF Spec

-----------------------------------------------------------------------------
(* Generations.  FreshArmsAccepted is not inductive: it needs to know that  *)
(* the counter the next arm is taken from is ahead of the device, on the    *)
(* wire and across the seeding of a new Device object from the clock.       *)

ArmAt(i) == i \in DOMAIN c2d /\ c2d[i].type = "stop_arm"

GenInv ==
    /\ stopGen <= clock
    /\ dGen <= clock
    /\ link => dGen <= stopGen
    /\ ~link => c2d = <<>>
    /\ \A i : ArmAt(i) => c2d[i].arm.gen > dGen /\ c2d[i].arm.gen <= stopGen
    /\ \A i, j : ArmAt(i) /\ ArmAt(j) /\ i < j => c2d[i].arm.gen < c2d[j].arm.gen

genVars == <<stopGen, clock, dGen, link, c2d>>

\* Steps that touch no generation keep the invariant.
LEMMA GenFrame == GenInv /\ UNCHANGED genVars => GenInv'
BY DEF GenInv, ArmAt, genVars

\* Sending anything but an arm keeps the invariant.
LEMMA GenSendOther ==
  ASSUME TypeOK, GenInv, NEW m \in CtlMsg, m.type # "stop_arm", SendControl(m),
         UNCHANGED <<stopGen, clock, dGen, link>>
  PROVE  GenInv'
<1>1. CASE ~link  BY <1>1, GenFrame DEF SendControl, genVars
<1>2. CASE link
  <2>1. c2d' = Append(c2d, m) /\ c2d \in Seq(CtlMsg)  BY <1>2 DEF SendControl, TypeOK
  <2>2. \A i : ArmAt(i)' => ArmAt(i) /\ c2d'[i] = c2d[i]  BY <2>1 DEF ArmAt
  <2> QED  BY <1>2, <2>2 DEF GenInv
<1> QED  BY <1>1, <1>2

\* Sending an arm of the next generation keeps the invariant.
LEMMA GenSendArm ==
  ASSUME TypeOK, GenInv, NEW a \in ArmSet, a.gen = stopGen + 1, stopGen < clock,
         SendControl([type |-> "stop_arm", arm |-> a]), stopGen' = stopGen + 1,
         UNCHANGED <<clock, dGen, link>>
  PROVE  GenInv'
<1> DEFINE m == [type |-> "stop_arm", arm |-> a]
<1>a. stopGen \in Nat /\ clock \in Nat /\ dGen \in Nat  BY DEF TypeOK, TablesOK
<1>1. CASE ~link
  <2>1. c2d' = <<>>  BY <1>1 DEF SendControl, GenInv
  <2> QED  BY <1>1, <1>a, <2>1 DEF GenInv, ArmAt
<1>2. CASE link
  <2>1. c2d' = Append(c2d, m) /\ c2d \in Seq(CtlMsg)  BY <1>2 DEF SendControl, TypeOK
  <2>2. m \in CtlMsg  BY DEF CtlMsg
  <2>3. \A i : ArmAt(i)' => \/ ArmAt(i) /\ c2d'[i] = c2d[i] /\ i \in 1..Len(c2d)
                            \/ i = Len(c2d) + 1 /\ c2d'[i] = m
    BY <2>1, <2>2 DEF ArmAt
  <2>4. \A i : ArmAt(i) => i \in 1..Len(c2d) /\ c2d[i].arm.gen \in Nat
    BY DEF ArmAt, CtlMsg, TypeOK, ArmSet
  <2>5. \A i : ArmAt(i)' => c2d'[i].arm.gen > dGen /\ c2d'[i].arm.gen <= stopGen + 1
    BY <1>2, <1>a, <2>3, <2>4 DEF GenInv
  <2>6. \A i, j : ArmAt(i)' /\ ArmAt(j)' /\ i < j => c2d'[i].arm.gen < c2d'[j].arm.gen
    <3> SUFFICES ASSUME NEW i, NEW j, ArmAt(i)', ArmAt(j)', i < j
                 PROVE  c2d'[i].arm.gen < c2d'[j].arm.gen
      OBVIOUS
    <3>1. CASE ArmAt(j) /\ c2d'[j] = c2d[j] /\ j \in 1..Len(c2d)
      <4>1. ArmAt(i) /\ c2d'[i] = c2d[i]  BY <2>1, <2>3, <3>1
      <4> QED  BY <3>1, <4>1 DEF GenInv
    <3>2. CASE j = Len(c2d) + 1 /\ c2d'[j] = m
      <4>1. ArmAt(i) /\ c2d'[i] = c2d[i]  BY <2>1, <2>3, <3>2
      <4> QED  BY <1>a, <2>4, <3>2, <4>1 DEF GenInv
    <3> QED  BY <2>3, <3>1, <3>2
  <2> QED  BY <1>2, <1>a, <2>5, <2>6 DEF GenInv
<1> QED  BY <1>1, <1>2

\* The device reads the oldest message.
LEMMA GenReceive ==
  ASSUME TypeOK, GenInv, link, c2d # <<>>, c2d' = Tail(c2d),
         dGen' = dGen \/ (Head(c2d).type = "stop_arm" /\ dGen' = Head(c2d).arm.gen),
         UNCHANGED <<stopGen, clock, link>>
  PROVE  GenInv'
<1>1. \A i : ArmAt(i)' => i \in 1..(Len(c2d) - 1) /\ ArmAt(i + 1) /\ c2d'[i] = c2d[i + 1]
  BY DEF ArmAt, TypeOK
<1>2. Head(c2d).type = "stop_arm" => ArmAt(1) /\ Head(c2d) = c2d[1]
  BY DEF ArmAt, TypeOK
<1>3. \A i : ArmAt(i) => c2d[i].arm.gen \in Nat
  BY DEF ArmAt, CtlMsg, TypeOK, ArmSet
<1>a. stopGen \in Nat /\ clock \in Nat /\ dGen \in Nat  BY DEF TypeOK, TablesOK
<1>4. dGen' <= stopGen  BY <1>2 DEF GenInv
<1>5. \A i : ArmAt(i)' => c2d'[i].arm.gen > dGen' /\ c2d'[i].arm.gen <= stopGen
  <2> SUFFICES ASSUME NEW i, ArmAt(i)'
               PROVE  c2d'[i].arm.gen > dGen' /\ c2d'[i].arm.gen <= stopGen
    OBVIOUS
  <2>1. ArmAt(i + 1) /\ c2d'[i] = c2d[i + 1] /\ 1 < i + 1  BY <1>1
  <2>2. c2d[i + 1].arm.gen > dGen /\ c2d[i + 1].arm.gen <= stopGen  BY <2>1 DEF GenInv
  <2>3. ArmAt(1) => c2d[1].arm.gen < c2d[i + 1].arm.gen  BY <2>1 DEF GenInv
  <2> QED  BY <1>2, <1>3, <1>a, <2>1, <2>2, <2>3
<1>6. \A i, j : ArmAt(i)' /\ ArmAt(j)' /\ i < j => c2d'[i].arm.gen < c2d'[j].arm.gen
  <2> SUFFICES ASSUME NEW i, NEW j, ArmAt(i)', ArmAt(j)', i < j
               PROVE  c2d'[i].arm.gen < c2d'[j].arm.gen
    OBVIOUS
  <2>1. ArmAt(i + 1) /\ ArmAt(j + 1) /\ i + 1 < j + 1  BY <1>1
  <2> QED  BY <1>1, <2>1 DEF GenInv
<1>7. dGen' <= clock  BY <1>4, <1>a, <1>2, <1>3 DEF GenInv
<1> QED  BY <1>4, <1>5, <1>6, <1>7 DEF GenInv

\* Arming keeps the generations in order.
LEMMA GenArmStop ==
  ASSUME TypeOK, GenInv, NEW t \in Turns, NEW phase \in Phases, ArmStop(t, phase),
         UNCHANGED <<clock, dGen, link>>
  PROVE  GenInv'
<1> DEFINE a == [turn |-> t, gen |-> stopGen + 1, phase |-> phase]
<1>1. a \in ArmSet /\ a.gen = stopGen + 1  BY DEF ArmSet, TypeOK, TablesOK
<1>2. CASE /\ stopGen < clock
           /\ SendControl([type |-> "stop_arm", arm |-> a])
           /\ stopGen' = stopGen + 1
  <2> HIDE DEF a
  <2> QED  BY <1>1, <1>2, GenSendArm
<1>3. CASE stopGen' \in {stopGen, stopGen + 1} /\ stopGen' <= clock /\ c2d' = c2d
  <2>1. \A i : ArmAt(i) => c2d[i].arm.gen \in Nat
    BY DEF ArmAt, CtlMsg, TypeOK, ArmSet
  <2> QED  BY <1>3, <2>1 DEF GenInv, ArmAt, TypeOK, TablesOK
<1>4. stopGen <= clock /\ stopGen \in Nat /\ clock \in Nat
  BY DEF GenInv, TypeOK, TablesOK
<1> QED  BY <1>2, <1>3, <1>4 DEF ArmStop

\* Every action keeps the generations in order.
LEMMA GenStep == TypeOK /\ GenInv /\ [Next]_vars => GenInv'
<1> SUFFICES ASSUME TypeOK, GenInv, [Next]_vars PROVE GenInv'  OBVIOUS
<1> USE DEF ctlVars, devVars
<1>1. ASSUME NEW t \in Turns, NewTurn(t) \/ EndpointAction(t) \/ PopTurn(t) PROVE GenInv'
  BY <1>1, GenFrame DEF NewTurn, EndpointAction, PopTurn, genVars
<1>2. ASSUME NEW t \in Turns, EndpointArm(t) PROVE GenInv'
  BY <1>2, GenArmStop DEF EndpointArm, Phases
<1>3. ASSUME NEW t \in Turns, TtsStart(t) PROVE GenInv'
  BY <1>3, GenArmStop DEF TtsStart, Phases
<1>4. ASSUME NEW t \in Turns, FinishTurn(t) PROVE GenInv'
  <2>1. CASE turnGen[t] # 0 /\ t \in own
    <3>1. [type |-> "stop_disarm", gen |-> turnGen[t]] \in CtlMsg
      BY <2>1 DEF CtlMsg, TypeOK, TablesOK
    <3> QED  BY <1>4, <2>1, <3>1, GenSendOther DEF FinishTurn
  <2>2. CASE ~(turnGen[t] # 0 /\ t \in own)
    BY <1>4, <2>2, GenFrame DEF FinishTurn, genVars
  <2> QED  BY <2>1, <2>2
<1>5. ASSUME NEW t \in Turns, TimerCurrent(t) PROVE GenInv'
  <2> DEFINE a == [turn |-> t, gen |-> stopGen + 1, phase |-> "timer"]
  <2>1. a \in ArmSet /\ a.gen = stopGen + 1  BY DEF ArmSet, TypeOK, TablesOK, Phases
  <2>2. stopGen' = stopGen + 1 /\ stopGen < clock /\ UNCHANGED <<clock, dGen, link>>
    BY <1>5 DEF TimerCurrent
  <2>3. CASE c2d' = c2d
    <3>1. \A i : ArmAt(i) => c2d[i].arm.gen \in Nat
      BY DEF ArmAt, CtlMsg, TypeOK, ArmSet
    <3> QED  BY <2>2, <2>3, <3>1 DEF GenInv, ArmAt, TypeOK, TablesOK
  <2>4. c2d' = c2d \/ SendControl([type |-> "stop_arm", arm |-> a])
    BY <1>5, <2>2 DEF TimerCurrent
  <2> HIDE DEF a
  <2> QED  BY <2>1, <2>2, <2>3, <2>4, GenSendArm
<1>6. ASSUME DisarmTimerStop PROVE GenInv'
  <2>1. CASE arm.turn = timerTurn
    <3>1. arm.gen \in Nat \ {0}
      BY <1>6, <2>1, TurnsAssumption DEF DisarmTimerStop, TypeOK, TablesOK, NoArm, ArmSet
    <3>2. [type |-> "stop_disarm", gen |-> arm.gen] \in CtlMsg  BY <3>1 DEF CtlMsg
    <3> QED  BY <1>6, <2>1, <3>2, GenSendOther DEF DisarmTimerStop
  <2>2. CASE arm.turn # timerTurn
    BY <1>6, <2>2, GenFrame DEF DisarmTimerStop, genVars
  <2> QED  BY <2>1, <2>2
<1>7. ASSUME RecvStopArm PROVE GenInv'
  BY <1>7, GenReceive DEF RecvStopArm
<1>8. ASSUME RecvStopDisarm PROVE GenInv'
  BY <1>8, GenReceive DEF RecvStopDisarm
<1>9. ASSUME Disconnect PROVE GenInv'
  BY <1>9 DEF Disconnect, GenInv, ArmAt
<1>10. ASSUME Connect PROVE GenInv'
  BY <1>10 DEF Connect, GenInv, ArmAt, SeedGeneration, TypeOK, TablesOK
<1>11. ASSUME ControllerRestart PROVE GenInv'
  BY <1>11 DEF ControllerRestart, GenInv, ArmAt
<1>12. ASSUME DeviceRestart PROVE GenInv'
  BY <1>12 DEF DeviceRestart, GenInv, ArmAt, TypeOK, TablesOK
<1>13. ASSUME Tick PROVE GenInv'
  BY <1>13 DEF Tick, GenInv, ArmAt, TypeOK, TablesOK
<1>14. ASSUME RecvStopStatus PROVE GenInv'
  BY <1>14, GenFrame DEF RecvStopStatus, genVars
<1>15. ASSUME RecvStopDetected PROVE GenInv'
  BY <1>15, GenFrame DEF RecvStopDetected, genVars
<1>16. ASSUME ArmExpires PROVE GenInv'
  BY <1>16, GenFrame DEF ArmExpires, genVars
<1>17. ASSUME DeviceExpires PROVE GenInv'
  BY <1>17, GenFrame DEF DeviceExpires, genVars
<1>18. ASSUME StopCrossing PROVE GenInv'
  BY <1>18, GenFrame DEF StopCrossing, genVars
<1>19. ASSUME SendStopDetected PROVE GenInv'
  BY <1>19, GenFrame DEF SendStopDetected, genVars
<1>20. ASSUME ConfigureScorer PROVE GenInv'
  BY <1>20, GenFrame DEF ConfigureScorer, genVars
<1>21. ASSUME ToggleMic PROVE GenInv'
  BY <1>21, GenFrame DEF ToggleMic, genVars
<1>22. ASSUME NoticeDisconnect PROVE GenInv'
  BY <1>22, GenFrame DEF NoticeDisconnect, genVars
<1>23. ASSUME UNCHANGED vars PROVE GenInv'
  BY <1>23, GenFrame DEF vars, genVars
<1> QED
  BY <1>1, <1>2, <1>3, <1>4, <1>5, <1>6, <1>7, <1>8, <1>9, <1>10, <1>11, <1>12, <1>13, <1>14, <1>15, <1>16, <1>17, <1>18, <1>19, <1>20, <1>21, <1>22, <1>23
  DEF Next, TurnNext, DeviceNext

\* For every number of turns and any history of drops and restarts, the device
\* never refuses a fresh stop_arm as stale.
THEOREM FreshArms == Spec => []FreshArmsAccepted
<1>1. Init => GenInv  BY DEF Init, GenInv, ArmAt
<1>2. GenInv => FreshArmsAccepted  BY DEF GenInv, FreshArmsAccepted, ArmAt
<1> QED  BY <1>1, <1>2, GenStep, TypeCorrect, PTL DEF Spec

-----------------------------------------------------------------------------
(* Detections.  What is held, on the wire or accepted was crossed.          *)

CrossInv ==
    /\ \A i \in DOMAIN d2c : d2c[i].type = "stop_detected" => d2c[i].arm \in crossed
    /\ dHeld # NoArm => dHeld \in crossed
    /\ accepts \subseteq crossed

crossVars == <<d2c, dHeld, crossed, accepts>>

\* Steps that touch no detection keep the invariant.
LEMMA CrossFrame == CrossInv /\ UNCHANGED crossVars => CrossInv'
BY DEF CrossInv, crossVars

\* The controller reads the oldest message of the device.
LEMMA CrossRead ==
  ASSUME TypeOK, CrossInv, d2c # <<>>, d2c' = Tail(d2c), UNCHANGED crossed
  PROVE  \A i \in DOMAIN d2c' : d2c'[i].type = "stop_detected" => d2c'[i].arm \in crossed'
<1>1. \A i \in DOMAIN d2c' : i + 1 \in DOMAIN d2c /\ d2c'[i] = d2c[i + 1]
  BY DEF TypeOK
<1> QED  BY <1>1 DEF CrossInv

\* The device sends a message about an arm that was crossed, or another one.
LEMMA CrossSend ==
  ASSUME TypeOK, CrossInv, NEW m \in DevMsg, SendDevice(m), UNCHANGED crossed,
         m.type = "stop_detected" => m.arm \in crossed
  PROVE  \A i \in DOMAIN d2c' : d2c'[i].type = "stop_detected" => d2c'[i].arm \in crossed'
<1>1. CASE link
  <2>1. d2c' = Append(d2c, m) /\ d2c \in Seq(DevMsg)  BY <1>1 DEF SendDevice, TypeOK
  <2>2. \A i \in DOMAIN d2c' : (i \in DOMAIN d2c /\ d2c'[i] = d2c[i]) \/ d2c'[i] = m
    BY <2>1
  <2> QED  BY <2>2 DEF CrossInv
<1>2. CASE ~link  BY <1>2 DEF SendDevice, CrossInv
<1> QED  BY <1>1, <1>2

\* Every action keeps each detection tied to its crossing.
LEMMA CrossStep == TypeOK /\ CrossInv /\ [Next]_vars => CrossInv'
<1> SUFFICES ASSUME TypeOK, CrossInv, [Next]_vars PROVE CrossInv'  OBVIOUS
<1> USE DEF ctlVars, devVars, history
<1>1. ASSUME NEW t \in Turns, NewTurn(t) PROVE CrossInv'
  BY <1>1, CrossFrame DEF NewTurn, crossVars
<1>2. ASSUME NEW t \in Turns, EndpointAction(t) PROVE CrossInv'
  BY <1>2, CrossFrame DEF EndpointAction, crossVars
<1>3. ASSUME NEW t \in Turns, EndpointArm(t) PROVE CrossInv'
  BY <1>3, CrossFrame DEF EndpointArm, crossVars
<1>4. ASSUME NEW t \in Turns, TtsStart(t) PROVE CrossInv'
  BY <1>4, CrossFrame DEF TtsStart, crossVars
<1>5. ASSUME NEW t \in Turns, FinishTurn(t) PROVE CrossInv'
  BY <1>5, CrossFrame DEF FinishTurn, crossVars
<1>6. ASSUME NEW t \in Turns, PopTurn(t) PROVE CrossInv'
  BY <1>6, CrossFrame DEF PopTurn, crossVars
<1>7. ASSUME NEW t \in Turns, TimerCurrent(t) PROVE CrossInv'
  BY <1>7, CrossFrame DEF TimerCurrent, crossVars
<1>8. ASSUME DisarmTimerStop PROVE CrossInv'
  BY <1>8, CrossFrame DEF DisarmTimerStop, crossVars
<1>9. ASSUME ArmExpires PROVE CrossInv'
  BY <1>9, CrossFrame DEF ArmExpires, crossVars
<1>10. ASSUME RecvStopArm PROVE CrossInv'
  BY <1>10, CrossFrame DEF RecvStopArm, crossVars
<1>11. ASSUME RecvStopDisarm PROVE CrossInv'
  BY <1>11, CrossFrame DEF RecvStopDisarm, crossVars
<1>12. ASSUME DeviceExpires PROVE CrossInv'
  BY <1>12, CrossFrame DEF DeviceExpires, crossVars
<1>13. ASSUME ToggleMic PROVE CrossInv'
  BY <1>13, CrossFrame DEF ToggleMic, crossVars
<1>14. ASSUME Disconnect PROVE CrossInv'
  BY <1>14, CrossFrame DEF Disconnect, crossVars
<1>15. ASSUME Tick PROVE CrossInv'
  BY <1>15, CrossFrame DEF Tick, crossVars
<1>16. ASSUME UNCHANGED vars PROVE CrossInv'
  BY <1>16, CrossFrame DEF vars, crossVars
<1>17. ASSUME RecvStopStatus PROVE CrossInv'
  BY <1>17, CrossRead DEF RecvStopStatus, CrossInv
<1>18. ASSUME RecvStopDetected PROVE CrossInv'
  <2>1. Head(d2c).arm \in crossed
    BY <1>18 DEF RecvStopDetected, CrossInv, TypeOK
  <2>2. Accepts(Head(d2c).arm) => arm = Head(d2c).arm
    BY SMTT(30), <1>18, HeadsTyped DEF RecvStopDetected, Accepts, TypeOK, TablesOK, ArmSet, NoArm
  <2>3. accepts' \subseteq crossed'
    BY <1>18, <2>1, <2>2 DEF RecvStopDetected, CrossInv
  <2> QED  BY <1>18, <2>3, CrossRead DEF RecvStopDetected, CrossInv
<1>19. ASSUME StopCrossing PROVE CrossInv'
  BY <1>19 DEF StopCrossing, CrossInv
<1>20. ASSUME SendStopDetected PROVE CrossInv'
  <2>1. [type |-> "stop_detected", arm |-> dHeld] \in DevMsg
    BY <1>20 DEF SendStopDetected, DevMsg, TypeOK, TablesOK
  <2> QED  BY <1>20, <2>1, CrossSend DEF SendStopDetected, CrossInv
<1>21. ASSUME ConfigureScorer PROVE CrossInv'
  <2>1. dScorer' \in BOOLEAN  BY <1>21 DEF ConfigureScorer, TypeOK, FlagsOK
  <2>2. [type |-> "stop_status", ready |-> dScorer'] \in DevMsg  BY <2>1 DEF DevMsg
  <2> QED  BY <1>21, <2>2, CrossSend DEF ConfigureScorer, CrossInv
<1>22. ASSUME NoticeDisconnect PROVE CrossInv'
  BY <1>22 DEF NoticeDisconnect, CrossInv
<1>23. ASSUME Connect PROVE CrossInv'
  BY <1>23 DEF Connect, CrossInv
<1>24. ASSUME ControllerRestart PROVE CrossInv'
  BY <1>24 DEF ControllerRestart, CrossInv
<1>25. ASSUME DeviceRestart PROVE CrossInv'
  BY <1>25 DEF DeviceRestart, CrossInv
<1> QED
  BY <1>1, <1>2, <1>3, <1>4, <1>5, <1>6, <1>7, <1>8, <1>9, <1>10, <1>11, <1>12, <1>13, <1>14, <1>15, <1>16, <1>17, <1>18, <1>19, <1>20, <1>21, <1>22, <1>23, <1>24, <1>25
  DEF Next, TurnNext, DeviceNext

\* Every stop the controller acts on was spoken while exactly that arm - turn,
\* generation and phase - was in force on the device.
THEOREM StopsWereSpoken == Spec => []AcceptedArmWasCrossed
<1>1. Init => CrossInv  BY DEF Init, CrossInv
<1>2. CrossInv => AcceptedArmWasCrossed  BY DEF CrossInv, AcceptedArmWasCrossed
<1> QED  BY <1>1, <1>2, CrossStep, TypeCorrect, PTL DEF Spec

-----------------------------------------------------------------------------
(* Retirement.  A disarmed generation is not taken again: the counter only  *)
(* grows, also across the seeding of a new Device object from the clock.    *)

RetInv ==
    /\ \A g \in retired : g <= stopGen
    /\ \A t \in own : turnGen[t] <= stopGen /\ turnState[t] # "unused"
    /\ \A t \in Turns : turnState[t] = "unused" => turnGen[t] = 0
    /\ arm # NoArm => arm.gen <= stopGen /\ arm.gen \notin retired

retVars == <<stopGen, retired, own, turnGen, turnState, arm>>

\* Steps that touch neither the arm nor a turn's generation keep the invariant.
LEMMA RetFrame == RetInv /\ UNCHANGED retVars => RetInv'
BY DEF RetInv, retVars

\* Arming takes a generation that was never retired.
LEMMA RetArmStop ==
  ASSUME TypeOK, RetInv, NEW t \in Turns, NEW phase \in Phases, ArmStop(t, phase),
         UNCHANGED <<retired, own, turnState>>
  PROVE  RetInv'
<1>1. stopGen \in Nat /\ retired \subseteq Nat /\ turnGen \in [Turns -> Nat] /\ own \subseteq Turns
      /\ (arm # NoArm => arm.gen \in Nat)
  BY DEF TypeOK, TablesOK, ArmSet
<1>2. CASE UNCHANGED <<stopGen, arm, turnGen>>  BY <1>2, RetFrame DEF retVars
<1>3. CASE stopGen' = stopGen + 1 /\ UNCHANGED <<arm, turnGen>>
  BY <1>1, <1>3 DEF RetInv
<1>4. CASE /\ stopGen' = stopGen + 1 /\ t \in own
           /\ arm' = [turn |-> t, gen |-> stopGen + 1, phase |-> phase]
           /\ turnGen' = [turnGen EXCEPT ![t] = stopGen + 1]
  <2>1. \A u \in own' : turnGen'[u] <= stopGen' /\ turnState'[u] # "unused"
    BY <1>1, <1>4 DEF RetInv
  <2>2. \A u \in Turns : turnState'[u] = "unused" => turnGen'[u] = 0
    BY <1>1, <1>4 DEF RetInv
  <2>3. arm'.gen = stopGen' /\ stopGen' \notin retired'  BY <1>1, <1>4 DEF RetInv
  <2> QED  BY <1>1, <1>4, <2>1, <2>2, <2>3 DEF RetInv
<1> QED  BY <1>2, <1>3, <1>4 DEF ArmStop

\* Every action keeps the generation in force apart from the retired ones.
LEMMA RetStep == TypeOK /\ GenInv /\ RetInv /\ [Next]_vars => RetInv'
<1> SUFFICES ASSUME TypeOK, GenInv, RetInv, [Next]_vars PROVE RetInv'  OBVIOUS
<1> USE DEF ctlVars, devVars, history
<1>1. ASSUME NEW t \in Turns, NewTurn(t) PROVE RetInv'
  BY <1>1 DEF NewTurn, RetInv, TypeOK, TablesOK
<1>2. ASSUME NEW t \in Turns, EndpointAction(t) PROVE RetInv'
  BY <1>2, RetFrame DEF EndpointAction, retVars
<1>3. ASSUME NEW t \in Turns, EndpointArm(t) PROVE RetInv'
  BY <1>3, RetArmStop DEF EndpointArm, Phases
<1>4. ASSUME NEW t \in Turns, TtsStart(t) PROVE RetInv'
  BY <1>4, RetArmStop DEF TtsStart, Phases
<1>5. ASSUME NEW t \in Turns, FinishTurn(t) PROVE RetInv'
  <2>1. \A u \in Turns : turnGen'[u] \in {turnGen[u], 0} /\ (turnState'[u] = "unused" => turnState[u] = "unused")
    BY <1>5 DEF FinishTurn, TypeOK, TablesOK
  <2>2. \A u \in own' : turnGen'[u] <= stopGen' /\ turnState'[u] # "unused"
    BY <1>5, <2>1 DEF FinishTurn, RetInv, TypeOK, TablesOK
  <2>3. \A g \in retired' : g <= stopGen'
    BY ZenonT(60), <1>5 DEF FinishTurn, RetInv, TypeOK, TablesOK
  <2>4. arm' # NoArm => arm'.gen <= stopGen' /\ arm'.gen \notin retired'
    BY <1>5 DEF FinishTurn, Disarm, RetInv
  <2> QED  BY <2>1, <2>2, <2>3, <2>4 DEF RetInv
<1>6. ASSUME NEW t \in Turns, PopTurn(t) PROVE RetInv'
  BY <1>6 DEF PopTurn, RetInv, TypeOK, TablesOK
<1>7. ASSUME NEW t \in Turns, TimerCurrent(t) PROVE RetInv'
  <2>1. stopGen \in Nat /\ retired \subseteq Nat /\ own \subseteq Turns
    BY DEF TypeOK, TablesOK
  <2>2. \A g \in retired' : g <= stopGen' /\ g # stopGen'
    BY <1>7, <2>1 DEF TimerCurrent, RetInv
  <2>3. \A u \in Turns : (turnState'[u] = "unused" => turnState[u] = "unused") /\ turnGen'[u] = turnGen[u]
    BY <1>7 DEF TimerCurrent, TypeOK, TablesOK
  <2>4. \A u \in own' : turnGen'[u] <= stopGen' /\ turnState'[u] # "unused"
    BY <1>7, <2>1, <2>3 DEF TimerCurrent, RetInv, TypeOK, TablesOK
  <2>5. arm' # NoArm => arm'.gen <= stopGen' /\ arm'.gen \notin retired'
    <3>1. CASE arm' = arm
      BY <1>7, <2>1, <3>1 DEF TimerCurrent, RetInv, TypeOK, TablesOK, ArmSet
    <3>2. CASE arm' = [turn |-> t, gen |-> stopGen', phase |-> "timer"]
      BY <1>7, <2>1, <2>2, <3>2 DEF TimerCurrent
    <3> QED  BY <1>7, <3>1, <3>2 DEF TimerCurrent
  <2> QED  BY <2>2, <2>3, <2>4, <2>5 DEF RetInv
<1>8. ASSUME DisarmTimerStop PROVE RetInv'
  <2>1. \A u \in Turns : (turnState'[u] = "unused" => turnState[u] = "unused") /\ turnGen'[u] = turnGen[u]
    BY <1>8 DEF DisarmTimerStop, TypeOK, TablesOK
  <2>2. arm.turn = timerTurn => arm # NoArm
    BY <1>8, TurnsAssumption DEF DisarmTimerStop, NoArm
  <2>3. \A g \in retired' : g <= stopGen'  BY <1>8, <2>2 DEF DisarmTimerStop, RetInv
  <2>4. arm' # NoArm => arm'.gen <= stopGen' /\ arm'.gen \notin retired'
    BY <1>8 DEF DisarmTimerStop, Disarm, RetInv
  <2> QED  BY <1>8, <2>1, <2>3, <2>4 DEF DisarmTimerStop, RetInv, TypeOK, TablesOK
<1>9. ASSUME RecvStopDetected PROVE RetInv'
  <2>1. arm' \in {arm, NoArm}  BY <1>9 DEF RecvStopDetected, AfterDetected
  <2>2. \A u \in Turns : turnState'[u] = "unused" => turnState[u] = "unused"
    BY <1>9 DEF RecvStopDetected, TypeOK, TablesOK
  <2> QED  BY <1>9, <2>1, <2>2 DEF RecvStopDetected, RetInv, TypeOK, TablesOK
<1>10. ASSUME Connect PROVE RetInv'
  BY <1>10 DEF Connect, RetInv, GenInv, SeedGeneration, TypeOK, TablesOK
<1>11. ASSUME ControllerRestart PROVE RetInv'
  BY <1>11 DEF ControllerRestart, RetInv, TypeOK, TablesOK
<1>12. CASE RecvStopStatus  BY <1>12, RetFrame DEF RecvStopStatus, retVars
<1>13. CASE ArmExpires  BY <1>13, RetFrame DEF ArmExpires, retVars
<1>14. CASE DeviceNext
  BY <1>14, RetFrame DEF DeviceNext, RecvStopArm, RecvStopDisarm, DeviceExpires, StopCrossing,
     SendStopDetected, ConfigureScorer, ToggleMic, retVars
<1>15. CASE Disconnect \/ NoticeDisconnect \/ DeviceRestart \/ Tick \/ UNCHANGED vars
  BY <1>15, RetFrame DEF Disconnect, NoticeDisconnect, DeviceRestart, Tick, vars, retVars
<1> QED
  BY <1>1, <1>2, <1>3, <1>4, <1>5, <1>6, <1>7, <1>8, <1>9, <1>10, <1>11, <1>12, <1>13, <1>14, <1>15
  DEF Next, TurnNext

\* The invariants of the generations hold together.
LEMMA GenerationsKept == Spec => [](TypeOK /\ GenInv /\ RetInv)
<1>1. Init => GenInv  BY DEF Init, GenInv, ArmAt
<1>2. Init => RetInv  BY DEF Init, RetInv
<1> QED  BY <1>1, <1>2, GenStep, RetStep, TypeCorrect, PTL DEF Spec

\* Whatever is in flight when a turn ends, no stop_detected for a generation the
\* controller has disarmed is accepted any more.
THEOREM DisarmIsFinal == Spec => NoStopAfterDisarm
<1>1. TypeOK /\ RetInv /\ [Next]_vars => [\A a \in accepts' \ accepts : a.gen \notin retired]_vars
  <2> SUFFICES ASSUME TypeOK, RetInv, Next, NEW a \in accepts' \ accepts
               PROVE  a.gen \notin retired
    OBVIOUS
  <2>1. RecvStopDetected
    BY DEF Next, TurnNext, DeviceNext, NewTurn, EndpointAction, EndpointArm, TtsStart, FinishTurn,
       PopTurn, TimerCurrent, DisarmTimerStop, RecvStopStatus, ArmExpires, RecvStopArm,
       RecvStopDisarm, DeviceExpires, StopCrossing, SendStopDetected, ConfigureScorer, ToggleMic,
       Disconnect, NoticeDisconnect, Connect, ControllerRestart, DeviceRestart, Tick, history
  <2>2. a = arm /\ arm.gen # 0  BY <2>1 DEF RecvStopDetected, Accepts
  <2> QED  BY <2>2 DEF RetInv, NoArm
<1> QED  BY <1>1, GenerationsKept, PTL DEF Spec, NoStopAfterDisarm

-----------------------------------------------------------------------------
(* Survival.  NewerArmSurvives needs that the arm in force is the newest on  *)
(* the wire, and that every disarm on the wire is of a retired generation.   *)

SurvInv ==
    /\ NewerArmSurvives
    /\ dArm # NoArm => dArm.gen = dGen
    /\ arm # NoArm => \A i : ArmAt(i) => c2d[i].arm.gen <= arm.gen
    /\ \A i \in DOMAIN c2d : c2d[i].type = "stop_disarm" => c2d[i].gen \in retired

survVars == <<link, arm, c2d, dArm, dGen, crossed, dLost, retired>>

\* Steps that touch neither half of the arm nor the wire keep the invariant.
LEMMA SurvFrame == SurvInv /\ UNCHANGED survVars => SurvInv'
BY DEF SurvInv, survVars, NewerArmSurvives, ArmAt

\* Sending the disarm of a generation that is retired and no longer in force.
LEMMA SurvSendDisarm ==
  ASSUME TypeOK, SurvInv, NEW g \in Nat \ {0},
         SendControl([type |-> "stop_disarm", gen |-> g]), Disarm(g),
         retired' = retired \cup {g}, UNCHANGED <<link, dArm, dGen, crossed, dLost>>
  PROVE  SurvInv'
<1> DEFINE m == [type |-> "stop_disarm", gen |-> g]
<1>1. c2d \in Seq(CtlMsg) /\ m \in CtlMsg  BY DEF TypeOK, CtlMsg
<1>2. c2d' = c2d \/ c2d' = Append(c2d, m)  BY DEF SendControl
<1>3. \A i \in DOMAIN c2d' : (i \in DOMAIN c2d /\ c2d'[i] = c2d[i]) \/ c2d'[i] = m
  BY <1>1, <1>2
<1>4. \A i \in DOMAIN c2d : i \in DOMAIN c2d' /\ c2d'[i] = c2d[i]
  BY <1>1, <1>2
<1>5. arm' \in {arm, NoArm}  BY DEF Disarm
<1>6. \A i : ArmAt(i)' => ArmAt(i) /\ c2d'[i] = c2d[i]  BY <1>3 DEF ArmAt
<1>7. NewerArmSurvives'  BY <1>4, <1>5 DEF SurvInv, NewerArmSurvives
<1>8. \A i \in DOMAIN c2d' : c2d'[i].type = "stop_disarm" => c2d'[i].gen \in retired'
  BY <1>3 DEF SurvInv
<1>9. arm' # NoArm => \A i : ArmAt(i)' => c2d'[i].arm.gen <= arm'.gen
  BY <1>5, <1>6 DEF SurvInv
<1> QED  BY <1>7, <1>8, <1>9 DEF SurvInv

\* Sending the next arm, which is newer than all on the wire.
LEMMA SurvSendArm ==
  ASSUME TypeOK, GenInv, SurvInv, NEW a \in ArmSet, a.gen = stopGen + 1,
         SendControl([type |-> "stop_arm", arm |-> a]), arm' = a,
         UNCHANGED <<link, dArm, dGen, crossed, dLost, retired>>
  PROVE  SurvInv'
<1> DEFINE m == [type |-> "stop_arm", arm |-> a]
<1>1. c2d \in Seq(CtlMsg) /\ m \in CtlMsg /\ stopGen \in Nat
  BY DEF TypeOK, TablesOK, CtlMsg
<1>2. CASE ~link
  <2>1. c2d' = <<>>  BY <1>2 DEF SendControl, GenInv
  <2> QED  BY <1>2, <2>1 DEF SurvInv, NewerArmSurvives, ArmAt
<1>3. CASE link
  <2>1. c2d' = Append(c2d, m)  BY <1>3 DEF SendControl
  <2>2. \A i \in DOMAIN c2d' : (i \in DOMAIN c2d /\ c2d'[i] = c2d[i]) \/ c2d'[i] = m
    BY <1>1, <2>1
  <2>3. Len(c2d) + 1 \in DOMAIN c2d' /\ c2d'[Len(c2d) + 1] = m  BY <1>1, <2>1
  <2>4. NewerArmSurvives'  BY <2>3 DEF NewerArmSurvives
  <2>5. \A i : ArmAt(i) => c2d[i].arm.gen \in Nat /\ c2d[i].arm.gen <= stopGen
    BY DEF GenInv, ArmAt, TypeOK, CtlMsg, ArmSet
  <2>6. \A i : ArmAt(i)' => c2d'[i].arm.gen <= a.gen
    BY <1>1, <2>2, <2>5 DEF ArmAt
  <2>7. \A i \in DOMAIN c2d' : c2d'[i].type = "stop_disarm" => c2d'[i].gen \in retired'
    BY <2>2 DEF SurvInv
  <2> QED  BY <2>4, <2>6, <2>7 DEF SurvInv
<1> QED  BY <1>2, <1>3

\* The device reads the oldest message.
LEMMA SurvReceive ==
  ASSUME TypeOK, SurvInv, c2d # <<>>, c2d' = Tail(c2d), UNCHANGED <<link, arm, retired>>
  PROVE  /\ \A i \in DOMAIN c2d : i # 1 => i - 1 \in DOMAIN c2d' /\ c2d'[i - 1] = c2d[i]
         /\ arm' # NoArm => \A i : ArmAt(i)' => c2d'[i].arm.gen <= arm'.gen
         /\ \A i \in DOMAIN c2d' : c2d'[i].type = "stop_disarm" => c2d'[i].gen \in retired'
<1>1. \A i \in DOMAIN c2d' : i + 1 \in DOMAIN c2d /\ c2d'[i] = c2d[i + 1]
  BY DEF TypeOK
<1>2. \A i \in DOMAIN c2d : i # 1 => i - 1 \in DOMAIN c2d' /\ c2d'[i - 1] = c2d[i]
  BY DEF TypeOK
<1> QED  BY <1>1, <1>2 DEF SurvInv, ArmAt

LEMMA SurvArmStop ==
  ASSUME TypeOK, GenInv, SurvInv, NEW t \in Turns, NEW phase \in Phases, ArmStop(t, phase),
         UNCHANGED <<link, dArm, dGen, crossed, dLost, retired>>
  PROVE  SurvInv'
<1> DEFINE a == [turn |-> t, gen |-> stopGen + 1, phase |-> phase]
<1>1. a \in ArmSet /\ a.gen = stopGen + 1  BY DEF ArmSet, TypeOK, TablesOK
<1>2. CASE SendControl([type |-> "stop_arm", arm |-> a]) /\ arm' = a
  <2> HIDE DEF a
  <2> QED  BY <1>1, <1>2, SurvSendArm
<1>3. CASE UNCHANGED <<arm, c2d>>  BY <1>3, SurvFrame DEF survVars
<1> QED  BY <1>2, <1>3 DEF ArmStop

\* Every action keeps the newest arm in force, on its way, or accounted for.
LEMMA SurvStep == TypeOK /\ GenInv /\ RetInv /\ SurvInv /\ [Next]_vars => SurvInv'
<1> SUFFICES ASSUME TypeOK, GenInv, RetInv, SurvInv, [Next]_vars PROVE SurvInv'  OBVIOUS
<1> USE DEF ctlVars, devVars, history
<1>1. ASSUME NEW t \in Turns, NewTurn(t) \/ EndpointAction(t) \/ PopTurn(t) PROVE SurvInv'
  BY <1>1, SurvFrame DEF NewTurn, EndpointAction, PopTurn, survVars
<1>2. ASSUME NEW t \in Turns, EndpointArm(t) PROVE SurvInv'
  BY <1>2, SurvArmStop DEF EndpointArm, Phases
<1>3. ASSUME NEW t \in Turns, TtsStart(t) PROVE SurvInv'
  BY <1>3, SurvArmStop DEF TtsStart, Phases
<1>4. ASSUME NEW t \in Turns, FinishTurn(t) PROVE SurvInv'
  <2>1. CASE turnGen[t] # 0 /\ t \in own
    <3>1. turnGen[t] \in Nat \ {0}  BY <2>1 DEF TypeOK, TablesOK
    <3> QED  BY <1>4, <2>1, <3>1, SurvSendDisarm DEF FinishTurn
  <2>2. CASE ~(turnGen[t] # 0 /\ t \in own)
    BY <1>4, <2>2, SurvFrame DEF FinishTurn, survVars
  <2> QED  BY <2>1, <2>2
<1>5. ASSUME NEW t \in Turns, TimerCurrent(t) PROVE SurvInv'
  <2> DEFINE a == [turn |-> t, gen |-> stopGen + 1, phase |-> "timer"]
  <2>1. a \in ArmSet /\ a.gen = stopGen + 1  BY DEF ArmSet, TypeOK, TablesOK, Phases
  <2>2. CASE SendControl([type |-> "stop_arm", arm |-> a]) /\ arm' = a
    <3>1. UNCHANGED <<link, dArm, dGen, crossed, dLost, retired>>  BY <1>5 DEF TimerCurrent
    <3> HIDE DEF a
    <3> QED  BY <2>1, <2>2, <3>1, SurvSendArm
  <2>3. CASE UNCHANGED <<arm, c2d>>
    BY <1>5, <2>3, SurvFrame DEF TimerCurrent, survVars
  <2> QED  BY <1>5, <2>2, <2>3 DEF TimerCurrent
<1>6. ASSUME DisarmTimerStop PROVE SurvInv'
  <2>1. CASE arm.turn = timerTurn
    <3>1. arm.gen \in Nat \ {0}
      BY <1>6, <2>1, TurnsAssumption DEF DisarmTimerStop, TypeOK, TablesOK, NoArm, ArmSet
    <3> QED  BY <1>6, <2>1, <3>1, SurvSendDisarm DEF DisarmTimerStop
  <2>2. CASE arm.turn # timerTurn
    BY <1>6, <2>2, SurvFrame DEF DisarmTimerStop, survVars
  <2> QED  BY <2>1, <2>2
<1>7. ASSUME RecvStopDetected PROVE SurvInv'
  <2>1. arm' \in {arm, NoArm}  BY <1>7 DEF RecvStopDetected, AfterDetected
  <2> QED  BY <1>7, <2>1 DEF RecvStopDetected, SurvInv, NewerArmSurvives, ArmAt
<1>8. ASSUME RecvStopArm PROVE SurvInv'
  <2> DEFINE a == Head(c2d).arm
  <2>1. link /\ c2d # <<>> /\ c2d' = Tail(c2d) /\ UNCHANGED <<link, arm, retired, crossed>>
    BY <1>8 DEF RecvStopArm
  <2>2. ArmAt(1) /\ c2d[1].arm = a  BY <1>8 DEF RecvStopArm, ArmAt, TypeOK
  <2>3. a \in ArmSet  BY <1>8, HeadsTyped DEF RecvStopArm
  <2>4. \/ dArm' = a /\ dGen' = a.gen /\ dLost' = dLost
        \/ dArm' = dArm /\ dGen' = dGen /\ dLost' = dLost \cup {a.gen}
    BY <1>8 DEF RecvStopArm
  <2>5. dArm' # NoArm => dArm'.gen = dGen'  BY <2>4 DEF SurvInv
  <2>6. NewerArmSurvives'
    <3> SUFFICES ASSUME arm # NoArm
                 PROVE  \/ \E i \in DOMAIN c2d' : c2d'[i].type = "stop_arm" /\ c2d'[i].arm = arm
                        \/ dArm' = arm \/ arm \in crossed' \/ arm.gen \in dLost'
      BY <2>1 DEF NewerArmSurvives
    <3>1. CASE arm = a  BY <2>4, <3>1
    <3>2. CASE \E i \in DOMAIN c2d : c2d[i].type = "stop_arm" /\ c2d[i].arm = arm /\ i # 1
      BY <2>1, <3>2, SurvReceive
    <3>3. CASE dArm = arm
      <4>1. dGen = arm.gen  BY <3>3 DEF SurvInv
      <4>2. a.gen > dGen /\ a.gen <= arm.gen  BY <2>2 DEF SurvInv, GenInv
      <4>3. a.gen \in Nat /\ dGen \in Nat  BY <2>3 DEF TypeOK, TablesOK, ArmSet
      <4> QED  BY <4>1, <4>2, <4>3
    <3>4. CASE arm \in crossed \/ arm.gen \in dLost  BY <2>1, <2>4, <3>4
    <3> QED  BY <2>1, <2>2, <3>1, <3>2, <3>3, <3>4 DEF SurvInv, NewerArmSurvives
  <2> QED  BY <2>1, <2>5, <2>6, SurvReceive DEF SurvInv
<1>9. ASSUME RecvStopDisarm PROVE SurvInv'
  <2>1. link /\ c2d # <<>> /\ c2d' = Tail(c2d) /\ UNCHANGED <<link, arm, retired, crossed, dGen, dLost>>
    BY <1>9 DEF RecvStopDisarm
  <2>2. 1 \in DOMAIN c2d /\ c2d[1] = Head(c2d) /\ c2d[1].type = "stop_disarm"
    BY <1>9 DEF RecvStopDisarm, TypeOK
  <2>3. c2d[1].gen \in retired  BY <2>2 DEF SurvInv
  <2>4. dArm' = dArm \/ (dArm' = NoArm /\ dArm.gen \in retired)
    BY <1>9, <2>2, <2>3 DEF RecvStopDisarm, ManagerDisarm
  <2>5. NewerArmSurvives'
    <3> SUFFICES ASSUME arm # NoArm
                 PROVE  \/ \E i \in DOMAIN c2d' : c2d'[i].type = "stop_arm" /\ c2d'[i].arm = arm
                        \/ dArm' = arm \/ arm \in crossed' \/ arm.gen \in dLost'
      BY <2>1 DEF NewerArmSurvives
    <3>1. CASE \E i \in DOMAIN c2d : c2d[i].type = "stop_arm" /\ c2d[i].arm = arm
      BY <2>1, <2>2, <3>1, SurvReceive
    <3>2. CASE dArm = arm  BY <2>4, <3>2 DEF RetInv
    <3>3. CASE arm \in crossed \/ arm.gen \in dLost  BY <2>1, <3>3
    <3> QED  BY <2>1, <3>1, <3>2, <3>3 DEF SurvInv, NewerArmSurvives
  <2>6. dArm' # NoArm => dArm'.gen = dGen'  BY <2>1, <2>4 DEF SurvInv
  <2> QED  BY <2>1, <2>5, <2>6, SurvReceive DEF SurvInv
<1>10. ASSUME DeviceExpires PROVE SurvInv'
  BY <1>10 DEF DeviceExpires, SurvInv, NewerArmSurvives, ArmAt
<1>11. ASSUME StopCrossing PROVE SurvInv'
  BY <1>11 DEF StopCrossing, SurvInv, NewerArmSurvives, ArmAt
<1>12. ASSUME Connect PROVE SurvInv'
  BY <1>12 DEF Connect, SurvInv, NewerArmSurvives, ArmAt
<1>13. ASSUME Disconnect PROVE SurvInv'
  BY <1>13 DEF Disconnect, SurvInv, NewerArmSurvives, ArmAt
<1>14. ASSUME ControllerRestart PROVE SurvInv'
  BY <1>14 DEF ControllerRestart, SurvInv, NewerArmSurvives, ArmAt
<1>15. ASSUME DeviceRestart PROVE SurvInv'
  BY <1>15 DEF DeviceRestart, SurvInv, NewerArmSurvives, ArmAt
<1>16. CASE RecvStopStatus \/ ArmExpires \/ NoticeDisconnect \/ Tick \/ UNCHANGED vars
  BY <1>16, SurvFrame DEF RecvStopStatus, ArmExpires, NoticeDisconnect, Tick, vars, survVars
<1>17. CASE SendStopDetected \/ ConfigureScorer \/ ToggleMic
  BY <1>17, SurvFrame DEF SendStopDetected, ConfigureScorer, ToggleMic, survVars
<1> QED
  BY <1>1, <1>2, <1>3, <1>4, <1>5, <1>6, <1>7, <1>8, <1>9, <1>10, <1>11, <1>12, <1>13, <1>14, <1>15, <1>16, <1>17
  DEF Next, TurnNext, DeviceNext

\* On a link that stays up, no disarm of an older turn and no reordering of the two
\* sides' clocks takes the protection of the newest arm away.
THEOREM ArmsSurvive == Spec => []NewerArmSurvives
<1>1. Init => SurvInv  BY DEF Init, SurvInv, NewerArmSurvives, ArmAt
<1>2. SurvInv => NewerArmSurvives  BY DEF SurvInv
<1> QED  BY <1>1, <1>2, SurvStep, GenerationsKept, PTL DEF Spec

=============================================================================
