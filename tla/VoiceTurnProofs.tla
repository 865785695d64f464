-------------------------- MODULE VoiceTurnProofs --------------------------
(***************************************************************************)
(* Theorems about VoiceTurn, for any number of requests, continuations and *)
(* changes of the environment: one conversation at a time, one answer for  *)
(* each request, and mute during a turn some request asked for.            *)
(***************************************************************************)
EXTENDS VoiceTurn, TLAPS

USE NoneAssumption, BoundsAssumption

-----------------------------------------------------------------------------
(* Type correctness.                                                       *)

\* TypeOK in two parts, which the provers take one at a time.
FlagsOK ==
    /\ {conn, muted, ready, bargeIn, paused, cancelEvent, bargeDetected} \subseteq BOOLEAN
    /\ {cont, tReg, tStarted, tCancelled, tOffered, strayFirst, annFirst} \subseteq BOOLEAN

ShapesOK ==
    /\ {wakeReq, admTask, holder, bargeReq, loopReq} \subseteq Req \cup {None}
    /\ pc \in [Req -> Points]
    /\ kind \in [Req -> {"wake", "button"}]
    /\ ctl \in {"idle", "cancel", "closing"}
    /\ conts \in Nat
    /\ tHacs \in {"none", "accepted", "ready", "rejected"}
    /\ ann \in {"none", "live", "cancelled", "gone"}
    /\ stray \in {"none", "live", "cancelled"}
    /\ gaveUp \in SUBSET Req
    /\ changes \in Nat
    /\ answers \in [Req -> Nat]

LEMMA TypeSplit ==
    /\ TypeOK <=> FlagsOK /\ ShapesOK
    /\ TypeOK' <=> FlagsOK' /\ ShapesOK'
BY DEF TypeOK, FlagsOK, ShapesOK

\* The device's messages keep the types.
LEMMA RequestTypes ==
    ASSUME TypeOK, NEW r \in Req,
           \/ WakeRequest(r) \/ WakeRefused(r) \/ ButtonTurn(r) \/ ButtonDuringTurn(r)
           \/ ButtonRefused(r) \/ GiveUp(r)
    PROVE  TypeOK'
<1>. USE DEF Points, LoopPoints, AbortPoints, strayVars, Go, Answer, Sends, devVars, bargeVars, loopVars,
         taskVars, turnVars, annVars, envVars
<1>1. CASE WakeRequest(r)  BY <1>1 DEF TypeOK, WakeRequest
<1>2. CASE WakeRefused(r)  BY <1>2 DEF TypeOK, WakeRefused
<1>3. CASE ButtonTurn(r)
  <2>1. FlagsOK'  BY <1>3 DEF ButtonTurn, FlagsOK, TypeOK
  <2>2. ShapesOK'  BY <1>3 DEF ButtonTurn, ShapesOK, TypeOK
  <2>. QED  BY <2>1, <2>2, TypeSplit
<1>4. CASE ButtonDuringTurn(r)  BY <1>4 DEF TypeOK, ButtonDuringTurn
<1>5. CASE ButtonRefused(r)  BY <1>5 DEF TypeOK, ButtonRefused
<1>6. CASE GiveUp(r)  BY <1>6 DEF TypeOK, GiveUp
<1>. QED  BY <1>1, <1>2, <1>3, <1>4, <1>5, <1>6

\* So do mute, readiness, the disconnect, Home Assistant and the announcement.
LEMMA WorldTypes ==
    ASSUME TypeOK,
           \/ \E m \in BOOLEAN : MuteState(m)
           \/ ReadyChange \/ DeviceStarted \/ Disconnect \/ Unregister \/ HacsCancel
           \/ \E a \in {"accepted", "ready", "rejected"} : HacsAnswer(a)
           \/ Announce \/ AnnouncePlay \/ AnnounceEnd \/ ButtonCancel
    PROVE  TypeOK'
<1>. USE DEF Points, LoopPoints, AbortPoints, strayVars, Go, Change, CancelAll, devVars, bargeVars,
         loopVars, taskVars, turnVars, annVars, envVars
<1>1. CASE \E m \in BOOLEAN : MuteState(m)
  <2>1. FlagsOK'
    <3>1. tCancelled' \in BOOLEAN
      <4>1. tCancelled' = tCancelled \/ tCancelled' = (tCancelled \/ tReg)
        BY <1>1, Zenon DEF MuteState
      <4>. QED  BY <4>1, Zenon DEF TypeOK
    <3>2. /\ muted' \in BOOLEAN /\ cancelEvent' \in {cancelEvent, TRUE}
          /\ UNCHANGED <<conn, ready, bargeIn, paused, bargeDetected, cont, tReg,
                         tStarted, tOffered, strayFirst, annFirst>>
      BY <1>1 DEF MuteState
    <3>. QED  BY ZenonT(60), <3>1, <3>2 DEF FlagsOK, TypeOK
  <2>2. ShapesOK'  BY <1>1 DEF MuteState, ShapesOK, TypeOK
  <2>. QED  BY <2>1, <2>2, TypeSplit
<1>2. CASE ReadyChange  BY <1>2 DEF TypeOK, ReadyChange
<1>3. CASE DeviceStarted  BY <1>3 DEF TypeOK, DeviceStarted
<1>4. CASE Disconnect  BY <1>4 DEF TypeOK, Disconnect
<1>5. CASE Unregister
  <2>1. FlagsOK'  BY <1>5 DEF Unregister, FlagsOK, TypeOK
  <2>2. ShapesOK'  BY <1>5 DEF Unregister, ShapesOK, TypeOK
  <2>. QED  BY <2>1, <2>2, TypeSplit
<1>6. CASE HacsCancel
  <2>1. FlagsOK'
    <3>1. tCancelled' \in BOOLEAN
      <4>1. tCancelled' = tCancelled \/ tCancelled' = TRUE  BY <1>6 DEF HacsCancel
      <4>. QED  BY <4>1, Zenon DEF TypeOK
    <3>2. UNCHANGED <<conn, muted, ready, bargeIn, paused, cancelEvent, bargeDetected, cont,
                      tReg, tStarted, tOffered, strayFirst, annFirst>>
      BY <1>6 DEF HacsCancel
    <3>. QED  BY ZenonT(60), <3>1, <3>2 DEF FlagsOK, TypeOK
  <2>2. ShapesOK'  BY <1>6 DEF HacsCancel, ShapesOK, TypeOK
  <2>. QED  BY <2>1, <2>2, TypeSplit
<1>7. CASE \E a \in {"accepted", "ready", "rejected"} : HacsAnswer(a)  BY <1>7 DEF TypeOK, HacsAnswer
<1>8. CASE Announce  BY <1>8 DEF TypeOK, Announce
<1>9. CASE AnnouncePlay
  <2>1. FlagsOK'  BY <1>9 DEF AnnouncePlay, FlagsOK, TypeOK
  <2>2. ShapesOK'  BY <1>9 DEF AnnouncePlay, ShapesOK, TypeOK
  <2>. QED  BY <2>1, <2>2, TypeSplit
<1>10. CASE AnnounceEnd  BY <1>10 DEF TypeOK, AnnounceEnd
<1>11. CASE ButtonCancel  BY <1>11 DEF TypeOK, ButtonCancel
<1>. QED  BY <1>1, <1>2, <1>3, <1>4, <1>5, <1>6, <1>7, <1>8, <1>9, <1>10, <1>11

\* The admission task keeps the types.
LEMMA AdmissionTypes ==
    ASSUME TypeOK, NEW r \in Req,
           \/ AdmissionDenied(r) \/ ArbitrationLost(r) \/ DenyDone(r) \/ AdmitWake(r)
           \/ StartButtonTurn(r) \/ Barge(r) \/ BargeRefused(r) \/ BargeAdmitted(r)
           \/ ClearWakeTask(r)
    PROVE  TypeOK'
<1>. USE DEF Points, LoopPoints, AbortPoints, strayVars, Go, Answer, Deny, devVars, bargeVars, loopVars,
         taskVars, turnVars, annVars, envVars
<1>1. CASE AdmissionDenied(r)  BY <1>1 DEF TypeOK, AdmissionDenied
<1>2. CASE ArbitrationLost(r)  BY <1>2 DEF TypeOK, ArbitrationLost
<1>3. CASE DenyDone(r)  BY <1>3 DEF TypeOK, DenyDone
<1>4. CASE AdmitWake(r)  BY <1>4 DEF TypeOK, AdmitWake
<1>5. CASE StartButtonTurn(r)  BY <1>5 DEF TypeOK, StartButtonTurn
<1>6. CASE Barge(r)  BY <1>6 DEF TypeOK, Barge
<1>7. CASE BargeRefused(r)  BY <1>7 DEF TypeOK, BargeRefused
<1>8. CASE BargeAdmitted(r)  BY <1>8 DEF TypeOK, BargeAdmitted
<1>9. CASE ClearWakeTask(r)  BY <1>9 DEF TypeOK, ClearWakeTask
<1>. QED  BY <1>1, <1>2, <1>3, <1>4, <1>5, <1>6, <1>7, <1>8, <1>9

\* The conversation loop keeps the types.
LEMMA LoopTypes ==
    ASSUME TypeOK, NEW r \in Req,
           \/ CreateTurn(r) \/ Offered(r) \/ Grant(r) \/ DenyTurn(r) \/ FinishUnstarted(r) \/ Started(r)
           \/ Respond(r) \/ RunDone(r) \/ TurnReturns(r) \/ LoopBarge(r) \/ LoopContinue(r)
           \/ LoopEnd(r) \/ TaskTail(r) \/ Abort(r) \/ Unwind(r)
    PROVE  TypeOK'
<1>. USE DEF Points, LoopPoints, AbortPoints, strayVars, Go, Answer, devVars, bargeVars, loopVars,
         taskVars, turnVars, annVars, envVars
<1>1. CASE CreateTurn(r)
  <2>1. FlagsOK'
    <3>1. annFirst' \in BOOLEAN
      <4>1. annFirst' = (ann \in {"live", "cancelled"})  BY <1>1, Zenon DEF CreateTurn
      <4>2. (ann \in {"live", "cancelled"}) \in BOOLEAN  OBVIOUS
      <4>. HIDE <1>1
      <4>. QED  BY <4>1, <4>2, Zenon
    <3>2. /\ {tReg', tStarted', tCancelled', tOffered'} \subseteq BOOLEAN
          /\ UNCHANGED <<conn, muted, ready, bargeIn, paused, cancelEvent, bargeDetected,
                         cont, strayFirst>>
      BY <1>1 DEF CreateTurn
    <3>. QED  BY <3>1, <3>2 DEF FlagsOK, TypeOK
  <2>2. ShapesOK'  BY <1>1 DEF CreateTurn, ShapesOK, TypeOK
  <2>. QED  BY <2>1, <2>2, TypeSplit
<1>2. CASE Grant(r) \/ DenyTurn(r)  BY <1>2 DEF TypeOK, Grant, DenyTurn
<1>3. CASE FinishUnstarted(r)  BY <1>3 DEF TypeOK, FinishUnstarted
<1>4. CASE Started(r)  BY <1>4 DEF TypeOK, Started
<1>5. CASE Respond(r)  BY <1>5 DEF TypeOK, Respond
<1>6. CASE RunDone(r)  BY <1>6 DEF TypeOK, RunDone
<1>7. CASE TurnReturns(r)
  <2>1. FlagsOK'  BY ZenonT(60), <1>7 DEF TurnReturns, FlagsOK, TypeOK
  <2>2. ShapesOK'  BY <1>7 DEF TurnReturns, ShapesOK, TypeOK
  <2>. QED  BY <2>1, <2>2, TypeSplit
<1>8. CASE LoopBarge(r)
  <2>1. FlagsOK'  BY <1>8 DEF LoopBarge, FlagsOK, TypeOK
  <2>2. ShapesOK'  BY <1>8 DEF LoopBarge, ShapesOK, TypeOK
  <2>. QED  BY <2>1, <2>2, TypeSplit
<1>9. CASE LoopContinue(r)  BY <1>9 DEF TypeOK, LoopContinue
<1>10. CASE LoopEnd(r)
  <2>1. FlagsOK'  BY ZenonT(60), <1>10 DEF LoopEnd, FlagsOK, TypeOK
  <2>2. ShapesOK'  BY <1>10 DEF LoopEnd, ShapesOK, TypeOK
  <2>. QED  BY <2>1, <2>2, TypeSplit
<1>11. CASE TaskTail(r)
  <2>1. FlagsOK'  BY ZenonT(60), <1>11 DEF TaskTail, FlagsOK, TypeOK
  <2>2. ShapesOK'  BY <1>11 DEF TaskTail, ShapesOK, TypeOK
  <2>. QED  BY <2>1, <2>2, TypeSplit
<1>12. CASE Abort(r)  BY <1>12 DEF TypeOK, Abort
<1>13. CASE Unwind(r)
  <2>1. FlagsOK'  BY ZenonT(60), <1>13 DEF Unwind, FlagsOK, TypeOK
  <2>2. ShapesOK'  BY <1>13 DEF Unwind, ShapesOK, TypeOK
  <2>. QED  BY <2>1, <2>2, TypeSplit
<1>14. CASE Offered(r)
  <2>1. FlagsOK'  BY <1>14 DEF Offered, FlagsOK, TypeOK
  <2>2. ShapesOK'  BY <1>14 DEF Offered, ShapesOK, TypeOK
  <2>. QED  BY <2>1, <2>2, TypeSplit
<1>. QED
  BY <1>1, <1>2, <1>3, <1>4, <1>5, <1>6, <1>7, <1>8, <1>9, <1>10, <1>11, <1>12, <1>13, <1>14

\* So does a push that raises.
LEMMA FailureTypes ==
    ASSUME TypeOK, NEW r \in Req, Fails(r)
    PROVE  TypeOK'
<1>. USE DEF Points, LoopPoints, AbortPoints, Go, Change, devVars, bargeVars, loopVars,
         taskVars, strayVars, turnVars, annVars, envVars
<1>1. CASE OfferFails(r) \/ UnwindFails(r)
  <2>1. FlagsOK'
    <3>1. strayFirst' \in BOOLEAN
      <4>1. strayFirst' = ~annFirst  BY <1>1, Zenon DEF OfferFails, UnwindFails, Astray
      <4>2. annFirst \in BOOLEAN  BY DEF TypeOK
      <4>. HIDE <1>1
      <4>. QED  BY <4>1, <4>2, Zenon
    <3>2. /\ tReg' = FALSE
          /\ UNCHANGED <<conn, muted, ready, bargeIn, paused, cancelEvent, bargeDetected,
                         cont, tStarted, tCancelled, tOffered, annFirst>>
      BY <1>1 DEF OfferFails, UnwindFails, Astray
    <3>. QED  BY <3>1, <3>2 DEF FlagsOK, TypeOK
  <2>2. ShapesOK'  BY <1>1 DEF OfferFails, UnwindFails, Astray, ShapesOK, TypeOK
  <2>. QED  BY <2>1, <2>2, TypeSplit
<1>2. CASE LoopFails(r) \/ BargeFails(r)
  <2>1. FlagsOK'
    <3>1. tReg' \in BOOLEAN
      <4>1. tReg' = tReg \/ tReg' = FALSE  BY <1>2 DEF LoopFails, BargeFails
      <4>. QED  BY <4>1, Zenon DEF TypeOK
    <3>2. UNCHANGED <<conn, muted, ready, bargeIn, paused, cancelEvent, bargeDetected, cont,
                      tStarted, tCancelled, tOffered, strayFirst, annFirst>>
      BY <1>2 DEF LoopFails, BargeFails
    <3>. QED  BY ZenonT(60), <3>1, <3>2 DEF FlagsOK, TypeOK
  <2>2. ShapesOK'  BY <1>2 DEF LoopFails, BargeFails, ShapesOK, TypeOK
  <2>. QED  BY <2>1, <2>2, TypeSplit
<1>. QED  BY <1>1, <1>2 DEF Fails

LEMMA TypeInit == Init => TypeOK
<1>1. Init => FlagsOK  BY DEF Init, FlagsOK
<1>2. Init => ShapesOK  BY DEF Init, ShapesOK, Points
<1>. QED  BY <1>1, <1>2, TypeSplit

\* Every action keeps the types.
LEMMA TypeStep == TypeOK /\ [Next]_vars => TypeOK'
<1>. SUFFICES ASSUME TypeOK, [Next]_vars PROVE TypeOK'
  OBVIOUS
<1>1. CASE UNCHANGED vars
  BY <1>1 DEF TypeOK, vars, devVars, bargeVars, loopVars, taskVars, strayVars, turnVars, annVars,
     envVars
<1>2. CASE Next
  <2>1. CASE \E r \in Req : \/ WakeRequest(r) \/ WakeRefused(r) \/ ButtonTurn(r)
                            \/ ButtonDuringTurn(r) \/ ButtonRefused(r) \/ GiveUp(r)
    BY <2>1, RequestTypes
  <2>2. CASE \E r \in Req : Task(r)
    BY <2>2, AdmissionTypes, LoopTypes DEF Task
  <2>. QED  BY <1>2, <2>1, <2>2, WorldTypes, FailureTypes, Zenon DEF Next, Environment
<1>. QED  BY <1>1, <1>2

\* The Device object, the tasks and the turns of ENGINE.turns have the shapes
\* the code gives them.
THEOREM VoiceTurnTypes == Spec => []TypeOK
BY TypeInit, TypeStep, PTL DEF Spec

-----------------------------------------------------------------------------
(* One conversation at a time.                                             *)

Inside == LoopPoints \cup AbortPoints

\* The turn is registered between create_turn and the pop, and a task is cancelled
\* in the loop only by the disconnect, after which no second one comes.
LockInv ==
    /\ OneConversation
    /\ \A r \in Req : pc[r] \in {"create", "cleanup", "unwound"} => ~tReg
    /\ \A r \in Req :
          pc[r] \in {"push", "offer", "denyturn", "start", "unstarted", "listen", "play", "persist"}
              => tReg
    /\ \A r \in Req : pc[r] \in {"abort", "unwinding"} => ctl = "closing"

\* Steps that move no task, take no lock and register no turn.
LEMMA LockFrame ==
    ASSUME LockInv, UNCHANGED <<pc, holder, tReg>>, ctl = "closing" => ctl' = "closing"
    PROVE  LockInv'
BY DEF LockInv, OneConversation, Locked

\* A task moves outside the loop.
LEMMA LockOutside ==
    ASSUME TypeOK, LockInv, NEW r \in Req, NEW p, pc[r] \notin Inside, p \notin Inside, Go(r, p),
           UNCHANGED <<holder, tReg>>, ctl = "closing" => ctl' = "closing"
    PROVE  LockInv'
BY DEF TypeOK, LockInv, OneConversation, Locked, Go, Inside, LoopPoints, AbortPoints

\* A task takes the free lock.
LEMMA LockEnter ==
    ASSUME TypeOK, LockInv, NEW r \in Req, ~Locked, holder' = r, Go(r, "create"),
           UNCHANGED <<tReg, ctl>>
    PROVE  LockInv'
BY DEF TypeOK, LockInv, OneConversation, Locked, Go, Inside, LoopPoints, AbortPoints

\* The holder moves inside the loop.
LEMMA LockInside ==
    ASSUME TypeOK, LockInv, NEW r \in Req, NEW p \in Inside, pc[r] \in Inside, Go(r, p),
           UNCHANGED holder, p \in {"create", "cleanup", "unwound"} => ~tReg',
           p \in LoopPoints \ {"create", "cleanup"} => tReg',
           p \in {"abort", "unwinding"} => ctl' = "closing", ctl = "closing" => ctl' = "closing"
    PROVE  LockInv'
<1>1. holder = r  BY DEF LockInv, OneConversation, Inside
<1>2. \A q \in Req \ {r} : pc[q] \notin Inside  BY <1>1 DEF LockInv, OneConversation, Inside
<1>3. pc'[r] = p /\ \A q \in Req \ {r} : pc'[q] = pc[q]  BY DEF Go, TypeOK
<1>4. Locked'  BY <1>1 DEF Locked
<1>5. OneConversation'
  BY <1>1, <1>2, <1>3, <1>4 DEF OneConversation, Inside
<1>. QED  BY <1>2, <1>3, <1>5 DEF LockInv, Inside, LoopPoints, AbortPoints

\* The holder leaves the loop.
LEMMA LockLeave ==
    ASSUME TypeOK, LockInv, NEW r \in Req, pc[r] \in {"cleanup", "unwound"}, holder' = None,
           Go(r, "tail"), UNCHANGED <<tReg, ctl>>
    PROVE  LockInv'
BY DEF TypeOK, LockInv, OneConversation, Locked, Go, Inside, LoopPoints, AbortPoints

LEMMA LockInit == Init => LockInv
BY DEF Init, LockInv, OneConversation, Locked, LoopPoints, AbortPoints

\* Every action keeps the lock's invariant.
LEMMA LockStep == TypeOK /\ LockInv /\ [Next]_vars => LockInv'
<1>. SUFFICES ASSUME TypeOK, LockInv, [Next]_vars PROVE LockInv'
  OBVIOUS
<1>. USE DEF devVars, bargeVars, loopVars, taskVars, strayVars, turnVars, annVars, envVars
<1>1. CASE UNCHANGED vars
  BY <1>1, LockFrame DEF vars
<1>2. ASSUME NEW r \in Req,
             \/ WakeRequest(r) \/ WakeRefused(r) \/ ButtonTurn(r) \/ ButtonDuringTurn(r)
             \/ ButtonRefused(r) \/ GiveUp(r)
      PROVE  LockInv'
  <2>1. CASE GiveUp(r)  BY <2>1, LockFrame DEF GiveUp
  <2>2. CASE ~GiveUp(r)
    <3>1. /\ pc[r] = "new" /\ \E p \in {"entry", "done", "button"} : Go(r, p)
          /\ UNCHANGED <<holder, tReg>> /\ ctl = "idle"
      BY <1>2, <2>2 DEF WakeRequest, WakeRefused, ButtonTurn, ButtonDuringTurn, ButtonRefused, Sends
    <3>. QED  BY <3>1, LockOutside DEF Inside, LoopPoints, AbortPoints
  <2>. QED  BY <2>1, <2>2
<1>3. CASE \/ \E m \in BOOLEAN : MuteState(m)
           \/ ReadyChange \/ DeviceStarted \/ Unregister \/ HacsCancel
           \/ \E a \in {"accepted", "ready", "rejected"} : HacsAnswer(a)
           \/ Announce \/ AnnouncePlay \/ AnnounceEnd \/ ButtonCancel
  <2>1. UNCHANGED <<pc, holder, tReg>> /\ (ctl = "closing" => ctl' = "closing")
    BY <1>3 DEF MuteState, ReadyChange, DeviceStarted, Unregister, HacsCancel, HacsAnswer,
       Announce, AnnouncePlay, AnnounceEnd, ButtonCancel
  <2>. QED  BY <2>1, LockFrame
<1>4. CASE Disconnect
  <2>1. ctl = "idle" /\ ctl' = "closing" /\ UNCHANGED <<holder, tReg>>
    BY <1>4 DEF Disconnect
  <2>2. CASE UNCHANGED pc  BY <2>1, <2>2, LockFrame
  <2>3. CASE pc' # pc
    <3>1. admTask \in Req /\ pc[admTask] \notin {"abort", "unwinding"}
      BY <1>4, <2>1, <2>3 DEF Disconnect, TypeOK, LockInv
    <3>2. CASE pc[admTask] \in LoopPoints
      <4>1. Go(admTask, "abort")  BY <1>4, <2>3, <3>2 DEF Disconnect
      <4>. QED  BY <2>1, <3>1, <3>2, <4>1, LockInside DEF Inside, LoopPoints, AbortPoints
    <3>3. CASE pc[admTask] \notin LoopPoints
      <4>1. Go(admTask, "finished") \/ Go(admTask, pc[admTask])
        BY <1>4, <2>3, <3>3 DEF Disconnect
      <4>2. CASE pc[admTask] = "unwound"
        BY <1>4, <2>3, <3>1, <4>2 DEF Disconnect, Go, TypeOK, LoopPoints
      <4>3. CASE pc[admTask] # "unwound"
        BY <2>1, <3>1, <3>3, <4>1, <4>3, LockOutside DEF Inside, LoopPoints, AbortPoints
      <4>. QED  BY <4>2, <4>3
    <3>. QED  BY <3>2, <3>3
  <2>. QED  BY <2>2, <2>3
<1>5. ASSUME NEW r \in Req,
             \/ AdmissionDenied(r) \/ ArbitrationLost(r) \/ DenyDone(r) \/ Barge(r)
             \/ BargeRefused(r) \/ BargeAdmitted(r) \/ ClearWakeTask(r) \/ TaskTail(r)
      PROVE  LockInv'
  <2>1. /\ pc[r] \in {"entry", "denying", "lost", "barge", "finished", "tail"}
        /\ \E p \in {"denying", "lost", "finished", "barge", "done"} : Go(r, p)
        /\ UNCHANGED <<holder, tReg, ctl>>
    BY <1>5 DEF AdmissionDenied, Deny, ArbitrationLost, DenyDone, Barge, BargeRefused,
       BargeAdmitted, ClearWakeTask, TaskTail
  <2>. QED  BY <2>1, LockOutside DEF Inside, LoopPoints, AbortPoints
<1>6. ASSUME NEW r \in Req, AdmitWake(r) \/ StartButtonTurn(r) PROVE LockInv'
  <2>1. /\ ~Locked /\ pc[r] \in {"entry", "button"} /\ UNCHANGED <<tReg, ctl>>
        /\ \/ Go(r, "create") /\ holder' = r
           \/ Go(r, "tail") /\ UNCHANGED holder
    BY <1>6 DEF AdmitWake, StartButtonTurn
  <2>. QED  BY <2>1, LockEnter, LockOutside DEF Inside, LoopPoints, AbortPoints
<1>7. ASSUME NEW r \in Req, CreateTurn(r) PROVE LockInv'
  <2>1. pc[r] = "create" /\ tReg' = TRUE /\ Go(r, "push") /\ UNCHANGED <<holder, ctl>>
    BY <1>7 DEF CreateTurn
  <2>. QED  BY <2>1, LockInside DEF Inside, LoopPoints, AbortPoints
<1>8. ASSUME NEW r \in Req,
             \/ Offered(r) \/ Grant(r) \/ DenyTurn(r) \/ FinishUnstarted(r) \/ Started(r)
             \/ Respond(r) \/ RunDone(r)
      PROVE  LockInv'
  <2>1. /\ pc[r] \in {"push", "offer", "denyturn", "start", "listen", "play"}
        /\ \E p \in {"offer", "start", "denyturn", "unstarted", "listen", "play", "persist"} : Go(r, p)
        /\ UNCHANGED <<holder, tReg, ctl>>
    BY <1>8 DEF Offered, Grant, DenyTurn, FinishUnstarted, Started, Respond, RunDone
  <2>2. tReg  BY <2>1 DEF LockInv
  <2>. QED  BY <2>1, <2>2, LockInside DEF Inside, LoopPoints, AbortPoints
<1>9. ASSUME NEW r \in Req, TurnReturns(r) PROVE LockInv'
  <2>1. /\ pc[r] \in {"persist", "unstarted"} /\ tReg' = FALSE /\ Go(r, "cleanup")
        /\ UNCHANGED <<holder, ctl>>
    BY <1>9 DEF TurnReturns
  <2>. QED  BY <2>1, LockInside DEF Inside, LoopPoints, AbortPoints
<1>10. ASSUME NEW r \in Req, LoopBarge(r) \/ LoopContinue(r) PROVE LockInv'
  <2>1. /\ pc[r] = "cleanup" /\ Go(r, "create") /\ UNCHANGED <<holder, tReg, ctl>>
    BY <1>10 DEF LoopBarge, LoopContinue
  <2>2. ~tReg  BY <2>1 DEF LockInv
  <2>. QED  BY <2>1, <2>2, LockInside DEF Inside, LoopPoints, AbortPoints
<1>11. ASSUME NEW r \in Req, LoopEnd(r) PROVE LockInv'
  BY <1>11, LockLeave DEF LoopEnd
<1>12. ASSUME NEW r \in Req, Abort(r) \/ Unwind(r) PROVE LockInv'
  <2>1. /\ pc[r] \in {"abort", "unwinding"} /\ UNCHANGED <<holder, ctl>>
        /\ \/ Go(r, "unwinding")
           \/ Go(r, "unwound") /\ tReg' = FALSE
    BY <1>12 DEF Abort, Unwind
  <2>2. ctl = "closing"  BY <2>1 DEF LockInv, AbortPoints
  <2>. QED  BY <2>1, <2>2, LockInside DEF Inside, LoopPoints, AbortPoints
<1>13. ASSUME NEW r \in Req, OfferFails(r) \/ LoopFails(r) \/ UnwindFails(r) PROVE LockInv'
  <2>1. /\ pc[r] \in LoopPoints \cup AbortPoints /\ Go(r, "unwound") /\ tReg' = FALSE
        /\ UNCHANGED <<holder, ctl>>
    BY <1>13 DEF OfferFails, LoopFails, UnwindFails, Astray, LoopPoints, AbortPoints
  <2>. QED  BY <2>1, LockInside DEF Inside, LoopPoints, AbortPoints
<1>14. ASSUME NEW r \in Req, BargeFails(r) PROVE LockInv'
  <2>1. pc[r] = "barge" /\ Go(r, "finished") /\ UNCHANGED <<holder, tReg, ctl>>
    BY <1>14 DEF BargeFails
  <2>. QED  BY <2>1, LockOutside DEF Inside, LoopPoints, AbortPoints
<1>. QED
  BY <1>1, <1>2, <1>3, <1>4, <1>5, <1>6, <1>7, <1>8, <1>9, <1>10, <1>11, <1>12, <1>13, <1>14
     DEF Next, Environment, Task, Fails

\* However admission, barge-in, mute, the disconnect, the timeouts and pushes that
\* raise fall between each other: at most one task is inside the conversation
\* loop, it holds voice_lock, and no voice turn outlives the hold but one whose
\* own offer could not be pushed.
THEOREM OneAtATime == Spec => []OneConversation
<1>1. Init => TypeOK /\ LockInv
  BY TypeInit, LockInit
<1>2. TypeOK /\ LockInv /\ [Next]_vars => (TypeOK /\ LockInv)'
  BY TypeStep, LockStep
<1>3. LockInv => OneConversation
  BY DEF LockInv
<1>. QED  BY <1>1, <1>2, <1>3, PTL DEF Spec

-----------------------------------------------------------------------------
(* One answer for each request.                                            *)

Asked == {"new", "entry", "button", "barge"}
Before == Asked \cup {"denying", "lost"}

\* A request is unanswered until its task denies it; an admitted one waits
\* unanswered for the offer of the turn that carries it, or in bargeReq, which
\* is never the conversation's own.
AnswerInv ==
    /\ AnsweredOnce
    /\ \A r \in Req : pc[r] \in Asked => answers[r] = 0
    /\ bargeReq # None =>
          answers[bargeReq] = 0 /\ bargeReq # loopReq /\ pc[bargeReq] \in {"finished", "done"}
    /\ bargeDetected => bargeReq # None
    /\ loopReq # None => pc[loopReq] \notin Before
    /\ \A r \in Req : pc[r] = "offer" => loopReq # None
    /\ \A r \in Req : pc[r] \in {"create", "push", "offer"} /\ loopReq # None => answers[loopReq] = 0

\* Steps that answer nothing and neither track nor offer another request.
LEMMA AnswerFrame ==
    ASSUME TypeOK, AnswerInv, UNCHANGED <<answers, loopReq, bargeReq>>, bargeDetected' => bargeDetected,
           \A q \in Req : pc'[q] = pc[q] \/
               /\ pc'[q] \in Asked => pc[q] \in Asked
               /\ pc[q] \notin Before => pc'[q] \notin Before
               /\ pc[q] \in {"finished", "done"} => pc'[q] \in {"finished", "done"}
               /\ pc'[q] \notin {"create", "push", "offer"}
    PROVE  AnswerInv'
BY DEF TypeOK, AnswerInv, AnsweredOnce, Asked, Before

\* A task answers the request it is named by.
LEMMA AnswerOwn ==
    ASSUME TypeOK, AnswerInv, NEW r \in Req, pc[r] \in {"new", "entry"}, Answer(r),
           NEW p \in {"done", "finished", "denying", "lost"}, Go(r, p),
           UNCHANGED <<loopReq, bargeReq, bargeDetected>>
    PROVE  AnswerInv'
<1>1. /\ answers'[r] = 1
      /\ \A q \in Req \ {r} : answers'[q] = answers[q] /\ pc'[q] = pc[q]
      /\ pc'[r] = p
  BY DEF TypeOK, AnswerInv, Asked, Answer, Go
<1>2. r # loopReq /\ r # bargeReq
  BY DEF AnswerInv, Before, Asked
<1>. QED  BY <1>1, <1>2 DEF TypeOK, AnswerInv, AnsweredOnce, Asked, Before

\* A task in the loop goes on without an answer.
LEMMA AnswerMove ==
    ASSUME TypeOK, AnswerInv, NEW r \in Req, NEW p, pc[r] \notin Before \cup {"finished", "done"},
           p \notin Before \cup {"create", "push", "offer"}, Go(r, p),
           UNCHANGED <<answers, loopReq, bargeReq, bargeDetected>>
    PROVE  AnswerInv'
<1>1. \A q \in Req \ {r} : pc'[q] = pc[q]  BY DEF Go, TypeOK
<1>2. pc'[r] = p  BY DEF Go, TypeOK
<1>. QED  BY <1>1, <1>2, AnswerFrame DEF Before

LEMMA AnswerInit == Init => AnswerInv
BY DEF Init, AnswerInv, AnsweredOnce

\* Every action keeps the answers' invariant.
LEMMA AnswerStep == TypeOK /\ LockInv /\ AnswerInv /\ [Next]_vars => AnswerInv'
<1>. SUFFICES ASSUME TypeOK, LockInv, AnswerInv, [Next]_vars PROVE AnswerInv'
  OBVIOUS
<1>. USE DEF devVars, bargeVars, loopVars, taskVars, strayVars, turnVars, annVars, envVars
<1>1. CASE UNCHANGED vars
  BY <1>1, AnswerFrame DEF vars
<1>2. ASSUME NEW r \in Req, WakeRequest(r) \/ ButtonTurn(r) \/ GiveUp(r) PROVE AnswerInv'
  <2>1. /\ UNCHANGED pc \/ (pc[r] = "new" /\ (Go(r, "entry") \/ Go(r, "button")))
        /\ UNCHANGED <<answers, loopReq, bargeReq, bargeDetected>>
    BY <1>2 DEF WakeRequest, ButtonTurn, GiveUp, Sends
  <2>. QED  BY <2>1, AnswerFrame DEF Go, TypeOK, Asked, Before
<1>3. ASSUME NEW r \in Req, WakeRefused(r) \/ ButtonDuringTurn(r) \/ ButtonRefused(r)
      PROVE  AnswerInv'
  <2>1. /\ pc[r] = "new" /\ Answer(r) /\ Go(r, "done")
        /\ UNCHANGED <<loopReq, bargeReq, bargeDetected>>
    BY <1>3 DEF WakeRefused, ButtonDuringTurn, ButtonRefused, Sends
  <2>. QED  BY <2>1, AnswerOwn
<1>4. CASE \/ \E m \in BOOLEAN : MuteState(m)
           \/ ReadyChange \/ DeviceStarted \/ Unregister \/ HacsCancel
           \/ \E a \in {"accepted", "ready", "rejected"} : HacsAnswer(a)
           \/ Announce \/ AnnouncePlay \/ AnnounceEnd \/ ButtonCancel
  <2>1. UNCHANGED <<pc, answers, loopReq, bargeReq, bargeDetected>>
    BY <1>4 DEF MuteState, ReadyChange, DeviceStarted, Unregister, HacsCancel, HacsAnswer,
       Announce, AnnouncePlay, AnnounceEnd, ButtonCancel
  <2>. QED  BY <2>1, AnswerFrame
<1>5. CASE Disconnect
  <2>1. UNCHANGED <<answers, loopReq, bargeReq, bargeDetected>>
    BY <1>5 DEF Disconnect
  <2>2. CASE UNCHANGED pc  BY <2>1, <2>2, AnswerFrame
  <2>3. CASE pc' # pc
    <3>1. /\ admTask \in Req /\ pc[admTask] \notin {"finished", "done"}
          /\ \E p \in {"abort", "unwound", "tail", "finished"} : Go(admTask, p)
      BY <1>5, <2>3 DEF Disconnect, TypeOK
    <3>. QED  BY <2>1, <3>1, AnswerFrame DEF Go, TypeOK, Asked, Before
  <2>. QED  BY <2>2, <2>3
<1>6. ASSUME NEW r \in Req, AdmissionDenied(r) \/ ArbitrationLost(r) \/ BargeRefused(r)
      PROVE  AnswerInv'
  <2>1. /\ pc[r] = "entry" /\ Answer(r) /\ (Go(r, "denying") \/ Go(r, "lost") \/ Go(r, "finished"))
        /\ UNCHANGED <<loopReq, bargeReq, bargeDetected>>
    BY <1>6 DEF AdmissionDenied, Deny, ArbitrationLost, BargeRefused
  <2>. QED  BY <2>1, AnswerOwn
<1>7. ASSUME NEW r \in Req, DenyDone(r) \/ Barge(r) \/ ClearWakeTask(r) PROVE AnswerInv'
  <2>1. /\ \/ pc[r] \in {"denying", "lost"} /\ Go(r, "finished")
           \/ pc[r] = "entry" /\ Go(r, "barge")
           \/ pc[r] = "finished" /\ Go(r, "done")
        /\ UNCHANGED <<answers, loopReq, bargeReq, bargeDetected>>
    BY <1>7 DEF DenyDone, Barge, ClearWakeTask
  <2>. QED  BY <2>1, AnswerFrame DEF Go, TypeOK, Asked, Before
<1>8. ASSUME NEW r \in Req, BargeAdmitted(r) PROVE AnswerInv'
  <2>1. /\ pc[r] = "barge" /\ bargeReq' = r /\ UNCHANGED <<answers, loopReq>>
        /\ pc'[r] = "finished" /\ \A q \in Req \ {r} : pc'[q] = pc[q]
    BY <1>8 DEF BargeAdmitted, Go, TypeOK
  <2>. QED  BY <2>1 DEF AnswerInv, AnsweredOnce, Asked, Before, TypeOK
<1>9. ASSUME NEW r \in Req, AdmitWake(r) \/ StartButtonTurn(r) PROVE AnswerInv'
  <2>1. /\ ~Locked /\ pc[r] \in {"entry", "button"}
        /\ UNCHANGED <<answers, bargeReq, bargeDetected>>
        /\ \A q \in Req \ {r} : pc'[q] = pc[q]
        /\ \/ pc'[r] = "create" /\ loopReq' = r
           \/ pc'[r] = "tail" /\ UNCHANGED loopReq
    BY <1>9 DEF AdmitWake, StartButtonTurn, Go, TypeOK
  <2>2. \A q \in Req : pc[q] \notin {"create", "push", "offer"}
    BY <2>1 DEF LockInv, OneConversation, Locked, LoopPoints
  <2>. QED  BY <2>1, <2>2 DEF AnswerInv, AnsweredOnce, Asked, Before, TypeOK
<1>10. ASSUME NEW r \in Req, CreateTurn(r) \/ Offered(r) PROVE AnswerInv'
  <2>1. /\ pc[r] \in {"create", "push"} /\ UNCHANGED <<answers, loopReq, bargeReq, bargeDetected>>
        /\ \A q \in Req \ {r} : pc'[q] = pc[q]
        /\ pc'[r] \in {"push", "listen"} \/ (pc'[r] = "offer" /\ loopReq # None)
    BY <1>10 DEF CreateTurn, Offered, Go, TypeOK
  <2>. QED  BY <2>1 DEF AnswerInv, AnsweredOnce, Asked, Before, TypeOK
<1>11. ASSUME NEW r \in Req, Grant(r) \/ DenyTurn(r) PROVE AnswerInv'
  <2>1. /\ pc[r] = "offer" /\ UNCHANGED <<loopReq, bargeReq, bargeDetected>>
        /\ \A q \in Req \ {r} : pc'[q] = pc[q]
        /\ pc'[r] \in {"start", "denyturn"}
        /\ Answer(loopReq)
    BY <1>11 DEF Grant, DenyTurn, Go, TypeOK
  <2>2. loopReq \in Req /\ answers[loopReq] = 0 /\ loopReq # bargeReq /\ pc[loopReq] \notin Before
    BY <2>1 DEF AnswerInv, TypeOK
  <2>3. answers'[loopReq] = 1 /\ \A q \in Req \ {loopReq} : answers'[q] = answers[q]
    BY <2>1, <2>2 DEF Answer, TypeOK
  <2>4. \A q \in Req : pc'[q] \notin {"create", "push", "offer"}
    BY <2>1 DEF LockInv, OneConversation, LoopPoints
  <2>. QED  BY <2>1, <2>2, <2>3, <2>4 DEF AnswerInv, AnsweredOnce, Asked, Before, TypeOK
<1>12. ASSUME NEW r \in Req,
              \/ FinishUnstarted(r) \/ Started(r) \/ Respond(r) \/ RunDone(r) \/ TurnReturns(r)
              \/ LoopEnd(r) \/ Abort(r) \/ Unwind(r)
       PROVE  AnswerInv'
  <2>1. /\ pc[r] \in (LoopPoints \cup AbortPoints) \ {"create", "push", "offer"}
        /\ \E p \in {"unstarted", "listen", "play", "persist", "cleanup", "tail", "unwinding",
                     "unwound"} : Go(r, p)
        /\ UNCHANGED <<answers, loopReq, bargeReq, bargeDetected>>
    BY <1>12 DEF FinishUnstarted, Started, Respond, RunDone, TurnReturns, LoopEnd, Abort,
       Unwind, LoopPoints, AbortPoints
  <2>. QED  BY <2>1, AnswerMove DEF Asked, Before, LoopPoints, AbortPoints
<1>13. ASSUME NEW r \in Req, LoopBarge(r) PROVE AnswerInv'
  <2>1. /\ pc[r] = "cleanup" /\ bargeDetected /\ loopReq' = bargeReq /\ bargeReq' = None
        /\ bargeDetected' = FALSE /\ UNCHANGED answers
        /\ pc'[r] = "create" /\ \A q \in Req \ {r} : pc'[q] = pc[q]
    BY <1>13 DEF LoopBarge, Go, TypeOK
  <2>. QED  BY <2>1 DEF AnswerInv, AnsweredOnce, Asked, Before, TypeOK
<1>14. ASSUME NEW r \in Req, LoopContinue(r) PROVE AnswerInv'
  <2>1. /\ pc[r] = "cleanup" /\ loopReq' = None /\ UNCHANGED <<answers, bargeReq, bargeDetected>>
        /\ pc'[r] = "create" /\ \A q \in Req \ {r} : pc'[q] = pc[q]
    BY <1>14 DEF LoopContinue, Go, TypeOK
  <2>2. \A q \in Req : pc'[q] # "offer"
    BY <2>1 DEF LockInv, OneConversation, LoopPoints
  <2>. QED  BY <2>1, <2>2 DEF AnswerInv, AnsweredOnce, Asked, Before, TypeOK
<1>15. ASSUME NEW r \in Req, TaskTail(r) PROVE AnswerInv'
  <2>1. /\ pc[r] = "tail" /\ (Go(r, "finished") \/ Go(r, "done"))
        /\ UNCHANGED <<answers, loopReq, bargeReq, bargeDetected>>
    BY <1>15 DEF TaskTail
  <2>. QED  BY <2>1, AnswerMove DEF Asked, Before
<1>16. ASSUME NEW r \in Req, Fails(r) PROVE AnswerInv'
  <2>1. /\ \/ pc[r] \in LoopPoints \cup AbortPoints /\ Go(r, "unwound")
           \/ pc[r] = "barge" /\ Go(r, "finished")
        /\ UNCHANGED <<answers, loopReq, bargeReq, bargeDetected>>
    BY <1>16 DEF Fails, OfferFails, LoopFails, UnwindFails, BargeFails, LoopPoints, AbortPoints
  <2>. QED  BY <2>1, AnswerFrame DEF Go, TypeOK, Asked, Before, LoopPoints, AbortPoints
<1>. QED
  BY <1>1, <1>2, <1>3, <1>4, <1>5, <1>6, <1>7, <1>8, <1>9, <1>10, <1>11, <1>12, <1>13, <1>14,
     <1>15, <1>16 DEF Next, Environment, Task

\* The device is told grant or deny at most once for each request it sends,
\* whether its own task, the turn it asked for or a barge-in answers it.
THEOREM OneAnswer == Spec => []AnsweredOnce
<1>1. Init => TypeOK /\ LockInv /\ AnswerInv
  BY TypeInit, LockInit, AnswerInit
<1>2. TypeOK /\ LockInv /\ AnswerInv /\ [Next]_vars => (TypeOK /\ LockInv /\ AnswerInv)'
  BY TypeStep, LockStep, AnswerStep
<1>3. AnswerInv => AnsweredOnce
  BY DEF AnswerInv
<1>. QED  BY <1>1, <1>2, <1>3, PTL DEF Spec

-----------------------------------------------------------------------------
(* Mute.                                                                   *)

\* From the grant on: the turn of a request is cancelled on a muted device.
MuteInv ==
    \A r \in Req :
        pc[r] \in {"start", "listen", "play"} /\ loopReq # None /\ muted => tCancelled

\* Steps that neither mute, nor grant, nor create a turn.
LEMMA MuteFrame ==
    ASSUME MuteInv, UNCHANGED loopReq, muted' => muted, tCancelled => tCancelled',
           \A q \in Req : pc'[q] \in {"start", "listen", "play"} => pc[q] \in {"start", "listen", "play"}
    PROVE  MuteInv'
BY DEF MuteInv

\* Nobody is past its grant when the lock is free, or its holder is not.
LEMMA NobodyListens ==
    ASSUME LockInv, NEW r \in Req,
           ~Locked \/ pc[r] \in {"create", "push", "offer", "cleanup"}
    PROVE  \A q \in Req : pc[q] \notin {"start", "listen", "play"}
BY DEF LockInv, OneConversation, Locked, LoopPoints

\* Every action keeps the invariant of mute.
LEMMA MuteStep == TypeOK /\ LockInv /\ MuteInv /\ [Next]_vars => MuteInv'
<1>. SUFFICES ASSUME TypeOK, LockInv, MuteInv, [Next]_vars PROVE MuteInv'
  OBVIOUS
<1>. USE DEF devVars, bargeVars, loopVars, taskVars, strayVars, turnVars, annVars, envVars
<1>1. CASE UNCHANGED vars
  BY <1>1, MuteFrame DEF vars
<1>2. ASSUME NEW r \in Req,
             \/ WakeRequest(r) \/ WakeRefused(r) \/ ButtonTurn(r) \/ ButtonDuringTurn(r)
             \/ ButtonRefused(r) \/ GiveUp(r)
      PROVE  MuteInv'
  <2>1. /\ UNCHANGED pc \/ Go(r, "entry") \/ Go(r, "done") \/ Go(r, "button")
        /\ UNCHANGED <<loopReq, muted, tCancelled>>
    BY <1>2 DEF WakeRequest, WakeRefused, ButtonTurn, ButtonDuringTurn, ButtonRefused, GiveUp
  <2>. QED  BY <2>1, MuteFrame DEF Go, TypeOK
<1>3. ASSUME NEW m \in BOOLEAN, MuteState(m) PROVE MuteInv'
  <2>1. UNCHANGED <<pc, loopReq>> /\ muted' = m /\ (tCancelled => tCancelled')
    BY <1>3 DEF MuteState, CancelAll
  <2>2. CASE ~m  BY <2>1, <2>2 DEF MuteInv
  <2>3. CASE m /\ Locked
    <3>1. tReg => tCancelled'  BY <1>3, <2>3 DEF MuteState, CancelAll
    <3>2. \A r \in Req : pc[r] \in {"start", "listen", "play"} => tReg  BY DEF LockInv
    <3>. QED  BY <2>1, <3>1, <3>2 DEF MuteInv
  <2>4. CASE ~Locked  BY <2>1, <2>4, NobodyListens DEF MuteInv
  <2>. QED  BY <2>2, <2>3, <2>4
<1>4. CASE \/ ReadyChange \/ DeviceStarted \/ Unregister \/ HacsCancel
           \/ \E a \in {"accepted", "ready", "rejected"} : HacsAnswer(a)
           \/ Announce \/ AnnouncePlay \/ AnnounceEnd \/ ButtonCancel
  <2>1. UNCHANGED <<pc, loopReq, muted>>
    BY <1>4 DEF ReadyChange, DeviceStarted, Unregister, HacsCancel, HacsAnswer,
       Announce, AnnouncePlay, AnnounceEnd, ButtonCancel
  <2>2. ASSUME tCancelled PROVE tCancelled'
    <3>1. CASE ReadyChange \/ DeviceStarted \/ Unregister \/ Announce \/ AnnouncePlay \/ AnnounceEnd
      BY <2>2, <3>1 DEF ReadyChange, DeviceStarted, Unregister, Announce, AnnouncePlay, AnnounceEnd
    <3>2. CASE HacsCancel  BY <2>2, <3>2, Zenon DEF HacsCancel
    <3>3. CASE \E a \in {"accepted", "ready", "rejected"} : HacsAnswer(a)
      BY <2>2, <3>3, Zenon DEF HacsAnswer
    <3>4. CASE ButtonCancel  BY <2>2, <3>4, Zenon DEF ButtonCancel, CancelAll
    <3>. QED  BY <1>4, <3>1, <3>2, <3>3, <3>4
  <2>. QED  BY <2>1, <2>2, MuteFrame
<1>5. CASE Disconnect
  <2>1. /\ UNCHANGED <<loopReq, muted, tCancelled>>
        /\ UNCHANGED pc \/ \E p \in {"abort", "unwound", "tail", "finished"} : Go(admTask, p)
    BY <1>5 DEF Disconnect
  <2>. QED  BY <2>1, MuteFrame DEF Go, TypeOK
<1>6. ASSUME NEW r \in Req,
             \/ AdmissionDenied(r) \/ ArbitrationLost(r) \/ DenyDone(r) \/ Barge(r)
             \/ BargeRefused(r) \/ BargeAdmitted(r) \/ ClearWakeTask(r) \/ DenyTurn(r)
             \/ FinishUnstarted(r) \/ Started(r) \/ Respond(r) \/ RunDone(r) \/ TurnReturns(r)
             \/ LoopEnd(r) \/ TaskTail(r) \/ Abort(r) \/ Unwind(r) \/ Fails(r)
      PROVE  MuteInv'
  <2>1. /\ UNCHANGED <<loopReq, muted>>
        /\ \/ Go(r, "listen") /\ pc[r] = "start"
           \/ Go(r, "play") /\ pc[r] = "listen"
           \/ \E p \in {"denying", "lost", "finished", "barge", "done", "denyturn", "unstarted",
                        "persist", "cleanup", "tail", "unwinding", "unwound"} : Go(r, p)
    BY <1>6 DEF Fails, OfferFails, LoopFails, UnwindFails, BargeFails, AdmissionDenied, Deny, ArbitrationLost, DenyDone, Barge, BargeRefused,
       BargeAdmitted, ClearWakeTask, DenyTurn, FinishUnstarted, Started, Respond, RunDone,
       TurnReturns, LoopEnd, TaskTail, Abort, Unwind
  <2>2. ASSUME tCancelled PROVE tCancelled'
    <3>1. CASE Barge(r)  BY <2>2, <3>1, Zenon DEF Barge
    <3>2. CASE Abort(r)  BY <2>2, <3>2, Zenon DEF Abort
    <3>3. CASE FinishUnstarted(r)  BY <3>3 DEF FinishUnstarted
    <3>4. CASE ~Barge(r) /\ ~Abort(r) /\ ~FinishUnstarted(r)
      BY <1>6, <2>2, <3>4 DEF AdmissionDenied, ArbitrationLost, DenyDone, BargeRefused,
         BargeAdmitted, ClearWakeTask, DenyTurn, Started, Respond, RunDone, TurnReturns,
         LoopEnd, TaskTail, Unwind, Fails, OfferFails, LoopFails, UnwindFails, BargeFails
    <3>. QED  BY <3>1, <3>2, <3>3, <3>4
  <2>. QED  BY <2>1, <2>2, MuteFrame DEF Go, TypeOK
<1>7. ASSUME NEW r \in Req, AdmitWake(r) \/ StartButtonTurn(r) PROVE MuteInv'
  <2>1. ~Locked /\ (Go(r, "create") \/ Go(r, "tail"))
    BY <1>7 DEF AdmitWake, StartButtonTurn
  <2>. QED  BY <2>1, NobodyListens DEF MuteInv, Go, TypeOK
<1>8. ASSUME NEW r \in Req, CreateTurn(r) \/ Offered(r) PROVE MuteInv'
  <2>1. /\ pc[r] \in {"create", "push"} /\ UNCHANGED loopReq
        /\ Go(r, "push") \/ Go(r, IF loopReq # None THEN "offer" ELSE "listen")
    BY <1>8 DEF CreateTurn, Offered
  <2>. QED  BY <2>1, NobodyListens DEF MuteInv, Go, TypeOK
<1>9. ASSUME NEW r \in Req, Grant(r) PROVE MuteInv'
  BY <1>9 DEF Grant, MuteInv
<1>10. ASSUME NEW r \in Req, LoopBarge(r) \/ LoopContinue(r) PROVE MuteInv'
  <2>1. pc[r] = "cleanup" /\ Go(r, "create")
    BY <1>10 DEF LoopBarge, LoopContinue
  <2>. QED  BY <2>1, NobodyListens DEF MuteInv, Go, TypeOK
<1>. QED
  BY <1>1, <1>2, <1>3, <1>4, <1>5, <1>6, <1>7, <1>8, <1>9, <1>10 DEF Next, Environment, Task

\* A turn some request asked for is never left listening or speaking on a muted
\* device: the mute cancelled it, or was seen before the grant.
THEOREM MuteEndsTurn == Spec => []MuteEndsRequestedTurn
<1>1. Init => TypeOK /\ LockInv /\ MuteInv
  <2>1. Init => MuteInv  BY DEF Init, MuteInv
  <2>. QED  BY <2>1, TypeInit, LockInit
<1>2. TypeOK /\ LockInv /\ MuteInv /\ [Next]_vars => (TypeOK /\ LockInv /\ MuteInv)'
  BY TypeStep, LockStep, MuteStep
<1>3. TypeOK /\ MuteInv => MuteEndsRequestedTurn
  BY DEF MuteInv, MuteEndsRequestedTurn, MuteTerminatesTurn, Locked, TypeOK
<1>. QED  BY <1>1, <1>2, <1>3, PTL DEF Spec
=============================================================================
