-------------------------- MODULE MicStreamProofs --------------------------
(***************************************************************************)
(* Proofs about MicStream for every set of streams and connections and any *)
(* number of turns, mutes and faults: no mic stream escapes StopMic, a     *)
(* stop channel is closed once, and a deadline ends only its own grant.    *)
(***************************************************************************)
EXTENDS MicStream, TLAPS

\* A new stream takes over a device without an active one.
LEMMA NewStreamOwned ==
  ASSUME OwnerInv, ~active, NEW s \in Streams, NewStream(s)
  PROVE  OwnerInv'
<1> USE DEF OwnerInv, StreamsOK, Looping, NoLeakedStream, StopChannelClosedOnce
<1>1. StreamsOK'  BY DEF NewStream, Revoke, localVars
<1>2. active' /\ cur' = s /\ closed' = closed /\ spc' = [spc EXCEPT ![s] = "run"]
  BY DEF NewStream
<1>3. s \notin closed  BY DEF NewStream
<1>4. \A t \in Streams : spc[t] \in Looping => t \in closed  OBVIOUS
<1> QED  BY <1>1, <1>2, <1>3, <1>4

\* A step that leaves the streams alone keeps the owner.
LEMMA IdleOwned ==
  ASSUME OwnerInv, UNCHANGED <<active, cur, closed, streamVars>>, epoch' \in Nat
  PROVE  OwnerInv'
BY DEF OwnerInv, StreamsOK, Looping, NoLeakedStream, StopChannelClosedOnce, streamVars,
       localVars

\* StartMic keeps the owner.
LEMMA StartMicOwned ==
  ASSUME OwnerInv, NEW t, StartMic(t)
  PROVE  OwnerInv'
<1>1. epoch \in Nat  BY DEF OwnerInv, StreamsOK
<1>2. CASE UNCHANGED <<micVars, streamVars>> /\ (Grant(t) \/ UNCHANGED grantVars)
  BY <1>1, <1>2, IdleOwned DEF Grant, micVars, grantVars
<1>3. CASE ~active /\ \E s \in Streams : NewStream(s)  BY <1>3, NewStreamOwned
<1> QED  BY <1>2, <1>3 DEF StartMic

\* Closing the active stream's channel leaves no stream active.
LEMMA CloseOwned ==
  ASSUME OwnerInv, active, Close, UNCHANGED <<cur, streamVars, epoch>>
  PROVE  OwnerInv'
<1> USE DEF OwnerInv, StreamsOK, Looping, NoLeakedStream, StopChannelClosedOnce
<1>1. active' = FALSE /\ closed' = closed \cup {cur} /\ cur' = cur /\ spc' = spc
  BY DEF Close, streamVars
<1>2. StreamsOK'  BY <1>1 DEF Close, streamVars, localVars
<1> QED  BY <1>1, <1>2

\* So does StopMic.
LEMMA StopMicOwned ==
  ASSUME OwnerInv, StopMic
  PROVE  OwnerInv'
<1>1. CASE active  BY <1>1, CloseOwned DEF StopMic, Revoke
<1>2. CASE ~active
  <2>1. epoch \in Nat  BY DEF OwnerInv, StreamsOK
  <2> QED  BY <1>2, <2>1, IdleOwned DEF StopMic, grantVars
<1> QED  BY <1>1, <1>2

\* A stream that stays in its loop keeps the owner.
LEMMA LoopOwned ==
  ASSUME OwnerInv, UNCHANGED <<active, cur, closed>>, StreamsOK',
         NEW s \in Streams, spc[s] \in Looping,
         NEW p \in Looping, spc' = [spc EXCEPT ![s] = p]
  PROVE  OwnerInv'
<1>1. \A t \in Streams : spc'[t] \in Looping <=> spc[t] \in Looping
  BY DEF OwnerInv, StreamsOK
<1> QED  BY <1>1 DEF OwnerInv, StreamsOK, NoLeakedStream, StopChannelClosedOnce

\* A stream that leaves its loop gives up only what is its own.
LEMMA ReturnsOwned ==
  ASSUME OwnerInv, NEW s \in Streams, StreamReturns(s)
  PROVE  OwnerInv'
<1> USE DEF OwnerInv, StreamsOK, NoLeakedStream, StopChannelClosedOnce
<1>1. StreamsOK'  BY DEF StreamReturns, AtS, grantVars
<1>2. spc[s] \in Looping  BY DEF StreamReturns, Looping
<1>3. closed' = closed \ {s} /\ cur' = cur  BY DEF StreamReturns
<1>4. /\ \A t \in Streams \ {s} : spc'[t] = spc[t]
      /\ spc'[s] \notin Looping
  BY DEF StreamReturns, AtS, Looping
<1>5. CASE cur = s
  <2>1. ~active'  BY <1>5 DEF StreamReturns, Owns
  <2> QED  BY <1>1, <1>2, <1>3, <1>4, <1>5, <2>1
<1>6. CASE cur # s
  <2>1. active' = active  BY <1>6 DEF StreamReturns, Owns
  <2> QED  BY <1>1, <1>2, <1>3, <1>4, <1>6, <2>1
<1> QED  BY <1>5, <1>6

\* Every action keeps the owner.
LEMMA OwnerStep == OwnerInv /\ [Next]_vars => OwnerInv'
<1> SUFFICES ASSUME OwnerInv, [Next]_vars PROVE OwnerInv'  OBVIOUS
<1>0. epoch \in Nat /\ StreamsOK  BY DEF OwnerInv, StreamsOK
<1>1. CASE Controller
  BY <1>0, <1>1, IdleOwned DEF Controller, GrantTurn, TurnStarts, Hear, Play, PlayQuietly, Barge,
     Continue, EndTurn, ButtonTail, BeginTurn, deviceVars, micVars, grantVars
<1>2. CASE RecvMicStart \/ RecvWakeGrant \/ RecvDisarm
  BY <1>0, <1>2, IdleOwned DEF RecvMicStart, RecvWakeGrant, RecvDisarm, micVars, grantVars
<1>3. CASE GrantOrRefuse
  BY <1>0, <1>3, IdleOwned DEF GrantOrRefuse, Grant, micVars, grantVars
<1>4. CASE RecvMicStop  BY <1>4, StopMicOwned DEF RecvMicStop
<1>5. ASSUME NEW g \in Go, Toggle(g) \/ SetMuted(g) \/ StartChecks(g) PROVE OwnerInv'
  BY <1>0, <1>5, IdleOwned DEF Toggle, SetMuted, StartChecks, micVars, grantVars
<1>6. ASSUME NEW g \in Go, MuteStops(g) PROVE OwnerInv'
  BY <1>6, StopMicOwned DEF MuteStops
<1>7. ASSUME NEW g \in Go, StartsMic(g) PROVE OwnerInv'
  BY <1>7, StartMicOwned DEF StartsMic
<1>8. ASSUME NEW c \in Conns, Dial(c) \/ ConnectChecks(c) \/ ConnectEnds(c) PROVE OwnerInv'
  BY <1>0, <1>8, IdleOwned DEF Dial, ConnectChecks, ConnectEnds, micVars, grantVars
<1>9. ASSUME NEW c \in Conns, ConnectStarts(c) PROVE OwnerInv'
  BY <1>9, StartMicOwned DEF ConnectStarts
<1>10. ASSUME NEW c \in Conns, DataDrop(c) \/ ContextCancels(c) PROVE OwnerInv'
  <2>1. CleansMic(c)  BY <1>10 DEF DataDrop, ContextCancels
  <2>2. CASE active /\ micConn = c  BY <2>1, <2>2, CloseOwned DEF CleansMic, grantVars
  <2>3. CASE ~(active /\ micConn = c)
    BY <1>0, <2>1, <2>3, IdleOwned DEF CleansMic, grantVars
  <2> QED  BY <2>2, <2>3
<1>11. CASE ControlReconnect
  BY <1>0, <1>11, IdleOwned DEF ControlReconnect, micVars, grantVars
<1>12. CASE RecorderDies
  BY <1>12 DEF RecorderDies, OwnerInv, StreamsOK, Looping, NoLeakedStream,
               StopChannelClosedOnce, micVars, grantVars, localVars
<1>13. ASSUME NEW s \in Streams, FrameTake(s) PROVE OwnerInv'
  <2>1. StreamsOK'
    BY <1>0, <1>13 DEF FrameTake, AtS, StreamsOK, micVars, grantVars, localVars
  <2> QED  BY <1>13, <2>1, LoopOwned DEF FrameTake, AtS, Looping, micVars
<1>14. ASSUME NEW s \in Streams, FrameRead(s) PROVE OwnerInv'
  <2>1. StreamsOK'  BY <1>0, <1>14 DEF FrameRead, AtS, StreamsOK, micVars, grantVars
  <2>2. spc' = [spc EXCEPT ![s] = "frame"] \/ spc' = [spc EXCEPT ![s] = "run"]
    BY <1>14 DEF FrameRead, AtS
  <2> QED  BY <1>14, <2>1, <2>2, LoopOwned DEF FrameRead, Looping, micVars
<1>15. ASSUME NEW s \in Streams, FrameSend(s) PROVE OwnerInv'
  <2>1. StreamsOK'  BY <1>0, <1>15 DEF FrameSend, AtS, StreamsOK, micVars, grantVars
  <2> QED  BY <1>15, <2>1, LoopOwned DEF FrameSend, AtS, Looping, micVars
<1>16. ASSUME NEW s \in Streams, TimerCheck(s) PROVE OwnerInv'
  <2>1. StreamsOK'  BY <1>0, <1>16 DEF TimerCheck, AtS, StreamsOK, micVars, grantVars
  <2>2. spc' = [spc EXCEPT ![s] = "run"] \/ spc' = [spc EXCEPT ![s] = "expired"]
    BY <1>16 DEF TimerCheck, AtS
  <2> QED  BY <1>16, <2>1, <2>2, LoopOwned DEF TimerCheck, Looping, micVars
<1>17. ASSUME NEW s \in Streams, FinishGrant(s) PROVE OwnerInv'
  <2>1. StreamsOK'
    BY <1>0, <1>17 DEF FinishGrant, AtS, Revoke, StreamsOK, micVars, grantVars, localVars
  <2> QED  BY <1>17, <2>1, LoopOwned DEF FinishGrant, AtS, Looping, micVars
<1>18. ASSUME NEW s \in Streams, StreamReturns(s) PROVE OwnerInv'
  BY <1>18, ReturnsOwned
<1>19. ASSUME NEW s \in Streams, ExitWake(s) PROVE OwnerInv'
  <2>1. StreamsOK'
    BY <1>0, <1>19 DEF ExitWake, AtS, Revoke, StreamsOK, micVars, localVars
  <2>2. \A t \in Streams : spc'[t] \in Looping <=> spc[t] \in Looping
    BY <1>0, <1>19 DEF ExitWake, AtS, StreamsOK, Looping
  <2> QED
    BY <1>19, <2>1, <2>2 DEF ExitWake, OwnerInv, StreamsOK, NoLeakedStream,
                             StopChannelClosedOnce, micVars
<1>20. CASE UNCHANGED vars
  BY <1>0, <1>20, IdleOwned DEF vars, deviceVars, micVars, grantVars
<1> QED
  BY <1>1, <1>2, <1>3, <1>4, <1>5, <1>6, <1>7, <1>8, <1>9, <1>10, <1>11, <1>12, <1>13, <1>14,
     <1>15, <1>16, <1>17, <1>18, <1>19, <1>20
     DEF Next, Control, MuteSteps, Connection, StreamRuns, StreamExits

\* The device starts with one open stream, or muted with none.
LEMMA OwnerInit == Init => OwnerInv
<1> SUFFICES ASSUME Init PROVE OwnerInv  OBVIOUS
<1>1. active \in BOOLEAN  BY DEF Init
<1>2. cur \in (IF active THEN Streams ELSE {None})  BY DEF Init
<1>3. spc = [s \in Streams |-> IF s = cur THEN "run" ELSE "off"] /\ closed = {}  BY DEF Init
<1>4. StreamsOK  BY <1>1, <1>2, <1>3 DEF Init, StreamsOK
<1>5. \A s \in Streams : spc[s] \in Looping <=> s = cur  BY <1>3 DEF Looping
<1>6. active <=> cur \in Streams  BY <1>1, <1>2, NoneAssumption
<1> QED  BY <1>3, <1>4, <1>5, <1>6 DEF OwnerInv, NoLeakedStream, StopChannelClosedOnce

\* No mic stream loops out of StopMic's reach, whatever the order of the
\* starts, stops, mutes, reconnects and exits (streamMic's ownership check).
THEOREM NoStreamLeaks == Spec => []NoLeakedStream
<1>1. OwnerInv => NoLeakedStream  BY DEF OwnerInv
<1> QED  BY <1>1, OwnerInit, OwnerStep, PTL DEF Spec

\* No stop channel is closed twice: whenever a closer finds micActive, the
\* channel it closes is open.
THEOREM ClosedOnce == Spec => []StopChannelClosedOnce
<1>1. OwnerInv => StopChannelClosedOnce  BY DEF OwnerInv
<1> QED  BY <1>1, OwnerInit, OwnerStep, PTL DEF Spec

\* A step that leaves the timers and epochs of the streams alone, and moves no
\* stream to "expired", keeps the deadlines.
LEMMA DeadlineKept ==
  ASSUME DeadlineInv, UNCHANGED <<timer, turnEpoch, armedFor>>,
         \A s \in Streams : spc'[s] = "expired" => spc[s] = "expired"
  PROVE  DeadlineInv'
BY DEF DeadlineInv

\* Every action keeps the deadlines.
LEMMA DeadlineStep == OwnerInv /\ DeadlineInv /\ [Next]_vars => DeadlineInv'
<1> SUFFICES ASSUME OwnerInv, DeadlineInv, [Next]_vars PROVE DeadlineInv'  OBVIOUS
<1>0. StreamsOK  BY DEF OwnerInv
<1> USE DEF streamVars, localVars
<1>1. CASE UNCHANGED streamVars  BY <1>1, DeadlineKept
<1>2. ASSUME NEW t, StartMic(t) PROVE DeadlineInv'
  BY <1>0, <1>2, DeadlineKept DEF StartMic, NewStream, StreamsOK
<1>3. ASSUME NEW s \in Streams, FrameTake(s) \/ FinishGrant(s) \/ ExitWake(s) PROVE DeadlineInv'
  BY <1>0, <1>3, DeadlineKept DEF FrameTake, FinishGrant, ExitWake, AtS, StreamsOK
<1>4. ASSUME NEW s \in Streams, FrameRead(s) PROVE DeadlineInv'
  BY <1>0, <1>4 DEF FrameRead, AtS, StreamsOK, DeadlineInv
<1>5. ASSUME NEW s \in Streams, FrameSend(s) PROVE DeadlineInv'
  BY <1>0, <1>5 DEF FrameSend, AtS, StreamsOK, DeadlineInv
<1>6. ASSUME NEW s \in Streams, TimerCheck(s) PROVE DeadlineInv'
  BY <1>0, <1>6 DEF TimerCheck, AtS, StreamsOK, DeadlineInv
<1>7. ASSUME NEW s \in Streams, StreamReturns(s) PROVE DeadlineInv'
  BY <1>0, <1>7 DEF StreamReturns, AtS, StreamsOK, DeadlineInv
<1>8. CASE RecorderDies  BY <1>8, DeadlineKept DEF RecorderDies
<1>9. CASE Controller
  BY <1>1, <1>9 DEF Controller, GrantTurn, TurnStarts, Hear, Play, PlayQuietly, Barge, Continue,
     EndTurn, ButtonTail, BeginTurn, deviceVars
<1>10. CASE Control
  BY <1>1, <1>10 DEF Control, RecvMicStart, RecvMicStop, RecvWakeGrant, GrantOrRefuse, RecvDisarm,
     StopMic
<1>11. ASSUME NEW g \in Go, Toggle(g) \/ MuteSteps(g) PROVE DeadlineInv'
  BY <1>1, <1>2, <1>11 DEF Toggle, MuteSteps, SetMuted, MuteStops, StartChecks, StartsMic, StopMic
<1>12. ASSUME NEW c \in Conns, Dial(c) \/ DataDrop(c) \/ Connection(c) PROVE DeadlineInv'
  BY <1>1, <1>2, <1>12 DEF Dial, DataDrop, Connection, ConnectChecks, ConnectStarts,
     ContextCancels, ConnectEnds, CleansMic
<1>13. CASE ControlReconnect  BY <1>1, <1>13 DEF ControlReconnect
<1>14. CASE UNCHANGED vars  BY <1>1, <1>14 DEF vars, deviceVars
<1> QED
  BY <1>3, <1>4, <1>5, <1>6, <1>7, <1>8, <1>9, <1>10, <1>11, <1>12, <1>13, <1>14
     DEF Next, StreamRuns, StreamExits

\* Only finishGrant takes a stream from a passed deadline back to its loop.
LEMMA DeadlineActs ==
  ASSUME OwnerInv, DeadlineInv, [Next]_vars, NEW s \in Streams,
         spc[s] = "expired", granted, ~granted', spc'[s] = "run"
  PROVE  armedFor[s] = epoch
<1>0. StreamsOK  BY DEF OwnerInv
<1> USE DEF streamVars, localVars
<1>1. CASE UNCHANGED streamVars  BY <1>1
<1>2. ASSUME NEW t, StartMic(t) PROVE FALSE
  <2>1. ASSUME NEW r \in Streams, NewStream(r) PROVE FALSE
    BY <1>0, <2>1 DEF NewStream, StreamsOK
  <2> QED  BY <1>2, <2>1 DEF StartMic
<1>3. ASSUME NEW r \in Streams, FinishGrant(r) PROVE armedFor[s] = epoch
  <2>1. r = s  BY <1>0, <1>3 DEF FinishGrant, AtS, StreamsOK
  <2>2. epoch = turnEpoch[s]  BY <1>3, <2>1 DEF FinishGrant, FinishesGrant, grantVars
  <2> QED  BY <2>2 DEF DeadlineInv
<1>4. ASSUME NEW r \in Streams, FrameTake(r) \/ FrameRead(r) \/ FrameSend(r) \/ TimerCheck(r)
             \/ StreamReturns(r) \/ ExitWake(r)
      PROVE FALSE
  BY <1>0, <1>4 DEF FrameTake, FrameRead, FrameSend, TimerCheck, StreamReturns, ExitWake, AtS,
     StreamsOK
<1>5. CASE RecorderDies  BY <1>5 DEF RecorderDies
<1>6. CASE Controller
  BY <1>1, <1>6 DEF Controller, GrantTurn, TurnStarts, Hear, Play, PlayQuietly, Barge, Continue,
     EndTurn, ButtonTail, BeginTurn, deviceVars
<1>7. CASE Control
  BY <1>1, <1>7 DEF Control, RecvMicStart, RecvMicStop, RecvWakeGrant, GrantOrRefuse, RecvDisarm,
     StopMic
<1>8. ASSUME NEW g \in Go, Toggle(g) \/ MuteSteps(g) PROVE armedFor[s] = epoch
  BY <1>1, <1>2, <1>8 DEF Toggle, MuteSteps, SetMuted, MuteStops, StartChecks, StartsMic, StopMic
<1>9. ASSUME NEW c \in Conns, Dial(c) \/ DataDrop(c) \/ Connection(c) PROVE armedFor[s] = epoch
  BY <1>1, <1>2, <1>9 DEF Dial, DataDrop, Connection, ConnectChecks, ConnectStarts,
     ContextCancels, ConnectEnds, CleansMic
<1>10. CASE ControlReconnect  BY <1>1, <1>10 DEF ControlReconnect
<1>11. CASE UNCHANGED vars  BY <1>1, <1>11 DEF vars, deviceVars
<1> QED
  BY <1>3, <1>4, <1>5, <1>6, <1>7, <1>8, <1>9, <1>10, <1>11 DEF Next, StreamRuns, StreamExits

\* The no-speech deadline ends only the grant it was armed for (finishGrant's
\* comparison of epochs), for every interleaving of grants, stops and restarts.
THEOREM DeadlineScoped == Spec => DeadlineEndsItsTurn
<1>1. Init => DeadlineInv  BY DEF Init, DeadlineInv
<1>2. OwnerInv /\ DeadlineInv /\ [Next]_vars
        => [\A s \in Streams :
              spc[s] = "expired" /\ granted /\ ~granted' /\ spc'[s] = "run"
                  => armedFor[s] = epoch]_vars
  BY DeadlineActs
<1> QED
  BY <1>1, <1>2, OwnerInit, OwnerStep, DeadlineStep, PTL DEF Spec, DeadlineEndsItsTurn

-----------------------------------------------------------------------------
(* Which turn a disarm is for.  The control messages of one connection are    *)
(* delivered in order, so a disarm reaches the device behind every request of *)
(* an earlier turn and before any request of a later one: the grant it finds  *)
(* is never for a turn later than the one that was heard.                     *)

CtlMsg == [type : {"wake_grant", "mic_start", "mic_stop", "no_speech_disarm"},
           turn : 0..MaxEvents]

\* Appending what the controller sends keeps the queue typed.
LEMMA SendTyped ==
  ASSUME inbox \in Seq(CtlMsg), NEW ms \in Seq(CtlMsg), Send(ms)
  PROVE  inbox' \in Seq(CtlMsg)
BY DEF Send

LEMMA MsgTyped ==
  ASSUME NEW type \in {"wake_grant", "mic_start", "mic_stop", "no_speech_disarm"},
         NEW t \in 0..MaxEvents
  PROVE  Msg(type, t) \in CtlMsg
BY DEF Msg, CtlMsg

\* The controller's steps keep its half typed.
LEMMA ControllerTyped == ControllerOK /\ faults \in 0..MaxEvents /\ Controller => ControllerOK'
<1> SUFFICES ASSUME ControllerOK, faults \in 0..MaxEvents, Controller PROVE ControllerOK'
  OBVIOUS
<1>b. MaxEvents \in Nat  BY BoundsAssumption
<1>0. inbox \in Seq(CtlMsg)  BY DEF ControllerOK, CtlMsg
<1>q. inbox' \in Seq(CtlMsg) => inbox' \in Seq([type : {"wake_grant", "mic_start", "mic_stop",
                                   "no_speech_disarm"}, turn : 0..MaxEvents])
  BY DEF CtlMsg
<1>1. ASSUME NEW state \in {"offer", "listen"}, NEW type \in {"wake_grant", "mic_start"},
             BeginTurn(state, type)
      PROVE  ControllerOK'
  <2>1. turn + 1 \in 0..MaxEvents  BY <1>1, <1>b DEF BeginTurn, ControllerOK
  <2>2. <<Msg(type, turn + 1)>> \in Seq(CtlMsg)  BY <2>1, MsgTyped
  <2>3. inbox' \in Seq(CtlMsg)  BY <1>0, <1>1, <2>2, SendTyped DEF BeginTurn
  <2>4. /\ ctl' = state /\ tail' = tail /\ fed' = FALSE /\ turn' = turn + 1
        /\ started' = started /\ spoke' = spoke
    BY <1>1 DEF BeginTurn
  <2>5. started \in 0..turn' /\ spoke \in 0..turn'  BY <2>4, <1>b DEF ControllerOK
  <2> QED  BY <1>q, <2>1, <2>3, <2>4, <2>5 DEF ControllerOK
<1>2. CASE GrantTurn \/ Barge \/ Continue  BY <1>1, <1>2 DEF GrantTurn, Barge, Continue
<1>3. CASE TurnStarts \/ Play  BY <1>3 DEF TurnStarts, Play, ControllerOK
<1>4. CASE Hear
  <2>1. <<Msg("no_speech_disarm", turn)>> \in Seq(CtlMsg)  BY MsgTyped DEF ControllerOK
  <2>2. inbox' \in Seq(CtlMsg)  BY <1>0, <1>4, <2>1, SendTyped DEF Hear
  <2> QED  BY <1>4, <1>b, <1>q, <2>2 DEF Hear, ControllerOK
<1>5. ASSUME NEW button \in BOOLEAN, PlayQuietly \/ EndTurn(button) \/ ButtonTail
      PROVE  ControllerOK'
  <2>1. /\ Msg("mic_stop", 0) \in CtlMsg /\ Msg("mic_start", 0) \in CtlMsg
    BY <1>b, MsgTyped
  <2>2. /\ <<Msg("mic_stop", 0)>> \in Seq(CtlMsg) /\ <<Msg("mic_start", 0)>> \in Seq(CtlMsg)
        /\ <<Msg("mic_stop", 0), Msg("mic_start", 0)>> \in Seq(CtlMsg)
    BY <2>1
  <2>3. inbox' \in Seq(CtlMsg)
    BY <1>0, <1>5, <2>2, SendTyped DEF PlayQuietly, EndTurn, ButtonTail
  <2> QED  BY <1>5, <1>q, <2>3 DEF PlayQuietly, EndTurn, ButtonTail, ControllerOK
<1> QED  BY <1>2, <1>3, <1>4, <1>5 DEF Controller

\* What the queue of control messages says about turns.
OrderInv ==
    /\ \A i \in DOMAIN inbox : inbox[i].turn <= turn
    /\ \A i, j \in DOMAIN inbox :
          i < j /\ inbox[j].turn # 0 => inbox[i].turn <= inbox[j].turn
    /\ \A i \in DOMAIN inbox :
          inbox[i].turn # 0 => grantTurn <= inbox[i].turn /\ gturn["control"] <= inbox[i].turn
    /\ \A i \in DOMAIN inbox :
          inbox[i].type = "no_speech_disarm" => inbox[i].turn \in 1..spoke
    /\ gturn["button"] = 0 /\ gturn["control"] <= turn /\ grantTurn <= turn

\* The queue holds control messages, and each names a turn by its number.
LEMMA InboxTyped ==
  ASSUME TypeOK
  PROVE  /\ inbox \in Seq(CtlMsg) /\ turn \in Nat /\ spoke \in Nat
         /\ \A i \in DOMAIN inbox : inbox[i] \in CtlMsg /\ inbox[i].turn \in Nat
<1>1. inbox \in Seq(CtlMsg)  BY DEF TypeOK, ControllerOK, CtlMsg
<1>2. \A m \in CtlMsg : m.turn \in Nat  BY BoundsAssumption DEF CtlMsg
<1>3. turn \in Nat /\ spoke \in Nat  BY BoundsAssumption DEF TypeOK, ControllerOK
<1> QED  BY <1>1, <1>2, <1>3

\* What is sent names the running turn, or none.
LEMMA SendOrder ==
  ASSUME TypeOK, OrderInv, NEW ms \in Seq(CtlMsg), Send(ms), turn' \in Nat, spoke' \in 0..turn',
         turn <= turn', spoke <= spoke', UNCHANGED <<grantTurn, gturn>>,
         \A i \in DOMAIN ms : ms[i].turn \in {0, turn'},
         \A i \in DOMAIN ms : ms[i].type = "no_speech_disarm" => ms[i].turn \in 1..spoke'
  PROVE  OrderInv'
<1> DEFINE n == Len(inbox)
<1>1. inbox \in Seq(CtlMsg) /\ n \in Nat /\ turn \in Nat /\ spoke \in Nat
  BY InboxTyped
<1>2. /\ DOMAIN inbox' = 1..(n + Len(ms)) /\ Len(ms) \in Nat
      /\ \A i \in 1..n : inbox'[i] = inbox[i]
      /\ \A i \in (n + 1)..(n + Len(ms)) : inbox'[i] = ms[i - n] /\ i - n \in DOMAIN ms
  BY <1>1 DEF Send
<1>3. \A i \in DOMAIN inbox' : i \in 1..n \/ (i \in (n + 1)..(n + Len(ms)))
  BY <1>1, <1>2
<1>4. \A i \in 1..n : inbox[i] \in CtlMsg /\ inbox[i].turn \in Nat  BY <1>1, InboxTyped
<1>5. DOMAIN inbox = 1..n  BY <1>1
<1> HIDE DEF n
<1>6. gturn["control"] \in Nat /\ grantTurn \in Nat
  BY BoundsAssumption DEF TypeOK, DeviceOK, Go
<1>7. ASSUME NEW i \in DOMAIN inbox' PROVE inbox'[i].turn <= turn'
  <2>1. CASE i \in 1..n  BY <1>1, <1>2, <1>4, <1>5, <2>1 DEF OrderInv
  <2>2. CASE i \in (n + 1)..(n + Len(ms))  BY <1>2, <2>2
  <2> QED  BY <1>3, <2>1, <2>2
<1>8. ASSUME NEW i \in DOMAIN inbox', NEW j \in DOMAIN inbox', i < j, inbox'[j].turn # 0
      PROVE  inbox'[i].turn <= inbox'[j].turn
  <2>1. CASE j \in 1..n
    <3>1. i \in 1..n  BY <1>1, <1>2, <1>8, <2>1
    <3> QED  BY <1>2, <1>5, <1>8, <2>1, <3>1 DEF OrderInv
  <2>2. CASE j \in (n + 1)..(n + Len(ms))
    <3>1. inbox'[j].turn = turn'  BY <1>2, <1>8, <2>2
    <3> QED  BY <1>7, <3>1
  <2> QED  BY <1>3, <2>1, <2>2
<1>9. \A i \in DOMAIN inbox' : inbox'[i].turn # 0
         => grantTurn <= inbox'[i].turn /\ gturn["control"] <= inbox'[i].turn
  BY <1>1, <1>2, <1>3, <1>4, <1>5, <1>6 DEF OrderInv
<1>10. \A i \in DOMAIN inbox' : inbox'[i].type = "no_speech_disarm" => inbox'[i].turn \in 1..spoke'
  BY <1>1, <1>2, <1>3, <1>4, <1>5 DEF OrderInv
<1>11. gturn["control"] <= turn' /\ grantTurn <= turn' /\ gturn["button"] = 0
  BY <1>1, <1>6 DEF OrderInv
<1> QED  BY <1>7, <1>8, <1>9, <1>10, <1>11 DEF OrderInv

\* The same for one message.
LEMMA SendOneOrder ==
  ASSUME TypeOK, OrderInv, NEW m \in CtlMsg, Send(<<m>>), turn' \in Nat, spoke' \in 0..turn',
         turn <= turn', spoke <= spoke', UNCHANGED <<grantTurn, gturn>>,
         m.turn \in {0, turn'}, m.type = "no_speech_disarm" => m.turn \in 1..spoke'
  PROVE  OrderInv'
<1> DEFINE ms == <<m>>
<1>1. ms \in Seq(CtlMsg) /\ DOMAIN ms = {1} /\ ms[1] = m /\ Send(ms)  OBVIOUS
<1> HIDE DEF ms
<1> QED  BY <1>1, SendOrder

\* The message taken names no later turn than those behind it.
LEMMA ReceiveOrder ==
  ASSUME TypeOK, OrderInv, NEW type, Receives(type), UNCHANGED <<turn, spoke>>
  PROVE  /\ inbox' \in Seq(CtlMsg) /\ Head(inbox) \in CtlMsg /\ Head(inbox).type = type
         /\ Head(inbox).turn <= turn
         /\ Head(inbox).turn # 0 => grantTurn <= Head(inbox).turn
         /\ type = "no_speech_disarm" => Head(inbox).turn \in 1..spoke
         /\ \A i \in DOMAIN inbox' : inbox'[i].turn # 0 => Head(inbox).turn <= inbox'[i].turn
         /\ UNCHANGED <<gturn, grantTurn>> => OrderInv'
<1>1. inbox \in Seq(CtlMsg) /\ inbox # <<>> /\ inbox' = Tail(inbox) /\ Head(inbox).type = type
  BY DEF Receives, TypeOK, ControllerOK, CtlMsg
<1>2. Len(inbox) \in Nat \ {0} /\ Head(inbox) = inbox[1] /\ DOMAIN inbox = 1..Len(inbox)
  BY <1>1
<1>3. /\ inbox' \in Seq(CtlMsg) /\ DOMAIN inbox' = 1..(Len(inbox) - 1)
      /\ \A i \in DOMAIN inbox' : inbox'[i] = inbox[i + 1] /\ i + 1 \in DOMAIN inbox /\ 1 < i + 1
  BY <1>1, <1>2
<1>4. 1 \in DOMAIN inbox /\ Head(inbox) \in CtlMsg  BY <1>1, <1>2
<1>5. \A i, j \in DOMAIN inbox' : i < j => i + 1 < j + 1  BY <1>3
<1> QED  BY <1>1, <1>2, <1>3, <1>4, <1>5 DEF OrderInv

\* A step that touches none of what OrderInv is about.
LEMMA OrderKept ==
  ASSUME OrderInv, UNCHANGED <<inbox, turn, spoke, gturn, grantTurn>>
  PROVE  OrderInv'
BY DEF OrderInv

\* The grant of a turn whose request the control goroutine has taken, a grant
\* that ends, or a call that returns.
LEMMA GrantOrder ==
  ASSUME TypeOK, OrderInv, UNCHANGED <<inbox, turn, spoke>>,
         grantTurn' \in {0, grantTurn, gturn["control"]},
         gturn' \in [Go -> 0..MaxEvents], gturn'["button"] = 0,
         gturn'["control"] \in {0, gturn["control"]}
  PROVE  OrderInv'
<1>1. turn \in Nat /\ \A i \in DOMAIN inbox : inbox[i].turn \in Nat  BY InboxTyped
<1>2. gturn["control"] \in Nat /\ grantTurn \in Nat
  BY BoundsAssumption DEF TypeOK, DeviceOK, Go
<1> QED  BY <1>1, <1>2 DEF OrderInv

\* A grant is new and not disarmed; one that stays or ends needs no word from HA.
LEMMA GrantKeeps ==
  ASSUME TypeOK, DisarmNamesItsTurn, NEW t \in 0..MaxEvents,
         Grant(t) \/ Revoke \/ UNCHANGED grantVars,
         UNCHANGED <<disarmed, spoke>>
  PROVE  /\ granted' \in BOOLEAN /\ grantTurn' \in 0..MaxEvents /\ grantTurn' \in {0, grantTurn, t}
         /\ disarmed' \in 0..epoch'
         /\ DisarmNamesItsTurn'
<1>1. epoch \in Nat /\ 0 \in 0..MaxEvents  BY BoundsAssumption DEF TypeOK, StreamsOK
<1>2. CASE Grant(t)
  <2>1. epoch' = epoch + 1 /\ disarmed \in 0..epoch  BY <1>2 DEF Grant, TypeOK, DeviceOK
  <2> QED  BY <1>1, <1>2, <2>1 DEF Grant, TypeOK, DeviceOK, DisarmNamesItsTurn
<1>3. CASE Revoke  BY <1>1, <1>3 DEF Revoke, TypeOK, DeviceOK, DisarmNamesItsTurn
<1>4. CASE UNCHANGED grantVars
  BY <1>1, <1>4 DEF grantVars, TypeOK, DeviceOK, DisarmNamesItsTurn
<1> QED  BY <1>2, <1>3, <1>4

\* What StartMic and StopMic do to the grant and to the stream's connection.
LEMMA StartMicGrants ==
  ASSUME NEW t, StartMic(t)
  PROVE  (Grant(t) \/ Revoke \/ UNCHANGED grantVars) /\ micConn' \in {micConn, conn}
BY DEF StartMic, NewStream, micVars

LEMMA StopMicGrants ==
  ASSUME StopMic
  PROVE  (Revoke \/ UNCHANGED grantVars) /\ micConn' \in {micConn, None}
BY DEF StopMic, Close, grantVars

MicInv == TypeOK /\ OrderInv /\ DisarmNamesItsTurn
MicStep == (ControllerOK /\ DeviceOK /\ OrderInv /\ DisarmNamesItsTurn)'

\* The turn loop.
LEMMA ControllerStep == MicInv /\ Controller => MicStep
<1> SUFFICES ASSUME MicInv, Controller PROVE MicStep  OBVIOUS
<1>1. UNCHANGED deviceVars /\ turn \in Nat /\ turn <= turn' /\ spoke <= spoke' /\ spoke \in 0..turn
  BY InboxTyped DEF MicInv, TypeOK, ControllerOK, Controller, GrantTurn, TurnStarts, Hear, Play,
     PlayQuietly, Barge, Continue, EndTurn, ButtonTail, BeginTurn
<1>2. DeviceOK' /\ DisarmNamesItsTurn'
  <2>1. UNCHANGED <<hwMuted, muted, granted, grantTurn, epoch, disarmed, gpc, gto, gturn, conn,
                    micConn, dpc, orphans, faults>>
    BY <1>1 DEF deviceVars, muteVars, micVars, grantVars, goVars, dataVars
  <2>2. spoke \in Nat /\ spoke' \in Int /\ grantTurn \in Int
    <3>1. spoke' \in {spoke, turn}
      BY DEF Controller, GrantTurn, TurnStarts, Hear, Play, PlayQuietly, Barge, Continue, EndTurn,
         ButtonTail, BeginTurn
    <3> QED  BY <1>1, <3>1, BoundsAssumption DEF MicInv, TypeOK, DeviceOK
  <2> QED  BY <1>1, <2>1, <2>2 DEF MicInv, TypeOK, DeviceOK, DisarmNamesItsTurn
<1>3. ControllerOK'
  <2>1. faults \in 0..MaxEvents  BY DEF MicInv, TypeOK, DeviceOK
  <2> QED  BY <2>1, ControllerTyped DEF MicInv, TypeOK
<1>4. OrderInv'
  <2> USE InboxTyped DEF MicInv
  <2>g. UNCHANGED <<grantTurn, gturn>>  BY <1>1 DEF deviceVars, grantVars, goVars
  <2>1. ASSUME NEW state \in {"offer", "listen"}, NEW type \in {"wake_grant", "mic_start"},
               BeginTurn(state, type)
        PROVE  OrderInv'
    <3> DEFINE m == Msg(type, turn + 1)
    <3>1. turn' = turn + 1 /\ spoke' = spoke /\ Send(<<m>>)  BY <2>1 DEF BeginTurn
    <3>2. turn + 1 \in 0..MaxEvents
      BY <1>3, <2>1, <3>1 DEF ControllerOK
    <3>3. m \in CtlMsg /\ m.turn = turn' /\ m.type = type  BY <3>1, <3>2, MsgTyped DEF Msg
    <3> HIDE DEF m
    <3> QED  BY <1>1, <2>g, <3>1, <3>3, SendOneOrder
  <2>2. CASE GrantTurn \/ Barge \/ Continue  BY <2>1, <2>2 DEF GrantTurn, Barge, Continue
  <2>3. CASE TurnStarts \/ Play  BY <2>3, <2>g, OrderKept DEF TurnStarts, Play
  <2>4. CASE Hear
    <3> DEFINE m == Msg("no_speech_disarm", turn)
    <3>1. turn' = turn /\ spoke' = turn /\ spoke # turn /\ Send(<<m>>)  BY <2>4 DEF Hear
    <3>2. turn \in 0..MaxEvents  BY DEF TypeOK, ControllerOK
    <3>3. m \in CtlMsg /\ m.turn = turn'  BY <3>1, <3>2, MsgTyped DEF Msg
    <3>5. turn \in 1..spoke'  BY <1>1, <3>1
    <3> HIDE DEF m
    <3> QED  BY <1>1, <2>g, <3>1, <3>3, <3>5, SendOneOrder
  <2>5. ASSUME NEW button \in BOOLEAN, PlayQuietly \/ EndTurn(button) \/ ButtonTail
        PROVE  OrderInv'
    <3> DEFINE stop == Msg("mic_stop", 0)
               start == Msg("mic_start", 0)
    <3>1. /\ stop \in CtlMsg /\ start \in CtlMsg /\ stop.turn = 0 /\ start.turn = 0
          /\ stop.type # "no_speech_disarm" /\ start.type # "no_speech_disarm"
      BY BoundsAssumption, MsgTyped DEF Msg
    <3>2. /\ turn' = turn /\ spoke' = spoke
          /\ Send(<<stop>>) \/ Send(<<start>>) \/ Send(<<stop, start>>)
      BY <2>5 DEF PlayQuietly, EndTurn, ButtonTail
    <3> HIDE DEF stop, start
    <3>3. CASE Send(<<stop>>) \/ Send(<<start>>)
      BY <1>1, <2>g, <3>1, <3>2, <3>3, SendOneOrder
    <3>4. CASE Send(<<stop, start>>)
      <4> DEFINE q == <<stop, start>>
      <4>1. q \in Seq(CtlMsg) /\ DOMAIN q = {1, 2} /\ q[1] = stop /\ q[2] = start  BY <3>1
      <4>2. Send(q)  BY <3>4
      <4> HIDE DEF q
      <4>3. \A i \in DOMAIN q : q[i].turn = 0 /\ q[i].type # "no_speech_disarm"  BY <3>1, <4>1
      <4> QED  BY <1>1, <2>g, <3>2, <4>1, <4>2, <4>3, SendOrder
    <3> QED  BY <3>2, <3>3, <3>4
  <2> QED  BY <2>2, <2>3, <2>4, <2>5 DEF Controller
<1> QED  BY <1>2, <1>3, <1>4 DEF MicStep

\* The control goroutine's messages.
LEMMA ControlStep == MicInv /\ Control => MicStep
<1> SUFFICES ASSUME MicInv, Control PROVE MicStep  OBVIOUS
<1> USE DEF MicInv, MicStep
<1>0. /\ turn \in 0..MaxEvents /\ started \in 0..turn /\ spoke \in 0..turn /\ MaxEvents \in Nat
      /\ "control" \in Go /\ "button" \in Go /\ gturn \in [Go -> 0..MaxEvents]
      /\ inbox \in Seq(CtlMsg)
  BY BoundsAssumption, InboxTyped DEF TypeOK, ControllerOK, DeviceOK, Go
<1>r. ASSUME NEW type, Receives(type), UNCHANGED ctlVars
      PROVE  /\ ControllerOK' /\ Head(inbox).turn \in 0..MaxEvents
             /\ UNCHANGED <<gturn, grantTurn>> => OrderInv'
  <2>1. /\ inbox' \in Seq(CtlMsg) /\ Head(inbox) \in CtlMsg
        /\ UNCHANGED <<gturn, grantTurn>> => OrderInv'
    BY <1>r, ReceiveOrder DEF ctlVars
  <2> QED  BY <1>r, <2>1 DEF ctlVars, CtlMsg, TypeOK, ControllerOK
<1>1. ASSUME NEW type \in {"mic_start", "wake_grant"}, NEW p \in {"checking", "granting"},
             Receives(type), Calls(p, Head(inbox).turn) \/ UNCHANGED <<gpc, gturn>>,
             UNCHANGED <<ctlVars, muteVars, micVars, grantVars, disarmed, gto, dataVars, streamVars,
                         faults>>
      PROVE  MicStep
  <2>1. ControllerOK' /\ Head(inbox).turn \in 0..MaxEvents  BY <1>1, <1>r
  <2>2. DeviceOK' /\ DisarmNamesItsTurn'
    BY <1>0, <1>1, <2>1 DEF Calls, At, TypeOK, DeviceOK, DisarmNamesItsTurn, ctlVars, muteVars,
       micVars, grantVars, dataVars
  <2>3. OrderInv'
    <3>1. CASE UNCHANGED <<gpc, gturn>>  BY <1>1, <1>r, <3>1 DEF grantVars
    <3>2. CASE Calls(p, Head(inbox).turn)
      <4>1. gturn' = [gturn EXCEPT !["control"] = Head(inbox).turn] /\ grantTurn' = grantTurn
            /\ turn' = turn /\ spoke' = spoke
        BY <1>1, <3>2 DEF Calls, ctlVars, grantVars
      <4>2. gturn'["control"] = Head(inbox).turn /\ gturn'["button"] = gturn["button"]
        BY <1>0, <4>1
      <4>3. inbox # <<>> /\ inbox' = Tail(inbox)  BY <1>1 DEF Receives
      <4>4. /\ inbox' \in Seq(CtlMsg) /\ DOMAIN inbox' = 1..(Len(inbox) - 1)
            /\ \A i \in DOMAIN inbox' : inbox'[i] = inbox[i + 1] /\ i + 1 \in DOMAIN inbox
            /\ Head(inbox) = inbox[1] /\ 1 \in DOMAIN inbox
        BY <1>0, <4>3
      <4>5. \A i, j \in DOMAIN inbox' : i < j => i + 1 < j + 1  BY <4>4
      <4>6. \A i \in DOMAIN inbox' : inbox'[i].turn # 0 => Head(inbox).turn <= inbox'[i].turn
        BY <1>1, ReceiveOrder DEF ctlVars
      <4> QED  BY <4>1, <4>2, <4>4, <4>5, <4>6 DEF OrderInv
    <3> QED  BY <1>1, <3>1, <3>2
  <2> QED  BY <2>1, <2>2, <2>3
<1>2. CASE RecvMicStart
  BY <1>1, <1>2 DEF RecvMicStart
<1>3. CASE RecvWakeGrant
  BY <1>1, <1>3 DEF RecvWakeGrant
<1>4. CASE RecvMicStop
  <2>1. (Revoke \/ UNCHANGED grantVars) /\ micConn' \in {micConn, None}
    BY <1>4, StopMicGrants DEF RecvMicStop
  <2>2. /\ UNCHANGED <<ctlVars, muteVars, disarmed, goVars, dataVars, faults>>
        /\ Receives("mic_stop")
    BY <1>4 DEF RecvMicStop
  <2>3. /\ granted' \in BOOLEAN /\ grantTurn' \in 0..MaxEvents /\ grantTurn' \in {0, grantTurn}
        /\ disarmed' \in 0..epoch' /\ DisarmNamesItsTurn'
    BY <1>0, <2>1, <2>2, GrantKeeps DEF ctlVars
  <2>4. ControllerOK'  BY <1>r, <2>2
  <2>5. DeviceOK'  BY <2>1, <2>2, <2>3 DEF muteVars, goVars, dataVars, TypeOK, DeviceOK
  <2>6. OrderInv'
    <3>1. /\ inbox' \in Seq(CtlMsg) /\ inbox # <<>> /\ inbox' = Tail(inbox)
          /\ turn' = turn /\ spoke' = spoke /\ gturn' = gturn
      BY <2>2, ReceiveOrder DEF Receives, ctlVars, goVars
    <3>2. /\ DOMAIN inbox' = 1..(Len(inbox) - 1)
          /\ \A i \in DOMAIN inbox' : inbox'[i] = inbox[i + 1] /\ i + 1 \in DOMAIN inbox
      BY <1>0, <3>1
    <3>3. \A i, j \in DOMAIN inbox' : i < j => i + 1 < j + 1  BY <3>2
    <3>4. \A i \in DOMAIN inbox' : inbox'[i].turn \in Nat  BY <3>2, InboxTyped
    <3> QED  BY <1>0, <2>3, <3>1, <3>2, <3>3, <3>4 DEF OrderInv
  <2> QED  BY <2>3, <2>4, <2>5, <2>6
<1>5. CASE GrantOrRefuse
  <2> DEFINE t == gturn["control"]
  <2>1. t \in 0..MaxEvents /\ t <= turn  BY <1>0 DEF OrderInv
  <2>2. /\ gpc' = [gpc EXCEPT !["control"] = "idle"] /\ gturn' = [gturn EXCEPT !["control"] = 0]
        /\ UNCHANGED <<ctl, tail, turn, spoke, fed, inbox, muteVars, micVars, disarmed, gto,
                       dataVars, streamVars, faults>>
        /\ Grant(t) \/ UNCHANGED grantVars
        /\ started' \in {started, t}
    BY <1>5 DEF GrantOrRefuse, Returns, At
  <2> HIDE DEF t
  <2>3. /\ granted' \in BOOLEAN /\ grantTurn' \in 0..MaxEvents /\ grantTurn' \in {0, grantTurn, t}
        /\ disarmed' \in 0..epoch' /\ DisarmNamesItsTurn'
    BY <2>1, <2>2, GrantKeeps
  <2>4. gturn' \in [Go -> 0..MaxEvents] /\ gturn'["control"] = 0 /\ gturn'["button"] = 0
    BY <1>0, <2>2 DEF OrderInv, Go
  <2>5. ControllerOK'  BY <1>0, <2>1, <2>2 DEF TypeOK, ControllerOK
  <2>6. DeviceOK'  BY <2>2, <2>3, <2>4 DEF muteVars, micVars, dataVars, TypeOK, DeviceOK
  <2>7. OrderInv'  BY <2>2, <2>3, <2>4, GrantOrder DEF t
  <2> QED  BY <2>3, <2>5, <2>6, <2>7
<1>6. CASE RecvDisarm
  <2>1. /\ Receives("no_speech_disarm") /\ disarmed' = epoch
        /\ UNCHANGED <<ctlVars, muteVars, micVars, grantVars, goVars, dataVars, streamVars, faults>>
    BY <1>6 DEF RecvDisarm, LastGrant
  <2>2. ControllerOK' /\ OrderInv'  BY <1>r, <2>1 DEF grantVars, goVars
  <2>3. epoch \in Nat  BY DEF TypeOK, StreamsOK
  <2>4. DeviceOK'
    BY <2>1, <2>3 DEF muteVars, micVars, grantVars, goVars, dataVars, TypeOK, DeviceOK
  <2>5. /\ Head(inbox).turn # 0 => grantTurn <= Head(inbox).turn
        /\ Head(inbox).turn \in 1..spoke
    BY <2>1, ReceiveOrder DEF ctlVars
  <2>6. grantTurn \in Nat /\ spoke \in Nat  BY <1>0 DEF TypeOK, DeviceOK
  <2>7. spoke >= grantTurn  BY <2>5, <2>6
  <2>8. DisarmNamesItsTurn'  BY <2>1, <2>7 DEF DisarmNamesItsTurn, ctlVars, grantVars
  <2> QED  BY <2>2, <2>4, <2>8
<1> QED  BY <1>2, <1>3, <1>4, <1>5, <1>6 DEF Control

\* Everything else leaves the queue and the running turn alone.
LEMMA BesideStep ==
  ASSUME MicInv, NEW t \in {0, gturn["control"]}, UNCHANGED <<inbox, turn, started, spoke, disarmed>>,
         Grant(t) \/ Revoke \/ UNCHANGED grantVars,
         ctl' \in {"idle", ctl}, tail' \in BOOLEAN, fed' \in BOOLEAN,
         hwMuted' \in BOOLEAN, muted' \in BOOLEAN, faults' \in 0..MaxEvents,
         gpc' \in [Go -> {"idle", "starting", "granting", "toggled", "stopping", "checking"}],
         gto' \in [Go -> BOOLEAN], gturn' \in [Go -> 0..MaxEvents],
         gturn'["button"] = 0, gturn'["control"] \in {0, gturn["control"]},
         conn' \in Conns \cup {None}, micConn' \in Conns \cup {None},
         dpc' \in [Conns -> {"off", "checking", "starting", "up", "unpublish"}],
         orphans' \subseteq Conns
  PROVE  MicStep
<1> USE DEF MicInv
<1>1. t \in 0..MaxEvents  BY BoundsAssumption DEF TypeOK, DeviceOK, Go
<1>2. /\ granted' \in BOOLEAN /\ grantTurn' \in 0..MaxEvents /\ grantTurn' \in {0, grantTurn, t}
      /\ disarmed' \in 0..epoch' /\ DisarmNamesItsTurn'
  BY <1>1, GrantKeeps
<1>3. OrderInv'  BY <1>2, GrantOrder
<1>4. ControllerOK'  BY DEF TypeOK, ControllerOK
<1>5. DeviceOK'  BY <1>2 DEF DeviceOK
<1> QED  BY <1>2, <1>3, <1>4, <1>5 DEF MicStep

\* The mute switch, its callers and StartMic.
LEMMA MuteStep ==
  ASSUME MicInv, NEW g \in Go, Toggle(g) \/ MuteSteps(g)
  PROVE  MicStep
<1> USE DEF muteVars, micVars, grantVars, goVars, dataVars, ctlVars, At, Returns
<1>0. /\ MaxEvents \in Nat /\ turn \in Nat /\ faults \in 0..MaxEvents
      /\ tail \in BOOLEAN /\ fed \in BOOLEAN /\ hwMuted \in BOOLEAN /\ muted \in BOOLEAN
      /\ gpc \in [Go -> {"idle", "starting", "granting", "toggled", "stopping", "checking"}]
      /\ gto \in [Go -> BOOLEAN] /\ gturn \in [Go -> 0..MaxEvents]
      /\ conn \in Conns \cup {None} /\ micConn \in Conns \cup {None}
      /\ dpc \in [Conns -> {"off", "checking", "starting", "up", "unpublish"}]
      /\ orphans \subseteq Conns
  BY BoundsAssumption, InboxTyped DEF MicInv, TypeOK, ControllerOK, DeviceOK
<1>1. gturn["button"] = 0 /\ 0 \in 0..MaxEvents  BY <1>0 DEF MicInv, OrderInv
<1>2. CASE Toggle(g)
  <2>1. faults' \in 0..MaxEvents  BY <1>0, <1>2 DEF Toggle
  <2> QED  BY <1>0, <1>1, <1>2, <2>1, BesideStep DEF Toggle
<1>3. CASE SetMuted(g)
  <2>1. gto[g] \in BOOLEAN  BY <1>0
  <2> QED  BY <1>0, <1>1, <1>3, <2>1, BesideStep DEF SetMuted
<1>4. CASE MuteStops(g)
  <2>1. (Revoke \/ UNCHANGED grantVars) /\ micConn' \in {micConn, None}
    BY <1>4, StopMicGrants DEF MuteStops
  <2>2. /\ gpc' = [gpc EXCEPT ![g] = IF gto[g] THEN "idle" ELSE "checking"]
        /\ gto' = [gto EXCEPT ![g] = FALSE]
        /\ UNCHANGED <<ctlVars, inbox, muteVars, disarmed, gturn, dataVars, faults>>
    BY <1>4 DEF MuteStops
  <2> QED  BY <1>0, <1>1, <2>1, <2>2, BesideStep
<1>5. CASE StartChecks(g)
  <2>1. \/ gturn' = gturn
        \/ gturn' = [gturn EXCEPT ![g] = 0]
    BY <1>5 DEF StartChecks
  <2>2. gturn' \in [Go -> 0..MaxEvents] /\ gturn'["button"] = 0
        /\ gturn'["control"] \in {0, gturn["control"]}
    BY <1>0, <1>1, <2>1 DEF Go
  <2>3. gpc' \in [Go -> {"idle", "starting", "granting", "toggled", "stopping", "checking"}]
    BY <1>0, <1>5 DEF StartChecks
  <2> QED  BY <1>0, <1>5, <2>2, <2>3, BesideStep DEF StartChecks
<1>6. CASE StartsMic(g)
  <2>1. StartMic(gturn[g])  BY <1>6 DEF StartsMic
  <2>2. (Grant(gturn[g]) \/ Revoke \/ UNCHANGED grantVars) /\ micConn' \in {micConn, conn}
    BY <2>1, StartMicGrants
  <2>3. gturn[g] \in {0, gturn["control"]}  BY <1>1 DEF Go
  <2>4. /\ gpc' = [gpc EXCEPT ![g] = "idle"] /\ gturn' = [gturn EXCEPT ![g] = 0]
        /\ UNCHANGED <<ctlVars, inbox, muteVars, disarmed, gto, dataVars, faults>>
    BY <1>6 DEF StartsMic
  <2>5. gturn' \in [Go -> 0..MaxEvents] /\ gturn'["button"] = 0
        /\ gturn'["control"] \in {0, gturn["control"]}
    BY <1>0, <1>1, <2>4 DEF Go
  <2>6. gpc' \in [Go -> {"idle", "starting", "granting", "toggled", "stopping", "checking"}]
    BY <1>0, <2>4
  <2> QED  BY <1>0, <2>2, <2>3, <2>4, <2>5, <2>6, BesideStep
<1> QED  BY <1>2, <1>3, <1>4, <1>5, <1>6 DEF MuteSteps

\* Connections, streams and what breaks.
LEMMA StreamStep ==
  ASSUME MicInv,
         \/ \E c \in Conns : Dial(c) \/ DataDrop(c) \/ Connection(c)
         \/ ControlReconnect \/ RecorderDies
         \/ \E s \in Streams : StreamRuns(s) \/ TimerCheck(s) \/ StreamExits(s)
  PROVE  MicStep
<1> USE DEF muteVars, micVars, grantVars, goVars, dataVars, ctlVars
<1>0. /\ MaxEvents \in Nat /\ turn \in Nat /\ faults \in 0..MaxEvents
      /\ tail \in BOOLEAN /\ fed \in BOOLEAN /\ hwMuted \in BOOLEAN /\ muted \in BOOLEAN
      /\ gpc \in [Go -> {"idle", "starting", "granting", "toggled", "stopping", "checking"}]
      /\ gto \in [Go -> BOOLEAN] /\ gturn \in [Go -> 0..MaxEvents]
      /\ conn \in Conns \cup {None} /\ micConn \in Conns \cup {None}
      /\ dpc \in [Conns -> {"off", "checking", "starting", "up", "unpublish"}]
      /\ orphans \subseteq Conns /\ gturn["button"] = 0 /\ ctl \in {"idle", ctl}
  BY BoundsAssumption, InboxTyped DEF MicInv, TypeOK, ControllerOK, DeviceOK, OrderInv
<1>1. ASSUME NEW c \in Conns, Dial(c) PROVE MicStep
  <2>1. /\ conn' = c /\ orphans' = orphans \ {c} /\ dpc' = [dpc EXCEPT ![c] = "checking"]
        /\ UNCHANGED <<ctlVars, inbox, muteVars, micVars, grantVars, disarmed, goVars, faults>>
    BY <1>1 DEF Dial
  <2> QED  BY <1>0, <2>1, BesideStep
<1>2. ASSUME NEW c \in Conns, ConnectChecks(c) \/ ConnectEnds(c) PROVE MicStep
  <2>1. /\ conn' \in {conn, None} /\ orphans' \subseteq orphans
        /\ \E p \in {"up", "starting", "off"} : dpc' = [dpc EXCEPT ![c] = p]
        /\ UNCHANGED <<ctlVars, inbox, muteVars, micVars, grantVars, disarmed, goVars, faults>>
    BY <1>2 DEF ConnectChecks, ConnectEnds
  <2> QED  BY <1>0, <2>1, BesideStep
<1>3. ASSUME NEW c \in Conns, ConnectStarts(c) PROVE MicStep
  <2>1. (Grant(0) \/ Revoke \/ UNCHANGED grantVars) /\ micConn' \in {micConn, conn}
    BY <1>3, StartMicGrants DEF ConnectStarts
  <2>2. /\ dpc' = [dpc EXCEPT ![c] = "up"]
        /\ UNCHANGED <<ctlVars, inbox, muteVars, disarmed, goVars, conn, orphans, faults>>
    BY <1>3 DEF ConnectStarts
  <2> QED  BY <1>0, <2>1, <2>2, BesideStep
<1>4. ASSUME NEW c \in Conns, DataDrop(c) \/ ContextCancels(c) PROVE MicStep
  <2>1. CleansMic(c) /\ faults' \in 0..MaxEvents  BY <1>0, <1>4 DEF DataDrop, ContextCancels
  <2>2. /\ dpc' = [dpc EXCEPT ![c] = "unpublish"] /\ micConn' \in {micConn, None}
        /\ UNCHANGED <<ctlVars, inbox, muteVars, grantVars, disarmed, goVars, conn, orphans>>
    BY <2>1 DEF CleansMic, Close
  <2> QED  BY <1>0, <2>1, <2>2, BesideStep
<1>5. CASE ControlReconnect
  <2>1. /\ inbox' = <<>> /\ ctl' = "idle" /\ fed' = FALSE /\ tail' = FALSE
        /\ faults' \in 0..MaxEvents /\ orphans' \subseteq Conns
        /\ UNCHANGED <<turn, started, spoke, muteVars, micVars, grantVars, disarmed, goVars, conn, dpc>>
    BY <1>0, <1>5 DEF ControlReconnect
  <2>2. ControllerOK'
    <3>1. <<>> \in Seq(CtlMsg)  OBVIOUS
    <3> QED  BY <2>1, <3>1 DEF MicInv, TypeOK, ControllerOK, CtlMsg
  <2>3. DeviceOK'  BY <2>1 DEF MicInv, TypeOK, DeviceOK
  <2>4. OrderInv' /\ DisarmNamesItsTurn'
    BY <2>1 DEF MicInv, OrderInv, DisarmNamesItsTurn
  <2> QED  BY <2>2, <2>3, <2>4 DEF MicStep
<1>6. CASE RecorderDies
  <2>1. /\ faults' \in 0..MaxEvents
        /\ UNCHANGED <<ctlVars, inbox, muteVars, micVars, grantVars, disarmed, goVars, dataVars>>
    BY <1>0, <1>6 DEF RecorderDies
  <2> QED  BY <1>0, <2>1, BesideStep
<1>7. ASSUME NEW s \in Streams, FrameTake(s) \/ FrameRead(s) \/ TimerCheck(s) PROVE MicStep
  <2>1. UNCHANGED <<ctlVars, inbox, muteVars, micVars, grantVars, disarmed, goVars, dataVars, faults>>
    BY <1>7 DEF FrameTake, FrameRead, TimerCheck
  <2> QED  BY <1>0, <2>1, BesideStep
<1>8. ASSUME NEW s \in Streams, FrameSend(s) PROVE MicStep
  <2>1. fed' \in BOOLEAN
        /\ UNCHANGED <<ctl, tail, turn, started, spoke, inbox, muteVars, micVars, grantVars, disarmed,
                       goVars, dataVars, faults>>
    BY <1>0, <1>8 DEF FrameSend
  <2> QED  BY <1>0, <2>1, BesideStep
<1>9. ASSUME NEW s \in Streams, FinishGrant(s) \/ ExitWake(s) PROVE MicStep
  <2>1. /\ Revoke \/ UNCHANGED grantVars
        /\ UNCHANGED <<ctlVars, inbox, muteVars, micVars, disarmed, goVars, dataVars, faults>>
    BY <1>9 DEF FinishGrant, ExitWake
  <2> QED  BY <1>0, <2>1, BesideStep
<1>10. ASSUME NEW s \in Streams, StreamReturns(s) PROVE MicStep
  <2>1. /\ micConn' \in {micConn, None}
        /\ UNCHANGED <<ctlVars, inbox, muteVars, grantVars, disarmed, goVars, dataVars, faults>>
    BY <1>10 DEF StreamReturns
  <2> QED  BY <1>0, <2>1, BesideStep
<1> QED
  BY <1>1, <1>2, <1>3, <1>4, <1>5, <1>6, <1>7, <1>8, <1>9, <1>10
     DEF Connection, StreamRuns, StreamExits

LEMMA MicAlways == Spec => [](OwnerInv /\ MicInv)
<1>1. Init => OwnerInv /\ MicInv
  <2> SUFFICES ASSUME Init PROVE OwnerInv /\ MicInv  OBVIOUS
  <2>1. OwnerInv  BY OwnerInit
  <2>2. StreamsOK  BY <2>1 DEF OwnerInv
  <2>3. ControllerOK
    <3>1. 0 \in 0..MaxEvents /\ 0 \in 0..0 /\ <<>> \in Seq(CtlMsg)  BY BoundsAssumption
    <3> QED  BY <3>1 DEF Init, ControllerOK, CtlMsg
  <2>4. DeviceOK
    <3>1. hwMuted \in BOOLEAN /\ muted \in BOOLEAN /\ granted = FALSE /\ grantTurn = 0
          /\ disarmed = 0 /\ epoch = 0 /\ faults = 0 /\ orphans = {}
      BY DEF Init
    <3>2. gpc \in [Go -> {"idle"}] /\ gto \in [Go -> BOOLEAN] /\ gturn \in [Go -> {0}]
      BY DEF Init
    <3>3. conn \in Conns /\ micConn \in Conns \cup {None} /\ dpc \in [Conns -> {"up", "off"}]
      BY DEF Init
    <3>4. 0 \in 0..MaxEvents /\ 0 \in 0..0  BY BoundsAssumption
    <3> QED  BY <3>1, <3>2, <3>3, <3>4 DEF DeviceOK
  <2>5. OrderInv  BY DEF Init, OrderInv, Go
  <2>6. DisarmNamesItsTurn  BY DEF Init, DisarmNamesItsTurn
  <2> QED  BY <2>1, <2>2, <2>3, <2>4, <2>5, <2>6 DEF MicInv, TypeOK
<1>2. OwnerInv /\ MicInv /\ [Next]_vars => (OwnerInv /\ MicInv)'
  <2> SUFFICES ASSUME OwnerInv, MicInv, [Next]_vars PROVE OwnerInv' /\ MicInv'  OBVIOUS
  <2>1. OwnerInv' /\ StreamsOK'  BY OwnerStep DEF OwnerInv
  <2>2. MicStep
    <3>1. CASE Controller  BY <3>1, ControllerStep
    <3>2. CASE Control  BY <3>2, ControlStep
    <3>3. CASE \E g \in Go : Toggle(g) \/ MuteSteps(g)  BY <3>3, MuteStep
    <3>4. CASE \/ \E c \in Conns : Dial(c) \/ DataDrop(c) \/ Connection(c)
               \/ ControlReconnect \/ RecorderDies
               \/ \E s \in Streams : StreamRuns(s) \/ TimerCheck(s) \/ StreamExits(s)
      BY <3>4, StreamStep
    <3>5. CASE UNCHANGED vars
      BY <3>5 DEF vars, ctlVars, deviceVars, muteVars, micVars, grantVars, goVars, dataVars, MicInv,
         MicStep, TypeOK, ControllerOK, DeviceOK, OrderInv, DisarmNamesItsTurn
    <3> QED  BY <3>1, <3>2, <3>3, <3>4, <3>5 DEF Next
  <2> QED  BY <2>1, <2>2 DEF MicStep, MicInv, TypeOK
<1> QED  BY <1>1, <1>2, PTL DEF Spec

\* Type correctness of the microphone, its callers and the controller's loop.
THEOREM MicTypes == Spec => []TypeOK
<1>1. MicInv => TypeOK  BY DEF MicInv
<1> QED  BY <1>1, MicAlways, PTL

\* no_speech_disarm carries no turn; that it never disarms the deadline of a
\* turn later than the one Home Assistant heard rests on the order of the
\* control messages alone, for every number of turns, mutes and reconnects.
THEOREM DisarmScoped == Spec => []DisarmNamesItsTurn
<1>1. MicInv => DisarmNamesItsTurn  BY DEF MicInv
<1> QED  BY <1>1, MicAlways, PTL
=============================================================================
