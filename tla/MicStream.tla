------------------------------ MODULE MicStream ------------------------------
(***************************************************************************)
(* The microphone of one Echo: client.DataClient's mic stream and grant,   *)
(* the goroutines that start and stop it, and the controller's turn loop   *)
(* that commands it.  The control goroutine handles the controller's       *)
(* messages in order; the button goroutine toggles mute; every data        *)
(* connection starts a stream when it is up and stops it when it ends; a   *)
(* stream is a goroutine of its own, of which several may be on their way  *)
(* out.  An action is one critical section of micMu or wakeMu, or one read *)
(* of a flag between them.                                                 *)
(*                                                                         *)
(* Audio is not modelled, only which turn it is sent for.  The no-speech   *)
(* deadline is configured (not 0) and may pass at any time.                *)
(***************************************************************************)
EXTENDS Integers, Sequences, FiniteSets

CONSTANTS
    Streams,    \* streamMic goroutines that may exist at once
    Conns,      \* data connections that may exist at once
    None,       \* Go's nil
    MaxInbox,   \* bound: control messages under way
    MaxEvents   \* bound: turns of the controller, mute toggles, lost connections and
                \* recorder deaths together

ASSUME NoneAssumption == None \notin Streams \cup Conns
ASSUME BoundsAssumption == {MaxInbox, MaxEvents} \subseteq Nat

VARIABLES
    \* the controller
    ctl,        \* the turn loop: "idle", "offer" (wake_grant sent), "listen", "play",
                \* or "quiet" (plays, mic stopped)
    tail,       \* a button turn's task has not yet sent its stop/start pair
    turn,       \* turns so far; the last is the running one
    started,    \* the last turn the device reported started
    spoke,      \* the last turn HA heard speech in
    fed,        \* the running turn was sent audio
    inbox,      \* control messages to the device, oldest first
    \* mute: muteController.muted and its mirror in the DataClient
    hwMuted, muted,
    \* the mic stream
    active,     \* micActive
    cur,        \* the stream whose channel is micStopCh
    micConn,    \* micConn of an active stream
    closed,     \* running streams whose stop channel is closed
    \* the grant, under wakeMu
    granted,    \* wakeGranted
    epoch,      \* grantEpoch
    disarmed,   \* noSpeechDisarmedEpoch
    \* the goroutines
    gpc,        \* where the control and button goroutines are
    gto,        \* the mute state a Toggle under way applies
    gturn,      \* the turn a StartMic or GrantMic under way is for, 0: none
    conn,       \* d.conn
    dpc,        \* where each data connection's goroutine is
    orphans,    \* connections whose context a control reconnect cancelled
    spc,        \* where each stream goroutine is
    alive,      \* the AFE recorder delivers frames
    eof,        \* streams whose microphone channel it closed
    turnEpoch, armedFor, timer,  \* locals of each streamMic
    \* the environment
    faults,
    \* history
    grantTurn   \* the turn the open grant was made for, 0: none

ctlVars == <<ctl, tail, turn, started, spoke, fed>>
muteVars == <<hwMuted, muted>>
micVars == <<active, cur, micConn, closed>>
grantVars == <<granted, epoch, grantTurn>>
goVars == <<gpc, gto, gturn>>
dataVars == <<conn, dpc, orphans>>
localVars == <<turnEpoch, armedFor, timer>>
streamVars == <<spc, alive, eof, localVars>>
deviceVars == <<muteVars, micVars, grantVars, disarmed, goVars, dataVars, streamVars, faults>>
vars == <<ctlVars, inbox, deviceVars>>

Go == {"control", "button"}
At(g, p) == gpc' = [gpc EXCEPT ![g] = p]
Calls(p, t) == At("control", p) /\ gturn' = [gturn EXCEPT !["control"] = t]
Returns(g) == At(g, "idle") /\ gturn' = [gturn EXCEPT ![g] = 0]
Send(ms) == inbox' = inbox \o ms /\ Len(inbox') <= MaxInbox
Msg(type, t) == [type |-> type, turn |-> t]

-----------------------------------------------------------------------------
(* The controller's turn loop, _run_voice_locked.                          *)

\* A turn of the loop begins.
BeginTurn(state, type) ==
    /\ turn + faults < MaxEvents
    /\ ctl' = state
    /\ turn' = turn + 1
    /\ fed' = FALSE
    /\ Send(<<Msg(type, turn + 1)>>)
    /\ UNCHANGED <<tail, started, spoke, deviceVars>>

\* A wake or button request is granted.
GrantTurn == ctl = "idle" /\ BeginTurn("offer", "wake_grant")

\* The device reports the granted turn started.
TurnStarts ==
    /\ ctl = "offer" /\ started = turn
    /\ ctl' = "listen"
    /\ UNCHANGED <<tail, turn, started, spoke, fed, inbox, deviceVars>>

\* _disarm_no_speech: HA reports speech, once per turn.
Hear ==
    /\ ctl = "listen" /\ fed /\ spoke # turn
    /\ spoke' = turn
    /\ Send(<<Msg("no_speech_disarm", turn)>>)
    /\ UNCHANGED <<ctl, tail, turn, started, fed, deviceVars>>

\* post_turn_play_esphome with barge-in on.
Play ==
    /\ ctl = "listen"
    /\ ctl' = "play"
    /\ fed' = FALSE
    /\ UNCHANGED <<tail, turn, started, spoke, inbox, deviceVars>>

\* post_turn_play_esphome with barge-in off: the mic is stopped first.
PlayQuietly ==
    /\ ctl = "listen"
    /\ ctl' = "quiet"
    /\ fed' = FALSE
    /\ Send(<<Msg("mic_stop", 0)>>)
    /\ UNCHANGED <<tail, turn, started, spoke, deviceVars>>

\* The loop's barge branch: the interrupting turn is granted.
Barge == ctl = "play" /\ BeginTurn("offer", "wake_grant")

\* The loop's continuation branch: no request, the turn listens at once.
Continue == ctl \in {"play", "quiet"} /\ BeginTurn("listen", "mic_start")

\* The turn is over: answered, silent, failed or cancelled.  A button turn has
\* a stop and a start to send yet.
EndTurn(button) ==
    /\ ctl # "idle"
    /\ ctl' = "idle"
    /\ fed' = FALSE
    /\ tail' = (tail \/ button)
    /\ Send(<<Msg("mic_start", 0)>>)
    /\ UNCHANGED <<turn, started, spoke, deviceVars>>

\* _button_voice_turn after the loop, when the lock is free again.
ButtonTail ==
    /\ tail
    /\ tail' = FALSE
    /\ Send(<<Msg("mic_stop", 0), Msg("mic_start", 0)>>)
    /\ UNCHANGED <<ctl, turn, started, spoke, fed, deviceVars>>

-----------------------------------------------------------------------------
(* DataClient's critical sections.                                         *)

\* A grant that reuses the epoch.
GrantSameEpoch(t) ==
    /\ granted' = TRUE
    /\ epoch' = IF epoch = 0 THEN 1 ELSE epoch
    /\ grantTurn' = t

\* What GrantMic does for a request in time with a complete preroll, and
\* StartMic for the controller on a stream that runs.
Grant(t) ==
    /\ granted' = TRUE
    /\ epoch' = epoch + 1
    /\ grantTurn' = t

Revoke ==
    /\ granted' = FALSE
    /\ grantTurn' = 0
    /\ UNCHANGED epoch

\* StartMic on a stopped stream: a new one, not granted.
NewStream(s) ==
    /\ spc[s] = "off"
    /\ spc' = [spc EXCEPT ![s] = "run"]
    /\ active' = TRUE
    /\ cur' = s
    /\ micConn' = conn
    /\ Revoke
    /\ UNCHANGED <<closed, alive, eof, localVars>>

\* StartMic from micMu.Lock on.
StartMic(t) ==
    \/ active /\ Grant(t) /\ UNCHANGED <<micVars, streamVars>>
    \/ ~active /\ conn = None /\ UNCHANGED <<micVars, grantVars, streamVars>>
    \/ ~active /\ conn # None /\ \E s \in Streams : NewStream(s)

\* A stop that only tells the goroutine.
CloseStaysActive == closed' = closed \cup {cur} /\ UNCHANGED <<active, micConn>>

\* The stop channel is closed and the stream no longer active.
Close == closed' = closed \cup {cur} /\ active' = FALSE /\ micConn' = None

StopMic ==
    /\ IF active THEN Close /\ Revoke ELSE UNCHANGED <<closed, active, micConn, grantVars>>
    /\ UNCHANGED <<cur, streamVars>>

-----------------------------------------------------------------------------
(* The control and button goroutines.                                      *)

\* The control goroutine takes its next message.
Receives(type) ==
    /\ gpc["control"] = "idle"
    /\ inbox # <<>> /\ Head(inbox).type = type
    /\ inbox' = Tail(inbox)

\* The mic_start callback refuses while muted, and so does StartMic.
RecvMicStart ==
    /\ Receives("mic_start")
    /\ IF hwMuted THEN UNCHANGED <<gpc, gturn>> ELSE Calls("checking", Head(inbox).turn)
    /\ UNCHANGED <<ctlVars, muteVars, micVars, grantVars, disarmed, gto, dataVars, streamVars,
                   faults>>

RecvMicStop ==
    /\ Receives("mic_stop")
    /\ StopMic
    /\ UNCHANGED <<ctlVars, muteVars, disarmed, goVars, dataVars, faults>>

\* OnWakeGrant reads the mute state before it grants.
RecvWakeGrant ==
    /\ Receives("wake_grant")
    /\ IF hwMuted THEN UNCHANGED <<gpc, gturn>> ELSE Calls("granting", Head(inbox).turn)
    /\ UNCHANGED <<ctlVars, muteVars, micVars, grantVars, disarmed, gto, dataVars, streamVars,
                   faults>>

\* An expired request, or one whose preroll has a gap, is refused in silence.
GrantOrRefuse ==
    /\ gpc["control"] = "granting"
    /\ Returns("control")
    /\ \/ Grant(gturn["control"]) /\ started' = gturn["control"]
       \/ UNCHANGED <<grantVars, started>>
    /\ UNCHANGED <<ctl, tail, turn, spoke, fed, inbox, muteVars, micVars, disarmed, gto,
                   dataVars, streamVars, faults>>

\* A disarm that names the grant to come.
NextGrant == epoch + 1

\* A disarm names the last grant made, whether or not it is still open.
LastGrant == epoch

\* DisarmNoSpeech.
RecvDisarm ==
    /\ Receives("no_speech_disarm")
    /\ disarmed' = LastGrant
    /\ UNCHANGED <<ctlVars, muteVars, micVars, grantVars, goVars, dataVars, streamVars,
                   faults>>

\* muteController.Toggle, from the button or from the controller's mute_toggle.
Toggle(g) ==
    /\ gpc[g] = "idle"
    /\ turn + faults < MaxEvents
    /\ faults' = faults + 1
    /\ hwMuted' = ~hwMuted
    /\ gto' = [gto EXCEPT ![g] = ~hwMuted]
    /\ At(g, "toggled")
    /\ UNCHANGED <<ctlVars, inbox, muted, micVars, grantVars, disarmed, gturn, dataVars,
                   streamVars>>

\* SetMuted, its store.
SetMuted(g) ==
    /\ gpc[g] = "toggled"
    /\ muted' = gto[g]
    /\ At(g, "stopping")
    /\ UNCHANGED <<ctlVars, inbox, hwMuted, micVars, grantVars, disarmed, gto, gturn,
                   dataVars, streamVars, faults>>

\* SetMuted, its StopMic.
MuteStops(g) ==
    /\ gpc[g] = "stopping"
    /\ StopMic
    /\ At(g, IF gto[g] THEN "idle" ELSE "checking")
    /\ gto' = [gto EXCEPT ![g] = FALSE]
    /\ UNCHANGED <<ctlVars, inbox, muteVars, disarmed, gturn, dataVars, faults>>

\* StartMic up to micMu.Lock, for a mic_start or an unmute.
StartChecks(g) ==
    /\ gpc[g] = "checking"
    /\ IF muted THEN Returns(g) ELSE At(g, "starting") /\ UNCHANGED gturn
    /\ UNCHANGED <<ctlVars, inbox, muteVars, micVars, grantVars, disarmed, gto, dataVars,
                   streamVars, faults>>

StartsMic(g) ==
    /\ gpc[g] = "starting"
    /\ StartMic(gturn[g])
    /\ Returns(g)
    /\ UNCHANGED <<ctlVars, inbox, muteVars, disarmed, gto, dataVars, faults>>

-----------------------------------------------------------------------------
(* Data connections: DataClient.connect.                                   *)

\* The dial and identify succeed and d.conn is published.  One Run dials again
\* only after its connect has returned; a control reconnect starts another Run.
Dial(c) ==
    /\ dpc[c] = "off"
    /\ \A d \in Conns \ {c} : dpc[d] = "off" \/ d \in orphans
    /\ conn' = c
    /\ dpc' = [dpc EXCEPT ![c] = "checking"]
    /\ orphans' = orphans \ {c}
    /\ UNCHANGED <<ctlVars, inbox, muteVars, micVars, grantVars, disarmed, goVars,
                   streamVars, faults>>

ConnectChecks(c) ==
    /\ dpc[c] = "checking"
    /\ dpc' = [dpc EXCEPT ![c] = IF muted THEN "up" ELSE "starting"]
    /\ UNCHANGED <<ctlVars, inbox, muteVars, micVars, grantVars, disarmed, goVars, conn,
                   orphans, streamVars, faults>>

ConnectStarts(c) ==
    /\ dpc[c] = "starting"
    /\ StartMic(0)
    /\ dpc' = [dpc EXCEPT ![c] = "up"]
    /\ UNCHANGED <<ctlVars, inbox, muteVars, disarmed, goVars, conn, orphans, faults>>

\* The control socket breaks: the controller's turn ends with it, and the
\* context of the data connections is cancelled.
ControlReconnect ==
    /\ gpc["control"] = "idle"
    /\ turn + faults < MaxEvents
    /\ faults' = faults + 1
    /\ inbox' = <<>>
    /\ ctl' = "idle" /\ fed' = FALSE /\ tail' = FALSE
    /\ orphans' = {c \in Conns : dpc[c] # "off"}
    /\ UNCHANGED <<turn, started, spoke, muteVars, micVars, grantVars, disarmed, goVars, conn, dpc,
                   streamVars>>

\* connect's exit cleanup stops only a stream of its own.
CleansMic(c) ==
    /\ dpc[c] = "up"
    /\ dpc' = [dpc EXCEPT ![c] = "unpublish"]
    /\ IF active /\ micConn = c
       THEN Close
       ELSE UNCHANGED <<closed, active, micConn>>
    /\ UNCHANGED <<ctlVars, inbox, muteVars, cur, grantVars, disarmed, goVars, conn,
                   orphans, streamVars>>

\* The data socket breaks and connect's read loop returns.
DataDrop(c) ==
    /\ turn + faults < MaxEvents
    /\ faults' = faults + 1
    /\ CleansMic(c)

\* The context watcher closes the socket and connect's read loop returns.
ContextCancels(c) ==
    /\ c \in orphans
    /\ CleansMic(c)
    /\ UNCHANGED faults

ConnectEnds(c) ==
    /\ dpc[c] = "unpublish"
    /\ dpc' = [dpc EXCEPT ![c] = "off"]
    /\ conn' = IF conn = c THEN None ELSE conn
    /\ orphans' = orphans \ {c}
    /\ UNCHANGED <<ctlVars, inbox, muteVars, micVars, grantVars, disarmed, goVars, streamVars,
                   faults>>

-----------------------------------------------------------------------------
(* Stream goroutines: streamMic's loop and its exit.                       *)

AtS(s, p) == spc' = [spc EXCEPT ![s] = p]

\* The helper's recorder stops for good: the microphone closes the channels of
\* its subscribers and hears nothing for later ones.
RecorderDies ==
    /\ alive /\ turn + faults < MaxEvents
    /\ faults' = faults + 1
    /\ alive' = FALSE
    /\ eof' = {s \in Streams : spc[s] \in {"run", "taken", "frame", "expired"}}
    /\ UNCHANGED <<ctlVars, inbox, muteVars, micVars, grantVars, disarmed, goVars, dataVars,
                   spc, localVars>>

\* A period arrives; a closed stop channel has priority over it.  Periods that
\* come while no grant is open only feed the detector.
FrameTake(s) ==
    /\ spc[s] = "run" /\ alive /\ granted /\ s \notin closed
    /\ AtS(s, "taken")
    /\ UNCHANGED <<ctlVars, inbox, muteVars, micVars, grantVars, disarmed, goVars, dataVars,
                   alive, eof, localVars, faults>>

\* The grant is read under wakeMu; a new epoch resets the turn state.
FrameRead(s) ==
    /\ spc[s] = "taken"
    /\ IF granted
       THEN /\ AtS(s, "frame")
            /\ timer' = [timer EXCEPT ![s] = @ /\ epoch = turnEpoch[s]]
            /\ turnEpoch' = [turnEpoch EXCEPT ![s] = epoch]
       ELSE AtS(s, "run") /\ UNCHANGED <<timer, turnEpoch>>
    /\ UNCHANGED <<ctlVars, inbox, muteVars, micVars, grantVars, disarmed, goVars, dataVars,
                   alive, eof, armedFor, faults>>

\* The deadline is armed once in the life of a stream.
ArmsOnce(s) == armedFor[s] = 0 /\ disarmed # turnEpoch[s]

\* The deadline is armed once per grant, and not for a disarmed one.
Arms(s) == armedFor[s] # turnEpoch[s] /\ disarmed # turnEpoch[s]

\* The deadline is armed and the period sent; the controller hands it to the
\* turn that listens.
FrameSend(s) ==
    /\ spc[s] = "frame"
    /\ AtS(s, "run")
    /\ IF Arms(s)
       THEN /\ armedFor' = [armedFor EXCEPT ![s] = turnEpoch[s]]
            /\ timer' = [timer EXCEPT ![s] = TRUE]
       ELSE UNCHANGED <<armedFor, timer>>
    /\ fed' = (fed \/ ctl \in {"offer", "listen"})
    /\ UNCHANGED <<ctl, tail, turn, started, spoke, inbox, muteVars, micVars,
                   grantVars, disarmed, goVars, dataVars, alive, eof, turnEpoch, faults>>

\* The no-speech deadline passes: swallowed if the live grant was disarmed.
TimerCheck(s) ==
    /\ spc[s] = "run" /\ timer[s]
    /\ timer' = [timer EXCEPT ![s] = FALSE]
    /\ AtS(s, IF disarmed = epoch THEN "run" ELSE "expired")
    /\ UNCHANGED <<ctlVars, inbox, muteVars, micVars, grantVars, disarmed, goVars, dataVars,
                   alive, eof, turnEpoch, armedFor, faults>>

\* A finishGrant that ends whatever grant is live.
FinishesAny(s) == granted

\* finishGrant's test: the live grant is the one the deadline was for.
FinishesGrant(s) == granted /\ epoch = turnEpoch[s]

\* finishGrant, after an undisarmed deadline.
FinishGrant(s) ==
    /\ spc[s] = "expired"
    /\ AtS(s, "run")
    /\ IF FinishesGrant(s) THEN Revoke ELSE UNCHANGED grantVars
    /\ UNCHANGED <<ctlVars, inbox, muteVars, micVars, disarmed, goVars, dataVars, alive, eof,
                   localVars, faults>>

\* An exit that takes every stream for the current one.
AnyOwns(s) == TRUE

\* The exit's identity token: micStopCh is still this stream's channel.
Owns(s) == cur = s

\* The loop returns, stopped or with the microphone's channel closed, and runs
\* the micMu section of its exit.
StreamReturns(s) ==
    /\ spc[s] = "run" /\ s \in closed \cup eof
    /\ IF Owns(s)
       THEN AtS(s, "clearing") /\ active' = FALSE /\ micConn' = None
       ELSE AtS(s, "off") /\ UNCHANGED <<active, micConn>>
    /\ closed' = closed \ {s}
    /\ eof' = eof \ {s}
    /\ timer' = [timer EXCEPT ![s] = FALSE]
    /\ turnEpoch' = [turnEpoch EXCEPT ![s] = 0]
    /\ armedFor' = [armedFor EXCEPT ![s] = 0]
    /\ UNCHANGED <<ctlVars, inbox, muteVars, cur, grantVars, disarmed, goVars, dataVars,
                   alive, faults>>

\* The wakeMu section of its exit.
ExitWake(s) ==
    /\ spc[s] = "clearing"
    /\ AtS(s, "off")
    /\ Revoke
    /\ UNCHANGED <<ctlVars, inbox, muteVars, micVars, disarmed, goVars, dataVars, alive, eof,
                   localVars, faults>>

-----------------------------------------------------------------------------
\* Connected, with the permanent wake stream unless mute was restored.
Init ==
    /\ ctl = "idle" /\ tail = FALSE
    /\ turn = 0 /\ started = 0 /\ spoke = 0 /\ fed = FALSE
    /\ inbox = <<>>
    /\ hwMuted \in BOOLEAN /\ muted = hwMuted
    /\ active = ~hwMuted /\ closed = {}
    /\ \E c \in Conns :
          /\ conn = c /\ micConn = (IF active THEN c ELSE None)
          /\ dpc = [d \in Conns |-> IF d = c THEN "up" ELSE "off"] /\ orphans = {}
    /\ cur \in (IF active THEN Streams ELSE {None})
    /\ spc = [s \in Streams |-> IF s = cur THEN "run" ELSE "off"]
    /\ alive = TRUE /\ eof = {}
    /\ granted = FALSE /\ epoch = 0 /\ disarmed = 0 /\ grantTurn = 0
    /\ gpc = [g \in Go |-> "idle"]
    /\ gto = [g \in Go |-> FALSE]
    /\ gturn = [g \in Go |-> 0]
    /\ turnEpoch = [s \in Streams |-> 0]
    /\ armedFor = [s \in Streams |-> 0]
    /\ timer = [s \in Streams |-> FALSE]
    /\ faults = 0

Controller ==
    \/ GrantTurn \/ TurnStarts \/ Hear \/ Play \/ PlayQuietly \/ Barge \/ Continue
    \/ \E button \in BOOLEAN : EndTurn(button)
    \/ ButtonTail

Control ==
    \/ RecvMicStart \/ RecvMicStop \/ RecvWakeGrant \/ GrantOrRefuse \/ RecvDisarm

MuteSteps(g) == SetMuted(g) \/ MuteStops(g) \/ StartChecks(g) \/ StartsMic(g)

Connection(c) ==
    ConnectChecks(c) \/ ConnectStarts(c) \/ ContextCancels(c) \/ ConnectEnds(c)

StreamExits(s) == StreamReturns(s) \/ ExitWake(s)

StreamRuns(s) == FrameTake(s) \/ FrameRead(s) \/ FrameSend(s) \/ FinishGrant(s)

Next ==
    \/ Controller \/ Control
    \/ \E g \in Go : Toggle(g) \/ MuteSteps(g)
    \/ \E c \in Conns : Dial(c) \/ DataDrop(c) \/ Connection(c)
    \/ ControlReconnect \/ RecorderDies
    \/ \E s \in Streams : StreamRuns(s) \/ TimerCheck(s) \/ StreamExits(s)

Spec == Init /\ [][Next]_vars

\* Every goroutine runs; periods keep arriving from a live recorder; select
\* chooses at random among ready channels, so a deadline that stays ready is
\* taken in the end.
FairSpec ==
    /\ Spec
    /\ WF_vars(Control)
    /\ \A g \in Go : WF_vars(MuteSteps(g))
    /\ \A c \in Conns : WF_vars(Connection(c))
    /\ \A s \in Streams : /\ WF_vars(StreamRuns(s))
                            /\ SF_vars(TimerCheck(s))
                            /\ SF_vars(StreamExits(s))

-----------------------------------------------------------------------------
(* Properties.                                                             *)

\* Types of what the controller keeps and sends.
ControllerOK ==
    /\ ctl \in {"idle", "offer", "listen", "play", "quiet"}
    /\ tail \in BOOLEAN /\ fed \in BOOLEAN
    /\ turn \in 0..MaxEvents /\ started \in 0..turn /\ spoke \in 0..turn
    /\ inbox \in Seq([type : {"wake_grant", "mic_start", "mic_stop", "no_speech_disarm"},
                      turn : 0..MaxEvents])

\* Types of the device's flags, grant, connections and callers.
DeviceOK ==
    /\ hwMuted \in BOOLEAN /\ muted \in BOOLEAN
    /\ granted \in BOOLEAN /\ grantTurn \in 0..MaxEvents
    /\ disarmed \in 0..epoch
    /\ gpc \in [Go -> {"idle", "starting", "granting", "toggled", "stopping", "checking"}]
    /\ gto \in [Go -> BOOLEAN] /\ gturn \in [Go -> 0..MaxEvents]
    /\ conn \in Conns \cup {None} /\ micConn \in Conns \cup {None}
    /\ dpc \in [Conns -> {"off", "checking", "starting", "up", "unpublish"}]
    /\ orphans \subseteq Conns
    /\ faults \in 0..MaxEvents

\* Types of the mic streams, and the epoch they compare theirs with.
StreamsOK ==
    /\ active \in BOOLEAN /\ cur \in Streams \cup {None} /\ closed \subseteq Streams
    /\ spc \in [Streams -> {"off", "run", "taken", "frame", "expired", "clearing"}]
    /\ alive \in BOOLEAN /\ eof \subseteq Streams
    /\ timer \in [Streams -> BOOLEAN]
    /\ turnEpoch \in [Streams -> Nat] /\ armedFor \in [Streams -> Nat]
    /\ epoch \in Nat

\* Every variable has its type, whatever the goroutines' order; in particular
\* a disarm names a grant that was made.
TypeOK == ControllerOK /\ DeviceOK /\ StreamsOK

\* The states of a goroutine inside streamMic's loop.
Looping == {"run", "taken", "frame", "expired"}

\* No leaked stream: a goroutine that still loops over the microphone and has
\* not been told to stop is the one StopMic can reach.  Two streams at once sent
\* every utterance twice until the process restarted.
NoLeakedStream ==
    \A s \in Streams :
        spc[s] \in Looping /\ s \notin closed => active /\ cur = s

\* micActive promises an open stop channel: StopMic and connect's exit close it
\* without looking, and closing it twice would panic the device.
StopChannelClosedOnce == active => cur \notin closed

\* A deadline ends only the grant it was armed for, however many grants,
\* stops and restarts came between its arming and its passing.
DeadlineEndsItsTurn ==
    [][\A s \in Streams :
          spc[s] = "expired" /\ granted /\ ~granted' /\ spc'[s] = "run"
              => armedFor[s] = epoch]_vars

\* A deadline is disarmed only for a turn HA heard: a disarm that comes after
\* its turn ended never disarms the next turn.  (The heard turn is a later one
\* when the device refused its mic_start and the earlier grant carried its audio.)
DisarmNamesItsTurn ==
    granted /\ grantTurn # 0 /\ disarmed = epoch => spoke >= grantTurn

\* A grant in which nothing is heard is not left open: it is ended, replaced or
\* its stream gone, as long as the recorder delivers frames.
SilentGrantEnds == []<>(~granted \/ disarmed = epoch \/ ~active \/ ~alive)

\* "Network audio is withheld until GrantMic releases a wake-admitted turn"
\* (data.go:858): an open grant was made for a turn.
GrantedForATurn == granted => grantTurn # 0

\* What makes NoLeakedStream and StopChannelClosedOnce inductive: the active
\* stream loops with an open channel, a closed channel belongs to a stream that
\* has yet to notice.
OwnerInv ==
    /\ StreamsOK
    /\ active => cur \in Streams /\ spc[cur] \in Looping
    /\ \A s \in closed : spc[s] \in Looping
    /\ NoLeakedStream
    /\ StopChannelClosedOnce

\* What makes DeadlineEndsItsTurn hold: a deadline that runs or has just passed
\* was armed for the epoch its stream last saw.
DeadlineInv ==
    \A s \in Streams : timer[s] \/ spc[s] = "expired" => armedFor[s] = turnEpoch[s]

\* No call is under way in any goroutine.
Settled ==
    /\ inbox = <<>>
    /\ \A g \in Go : gpc[g] = "idle"
    /\ \A c \in Conns : dpc[c] = "off" \/ (dpc[c] = "up" /\ c \notin orphans)
    /\ \A s \in Streams : spc[s] # "clearing" /\ s \notin closed

\* SetMuted "blocks every StartMic until unmute" (data.go:555): no stream runs on
\* a muted device once every call has returned.
MutedIsSilent == Settled /\ hwMuted => ~active

\* "Start the local-only stream as soon as the socket is identified"
\* (data.go:720): a connected, unmuted device listens for its wake word once
\* every call has returned, unless the controller stopped it for its answer.
StreamWhileConnected ==
    Settled /\ ~muted /\ conn # None /\ alive /\ ctl # "quiet" => active
=============================================================================
