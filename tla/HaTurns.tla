------------------------------ MODULE HaTurns ------------------------------
(* One device's turns between the controller's turn engine and the Assist    *)
(* satellite of Home Assistant (src/controller/em_turn_engine.py;            *)
(* src/hacs/.../assist_satellite.py and client.py).                          *)
(*                                                                           *)
(* The controller offers a turn over the event stream, which is ordered and  *)
(* loses what is pushed while it is down.  The satellite answers with HTTP   *)
(* requests and one audio connection per turn; a request takes effect in one *)
(* step and its answer is read in a later one where the code relies on it.   *)
(* The controller's task for a turn moves on at its awaits.  What Home       *)
(* Assistant does inside a pipeline is its choice.                           *)
EXTENDS Naturals, Sequences, FiniteSets

CONSTANTS Wakes,      \* turns of a wake request: offered, accepted, granted
          Follows,    \* turns the controller starts without one: continuation, button
          Announces,  \* announcement turns, created by Home Assistant
          MaxFaults,  \* bound: losses of the event stream and of the device's connection, and
                      \* pushes that raise, together
          None

Voice == Wakes \cup Follows
Turns == Voice \cup Announces

ASSUME HaTurnsAssumption ==
    /\ None \notin Turns /\ Announces \cap Voice = {}
    /\ None \notin {"aborted", "unstarted", "disconnected", "ok", "cancelled", "no_speech", "audio_timeout", "error"}
    /\ MaxFaults \in Nat

VARIABLES
    stage,        \* where the controller's task for the turn waits
    branch,       \* the handler of trigger_voice_turn the task is in
    marks,        \* the events that are set on the Turn object
    reason,       \* Turn.end_reason
    outcome,      \* the outcome column of the turn's row
    connected,    \* the event stream
    events,       \* what was pushed on it and not read yet
    active,       \* _active_turn_id
    offers,       \* offer tasks that wait for _offer_lock, in order
    handler,      \* the one that holds it
    pipe,         \* the pipeline task of the turn
    tts,          \* the task that streams its speech
    endpointTask, \* the event task that posts its endpoint
    endpointSent, \* _endpoint_sent
    announce,     \* the announcement that is being made
    missed,       \* turns whose terminal was not pushed, was lost or was read before they were owned
    faults

engine == <<stage, branch, marks, reason, outcome>>
stream == <<connected, events, missed, faults>>
satellite == <<active, offers, handler, pipe, tts, endpointTask, endpointSent, announce>>
vars == <<engine, stream, satellite>>

Waiting == {"offer", "start", "socket", "listen", "play"}
Stages == Waiting \cup {"none", "unstarted", "recorded", "told", "over", "stray"}
\* the body; `except TimeoutError`; `except CancelledError` of the body, and of the offer push
Branches == {"try", "late", "cleanup", "first"}
Marks == {"accepted", "rejected", "cancelled", "socket", "open", "started", "heard", "noSpeech", "endpoint", "ttsEnd"}
Reasons == {"aborted", "unstarted", "disconnected"} \* by the user; before any audio; with the device
Outcomes == Reasons \cup {"ok", "cancelled", "no_speech", "audio_timeout", "error"}
\* what a handler writes although something else ended the turn
Forced == {"unstarted", "disconnected", "audio_timeout", "error"}
Free == [turn |-> None, at |-> "idle", ok |-> FALSE]

TypeOK ==
    /\ stage \in [Turns -> Stages] /\ branch \in [Turns -> Branches] /\ marks \in [Turns -> SUBSET Marks]
    /\ reason \in [Turns -> Reasons \cup {None}] /\ outcome \in [Turns -> Outcomes \cup {None}]
    /\ connected \in BOOLEAN /\ faults \in 0..MaxFaults /\ missed \subseteq Turns
    /\ \A i \in 1..Len(events) : events[i] \in [type : {"offer", "cancel", "terminal"}, turn : Turns]
    /\ active \in Turns \cup {None} /\ endpointSent \in BOOLEAN
    /\ handler \in [turn : Turns \cup {None}, at : {"idle", "attach", "own", "accept"}, ok : BOOLEAN]
    /\ announce \in [turn : Turns \cup {None}, at : {"idle", "attach", "own"}, ok : BOOLEAN]
    /\ pipe \in [Turns -> {"none", "run", "drain", "ended"}] /\ tts \in [Turns -> {"none", "run", "ended"}]
    /\ endpointTask \in [Turns -> {"none", "sent", "ended"}]
    \* every offer of a turn is handled once: waiting, in the handler or done with
    /\ \A i, j \in 1..Len(offers) : offers[i] = offers[j] => i = j
    /\ \A i \in 1..Len(offers) : offers[i] # handler.turn /\ pipe[offers[i]] = "none"

Init ==
    /\ stage = [t \in Turns |-> "none"] /\ branch = [t \in Turns |-> "try"]
    /\ marks = [t \in Turns |-> {}]
    /\ reason = [t \in Turns |-> None] /\ outcome = [t \in Turns |-> None]
    /\ connected = TRUE /\ events = <<>> /\ missed = {} /\ faults = 0
    /\ active = None /\ offers = <<>> /\ handler = Free /\ announce = Free
    /\ pipe = [t \in Turns |-> "none"] /\ tts = [t \in Turns |-> "none"]
    /\ endpointTask = [t \in Turns |-> "none"] /\ endpointSent = FALSE

----------------------------------------------------------------------------
(* The controller. *)

Live(t) == stage[t] \notin {"none", "over"}     \* in ENGINE.turns
Goto(t, s) == stage' = [stage EXCEPT ![t] = s]
Marked(t, ms) == IF Live(t) THEN [marks EXCEPT ![t] = @ \cup ms] ELSE marks
Set(t, ms) == marks' = Marked(t, ms)

\* what a push brings: nobody is told while the stream is down
Pushed(type, t) ==
    /\ events' = IF connected THEN Append(events, [type |-> type, turn |-> t]) ELSE events
    /\ missed' = IF connected \/ type # "terminal" THEN missed ELSE missed \cup {t}
    /\ UNCHANGED connected
Lost(type, t) ==
    /\ missed' = IF type # "terminal" THEN missed ELSE missed \cup {t}
    /\ UNCHANGED <<connected, events>>

Fault == faults < MaxFaults /\ faults' = faults + 1

\* _push_event, which raises when a client comes or goes while it sends: the
\* event has left by then, or has not
Push(type, t) == Pushed(type, t) /\ UNCHANGED faults
PushRaises(type, t) == Fault /\ (Pushed(type, t) \/ Lost(type, t))

\* popped from ENGINE.turns: the Turn object is gone, its row is history
Forget(t) ==
    /\ Goto(t, "over") /\ marks' = [marks EXCEPT ![t] = {}]
    /\ reason' = [reason EXCEPT ![t] = None] /\ outcome' = [outcome EXCEPT ![t] = None]
    /\ branch' = [branch EXCEPT ![t] = "try"]

\* registered, with no task left to pop it
Astray(t) ==
    /\ Goto(t, "stray") /\ branch' = [branch EXCEPT ![t] = "try"]
    /\ UNCHANGED <<marks, reason, outcome>>

\* The device's voice lock: the next voice turn starts when the task of the last
\* one has ended.  A raising push of the offer leaves the turn registered.
Offer(t) ==
    /\ stage[t] = "none" /\ t \in Voice
    /\ \A u \in Voice : stage[u] \in {"none", "over", "stray"}
    /\ \/ Goto(t, IF t \in Wakes THEN "offer" ELSE "socket") /\ Push("offer", t)
       \/ Goto(t, "stray") /\ PushRaises("offer", t)
    /\ UNCHANGED <<branch, marks, reason, outcome, satellite>>

\* _end_turn keeps the first cause; every wait of the turn is released
EndTurn(t, r) ==
    /\ reason' = [reason EXCEPT ![t] = IF @ = None THEN r ELSE @]
    /\ Set(t, {"cancelled", "endpoint", "ttsEnd"})

\* _finish_unstarted_turn: the owner is told to abort.  A push that raises ends
\* the task, and after the offer's handler nothing pops the turn.
Unstarted(t, b, r) ==
    /\ EndTurn(t, r) /\ Goto(t, "unstarted")
    /\ branch' = [branch EXCEPT ![t] = b] /\ Pushed("cancel", t)
    /\ UNCHANGED <<outcome, satellite>>
UnstartedRaises(t, b, r) ==
    /\ IF b = "first" THEN EndTurn(t, r) /\ Goto(t, "stray") /\ UNCHANGED <<branch, outcome>> ELSE Forget(t)
    /\ missed' = missed \cup {t} /\ UNCHANGED <<connected, satellite>>
    /\ \/ UNCHANGED events
       \/ connected /\ events' = Append(events, [type |-> "cancel", turn |-> t])

EndsUnstarted(t) ==
    \/ Unstarted(t, "try", "unstarted") /\ UNCHANGED faults
    \/ UnstartedRaises(t, "try", "unstarted") /\ Fault

\* rejected, 3 s without an answer, or the device has gone meanwhile
Deny(t) == stage[t] = "offer" /\ EndsUnstarted(t)

Grant(t) ==
    /\ stage[t] = "offer" /\ {"accepted", "socket"} \subseteq marks[t] /\ "rejected" \notin marks[t]
    /\ Goto(t, "start")
    /\ UNCHANGED <<branch, marks, reason, outcome, stream, satellite>>

\* wake_started of the device; 1 s without it
DeviceStarted(t) ==
    /\ stage[t] = "start" /\ "cancelled" \notin marks[t]
    /\ Goto(t, "socket")
    /\ UNCHANGED <<branch, marks, reason, outcome, stream, satellite>>

NotStarted(t) == stage[t] = "start" /\ EndsUnstarted(t)

\* The task is cancelled when the device's control connection goes, be it while
\* its outcome is written or its owner is told: _finish_unstarted_turn does both
\* again.  A push of it that raises counts with the cancellation.
InOffer(t) == stage[t] = IF t \in Wakes THEN "offer" ELSE "socket"
TaskCancelled(t) ==
    /\ t \in Voice /\ branch[t] = "try" /\ stage[t] \in Waiting \cup {"unstarted", "recorded", "told"}
    /\ Fault
    /\ \E b \in {"cleanup", "first"} :
          /\ b = "first" => InOffer(t)
          /\ Unstarted(t, b, "disconnected") \/ UnstartedRaises(t, b, "disconnected")

\* _run_turn: the audio connection, the endpoint, the answer
SocketReady(t) ==
    /\ stage[t] = "socket" /\ "socket" \in marks[t]
    /\ Goto(t, "listen")
    /\ UNCHANGED <<branch, marks, reason, outcome, stream, satellite>>

\* mutant for LifeKept: the result of the wait, not what ended the turn first
OutcomeOfResult(t, result) ==
    IF "noSpeech" \in marks[t] THEN "no_speech"
    ELSE IF result THEN "ok" ELSE "cancelled"
Outcome(t, result) ==
    IF reason[t] # None THEN reason[t]
    ELSE IF "noSpeech" \in marks[t] THEN "no_speech"
    ELSE IF result THEN "ok" ELSE "cancelled"

\* the outcome is written; audio and history follow
Recorded(t, o) ==
    /\ outcome' = [outcome EXCEPT ![t] = o] /\ Goto(t, "recorded")
    /\ UNCHANGED <<marks, reason, connected, events, missed, satellite>>
Finish(t, o) == Recorded(t, o) /\ UNCHANGED <<branch, faults>>

Quiet(t) == marks[t] \cap {"cancelled", "noSpeech"} # {}
Endpoint(t) ==
    /\ stage[t] = "listen" /\ "endpoint" \in marks[t]
    /\ IF Quiet(t) THEN Finish(t, Outcome(t, "cancelled" \notin marks[t]))
       ELSE Goto(t, "play") /\ UNCHANGED <<branch, marks, reason, outcome, stream, satellite>>

Played(t) ==
    /\ stage[t] = "play" /\ "ttsEnd" \in marks[t]
    /\ Finish(t, Outcome(t, "cancelled" \notin marks[t]))

\* the state of the device or of the turn is pushed on the way; no handler is
\* there for what the push raises, save that of announcements
RunFails(t) ==
    /\ Fault
    /\ \/ stage[t] = "start" /\ "cancelled" \notin marks[t]
       \/ stage[t] = "listen" /\ "endpoint" \in marks[t] /\ ~Quiet(t)
    /\ \/ t \in Announces /\ Recorded(t, "error") /\ UNCHANGED branch
       \/ t \in Voice /\ Forget(t) /\ Lost("terminal", t) /\ UNCHANGED satellite

\* 15 s for the connection, 30 s for the endpoint, 120 s for the playback
TimedOut(t) ==
    \/ stage[t] = "socket" /\ "socket" \notin marks[t]
    \/ stage[t] = "listen" /\ "endpoint" \notin marks[t]
    \/ stage[t] = "play"

\* mutant for LifeHolds: a wait without a timeout
NoTimeout(t) == FALSE /\ stage[t] = "play" /\ Recorded(t, "audio_timeout") /\ UNCHANGED <<branch, faults>>
Timeout(t) ==
    /\ TimedOut(t)
    /\ Recorded(t, "audio_timeout") /\ branch' = [branch EXCEPT ![t] = "late"] /\ UNCHANGED faults

\* cancelled in the handler of the timeout, before the owner is told: nobody
\* catches that
LateCancelled(t) ==
    /\ t \in Voice /\ Fault
    /\ \/ branch[t] = "try" /\ TimedOut(t)
       \/ branch[t] = "late" /\ stage[t] = "recorded"
    /\ Forget(t) /\ Lost("terminal", t) /\ UNCHANGED satellite

\* the outcome the caller passes, whatever ended the turn first
RecordUnstarted(t) ==
    stage[t] = "unstarted" /\ Finish(t, IF branch[t] = "try" THEN "unstarted" ELSE "disconnected")

Terminal(t) ==
    /\ stage[t] = "recorded"
    /\ Goto(t, "told") /\ Push("terminal", t)
    /\ UNCHANGED <<branch, marks, reason, outcome, satellite>>

\* it raises: announcements, and the handler of the offer, do not pop the turn
TerminalRaises(t) ==
    /\ stage[t] = "recorded" /\ PushRaises("terminal", t)
    /\ IF t \in Announces \/ branch[t] = "first" THEN Astray(t) ELSE Forget(t)
    /\ UNCHANGED satellite

Pop(t) == stage[t] = "told" /\ Forget(t) /\ UNCHANGED <<stream, satellite>>

\* the microphone: end of speech, or the device's deadline without any
EndOfSpeech(t) ==
    /\ stage[t] = "listen" /\ t \in Voice /\ "open" \in marks[t]
    /\ \/ Set(t, {"endpoint"})
       \/ Set(t, {"endpoint"} \cup IF "heard" \in marks[t] THEN {} ELSE {"noSpeech"})
    /\ UNCHANGED <<stage, branch, reason, outcome, stream, satellite>>

\* stop word, barge, mute or button: every turn that is registered ends, and its
\* owner is told
Abort(t) ==
    /\ Live(t) /\ "cancelled" \notin marks[t]
    /\ EndTurn(t, "aborted")
    /\ Push("cancel", t) \/ PushRaises("cancel", t)
    /\ UNCHANGED <<stage, branch, outcome, satellite>>

----------------------------------------------------------------------------
(* The event stream. *)

InFlight(type) == {events[i].turn : i \in {n \in 1..Len(events) : events[n].type = type}}

Drop ==
    /\ connected /\ faults < MaxFaults
    /\ connected' = FALSE /\ events' = <<>> /\ faults' = faults + 1
    /\ missed' = missed \cup InFlight("terminal")
    /\ UNCHANGED <<engine, satellite>>

\* the snapshot brings devices and alarms, no turn
Reconnect ==
    /\ ~connected /\ connected' = TRUE
    /\ UNCHANGED <<engine, events, missed, faults, satellite>>

----------------------------------------------------------------------------
(* The satellite. *)

Owns(t) == active = t

\* nothing of the turn runs any more, save what is on its way to the controller
NoTts(t) == tts' = [tts EXCEPT ![t] = "ended"]
NoEndpoint(t) == endpointTask' = [endpointTask EXCEPT ![t] = IF @ = "sent" THEN @ ELSE "ended"]

\* An end of the active turn gives it up, cancels its tasks and closes its
\* audio; the reader waits for the tasks before the next event.
EndOwned(t, type) ==
    /\ active' = None
    /\ pipe' = [pipe EXCEPT ![t] = IF @ \in {"run", "drain"} THEN "ended" ELSE @]
    /\ NoTts(t) /\ NoEndpoint(t)
    /\ marks' = [marks EXCEPT ![t] = (@ \ {"open"}) \cup IF type = "cancel" /\ Live(t) THEN {"ttsEnd"} ELSE {}]
    /\ UNCHANGED <<stage, branch, reason, outcome, offers, handler, endpointSent, announce>>

\* mutant for Freed: an end that is no abort is not taken for one
TargetsOfCancel(e) == e.turn = active /\ e.type = "cancel"
Targets(e) == e.turn = active

GatewayEvent ==
    /\ events # <<>>
    /\ events' = Tail(events) /\ UNCHANGED <<connected, faults>>
    /\ LET e == Head(events)
       IN  /\ missed' = IF e.type = "terminal" /\ active # e.turn THEN missed \cup {e.turn} ELSE missed
           /\ IF e.type = "offer"
              THEN /\ offers' = Append(offers, e.turn)
                   /\ UNCHANGED <<engine, active, handler, pipe, tts, endpointTask, endpointSent, announce>>
              ELSE IF Targets(e) THEN EndOwned(active, e.type) ELSE UNCHANGED <<engine, satellite>>

\* _handle_wake_offer, under its lock: busy, or attach, own, accept
Reject(t) ==
    IF Live(t) /\ "accepted" \notin marks[t]
    THEN /\ marks' = [marks EXCEPT ![t] = @ \cup {"rejected", "cancelled", "endpoint", "ttsEnd"}]
         /\ reason' = [reason EXCEPT ![t] = IF @ = None THEN "unstarted" ELSE @]
    ELSE UNCHANGED <<marks, reason>>

Rest == Tail(offers)

TakeOffer ==
    /\ handler.at = "idle" /\ offers # <<>>
    /\ offers' = Rest
    /\ LET t == Head(offers)
       IN  IF active # None
           THEN Reject(t) /\ UNCHANGED handler
           ELSE handler' = [Free EXCEPT !.turn = t, !.at = "attach"] /\ UNCHANGED <<marks, reason>>
    /\ UNCHANGED <<stage, branch, outcome, stream, active, pipe, tts, endpointTask, endpointSent, announce>>

Attach ==
    /\ handler.at = "attach"
    /\ IF Live(handler.turn)
       THEN Set(handler.turn, {"socket", "open"}) /\ handler' = [handler EXCEPT !.at = "own"]
       ELSE handler' = Free /\ UNCHANGED marks
    /\ UNCHANGED <<stage, branch, reason, outcome, stream, active, offers, pipe, tts, endpointTask, endpointSent, announce>>

Accept ==
    /\ handler.at = "own"
    /\ active' = handler.turn /\ endpointSent' = FALSE
    /\ IF "rejected" \in marks[handler.turn] THEN UNCHANGED marks ELSE Set(handler.turn, {"accepted"})
    /\ handler' = [handler EXCEPT !.at = "accept", !.ok = Live(handler.turn)]
    /\ UNCHANGED <<stage, branch, reason, outcome, stream, offers, pipe, tts, endpointTask, announce>>

\* a refused acceptance gives up whatever is active; a pipeline that finds the
\* turn taken away does not start
Starts(t) == Owns(t)

Accepted ==
    /\ handler.at = "accept"
    /\ handler' = Free
    /\ LET t == handler.turn
       IN  IF handler.ok
           THEN /\ pipe' = [pipe EXCEPT ![t] = IF Starts(t) THEN "run" ELSE "ended"]
                /\ IF Starts(t) THEN UNCHANGED <<tts, endpointTask>> ELSE NoTts(t) /\ NoEndpoint(t)
                /\ UNCHANGED <<active, marks>>
           ELSE active' = None /\ marks' = [marks EXCEPT ![t] = @ \ {"open"}] /\ UNCHANGED <<pipe, tts, endpointTask>>
    /\ UNCHANGED <<stage, branch, reason, outcome, stream, offers, endpointSent, announce>>

\* pipeline events: the beginning of speech, the end of it, the answer
SpeechStart(t) ==
    /\ pipe[t] = "run" /\ Owns(t)
    /\ Set(t, {"heard"})
    /\ UNCHANGED <<stage, branch, reason, outcome, stream, satellite>>

SttEnd(t) ==
    /\ pipe[t] = "run" /\ Owns(t) /\ endpointTask[t] = "none"
    /\ Set(t, {"heard", "endpoint"})
    /\ endpointTask' = [endpointTask EXCEPT ![t] = IF Live(t) THEN "sent" ELSE "ended"]
    /\ UNCHANGED <<stage, branch, reason, outcome, stream, active, offers, handler, pipe, tts, endpointSent, announce>>

\* the answer of the endpoint request; the task is not cancelled with the turn
EndpointAnswered(t) ==
    /\ endpointTask[t] = "sent"
    /\ endpointTask' = [endpointTask EXCEPT ![t] = "ended"] /\ endpointSent' = TRUE
    /\ UNCHANGED <<engine, stream, active, offers, handler, pipe, tts, announce>>

TtsEnd(t) ==
    /\ pipe[t] = "run" /\ Owns(t) /\ tts[t] = "none" /\ endpointTask[t] # "none"
    /\ tts' = [tts EXCEPT ![t] = "run"]
    /\ UNCHANGED <<engine, stream, active, offers, handler, pipe, endpointTask, endpointSent, announce>>

\* the stream ends or fails; either way the controller is told
TtsStreamed(t) ==
    /\ tts[t] = "run"
    /\ tts' = [tts EXCEPT ![t] = "ended"]
    /\ IF Owns(t) THEN Set(t, {"ttsEnd"}) ELSE UNCHANGED marks
    /\ UNCHANGED <<stage, branch, reason, outcome, stream, active, offers, handler, pipe, endpointTask, endpointSent, announce>>

PipelineReturns(t) ==
    /\ pipe[t] = "run"
    /\ pipe' = [pipe EXCEPT ![t] = "drain"]
    /\ UNCHANGED <<engine, stream, active, offers, handler, tts, endpointTask, endpointSent, announce>>

DrainMarks(t) == {"ttsEnd"} \cup IF endpointSent THEN {} ELSE {"endpoint"}

\* without speech to stream, the endpoint and the answer are ended from here
PipelineDrains(t) ==
    /\ pipe[t] = "drain"
    /\ Owns(t) => tts[t] # "run"
    /\ pipe' = [pipe EXCEPT ![t] = "ended"]
    /\ IF Owns(t) /\ tts[t] = "none"
       THEN Set(t, DrainMarks(t)) /\ endpointSent' = (endpointSent \/ Live(t))
       ELSE UNCHANGED <<marks, endpointSent>>
    /\ NoEndpoint(t) /\ IF tts[t] = "run" THEN UNCHANGED tts ELSE NoTts(t)
    /\ UNCHANGED <<stage, branch, reason, outcome, stream, active, offers, handler, announce>>

\* async_announce: the turn is created at the controller, which waits for the
\* audio; the satellite takes it as active whatever it was doing
CreateAnnounce(t) ==
    /\ t \in Announces /\ stage[t] = "none" /\ announce.at = "idle"
    /\ Goto(t, "socket") /\ marks' = [marks EXCEPT ![t] = {"endpoint"}]
    /\ announce' = [Free EXCEPT !.turn = t, !.at = "attach"]
    /\ UNCHANGED <<branch, reason, outcome, stream, active, offers, handler, pipe, tts, endpointTask, endpointSent>>

AttachAnnounce ==
    /\ announce.at = "attach"
    /\ IF Live(announce.turn)
       THEN Set(announce.turn, {"socket", "open"}) /\ announce' = [announce EXCEPT !.at = "own"]
       ELSE announce' = Free /\ UNCHANGED marks
    /\ UNCHANGED <<stage, branch, reason, outcome, stream, active, offers, handler, pipe, tts, endpointTask, endpointSent>>

OwnAnnounce ==
    /\ announce.at = "own"
    /\ active' = announce.turn /\ tts' = [tts EXCEPT ![announce.turn] = "run"]
    /\ announce' = Free
    /\ UNCHANGED <<engine, stream, offers, handler, pipe, endpointTask, endpointSent>>

ControllerStep(t) ==
    \/ Deny(t) \/ Grant(t) \/ DeviceStarted(t) \/ NotStarted(t) \/ SocketReady(t) \/ Endpoint(t) \/ Played(t)
    \/ Timeout(t) \/ RecordUnstarted(t) \/ Terminal(t) \/ Pop(t)
HandlerStep == TakeOffer \/ Attach \/ Accept \/ Accepted \/ AttachAnnounce \/ OwnAnnounce
PipelineStep(t) ==
    SpeechStart(t) \/ SttEnd(t) \/ EndpointAnswered(t) \/ TtsEnd(t) \/ TtsStreamed(t) \/ PipelineReturns(t)
    \/ PipelineDrains(t)

Next ==
    \/ \E t \in Turns :
          \/ Offer(t) \/ CreateAnnounce(t) \/ ControllerStep(t) \/ EndOfSpeech(t) \/ Abort(t)
          \/ TaskCancelled(t) \/ LateCancelled(t) \/ RunFails(t) \/ TerminalRaises(t)
          \/ PipelineStep(t)
    \/ HandlerStep \/ GatewayEvent \/ Drop \/ Reconnect

Spec == Init /\ [][Next]_vars

(* Every wait of the controller has a timer; the satellite's reader and tasks *)
(* are scheduled by their event loop; a lost stream is reopened.              *)
FairSteps ==
    /\ \A t \in Turns : WF_vars(ControllerStep(t)) /\ WF_vars(PipelineReturns(t)) /\ WF_vars(PipelineDrains(t))
    /\ \A t \in Turns : WF_vars(TtsStreamed(t)) /\ WF_vars(EndpointAnswered(t))
    /\ WF_vars(HandlerStep) /\ WF_vars(GatewayEvent) /\ WF_vars(Reconnect)

FairSpec == Spec /\ FairSteps

----------------------------------------------------------------------------
(* Properties. *)

\* The turn engine keeps its promise whatever the satellite, the device and
\* the stream do: see TurnLife.  em_turn_engine.py, trigger_voice_turn.
Phase(t) ==
    CASE stage[t] = "none" -> "none"
      [] stage[t] = "recorded" -> "recorded"
      [] stage[t] = "told" -> "told"
      [] stage[t] = "over" -> "closed"
      [] stage[t] = "stray" -> "stray"
      [] OTHER -> "open"
Life == INSTANCE TurnLife
    WITH NoOutcome <- None, Interrupted <- "disconnected", cause <- reason, mishaps <- faults,
         phase <- [t \in Turns |-> Phase(t)]
LifeHolds == Life!LifeSpec
\* A step of its safety part, for a run with announcements beside the voice turns.
LifeKept == [][Life!LifeNext]_vars

\* Without announcements between them, no two pipelines listen at once and no
\* pipeline outlives the ownership of its turn: an event of Home Assistant
\* carries no turn id and is taken for the active one's.
\* assist_satellite.on_pipeline_event.
OnePipeline ==
    Announces = {} => \A t \in Turns : pipe[t] = "run" => active = t

\* A satellite whose turn is over for the controller gives it up, unless it
\* was told so while the stream was down or before it had accepted the turn, or the
\* controller's task failed before it told anybody.  _async_gateway_event.
Freed == \A t \in Turns : active = t /\ stage[t] = "over" ~> active # t \/ t \in missed

\* Whatever way the pipeline of the active turn ends, the controller's turn is
\* left waiting neither for an endpoint nor for an answer.  _run_wake_pipeline.
Resolved ==
    \A t \in Turns : Owns(t) /\ pipe[t] = "ended" /\ Live(t) => {"endpoint", "ttsEnd"} \subseteq marks[t]

\* An announcement whose end is not heard of does not leave the satellite
\* occupied.  async_announce, assist_satellite.py:491.
AnnounceFreed == \A t \in Announces : active = t /\ stage[t] = "over" ~> active # t
=============================================================================
