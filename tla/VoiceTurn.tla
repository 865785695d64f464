------------------------------ MODULE VoiceTurn ------------------------------
(***************************************************************************)
(* Admission and life of voice turns on one connected Echo, as the         *)
(* controller's asyncio tasks run them: wake requests and button presses   *)
(* from the control socket (em_controller), the conversation loop under    *)
(* Device.voice_lock (_run_voice_locked), the rendezvous with Home         *)
(* Assistant and with the device (em_turn_engine.trigger_voice_turn),      *)
(* barge-in (admit_barge), mute, the announcement turns that share         *)
(* ENGINE.turns, and the disconnect that cancels the admission task.  The  *)
(* state is that of one Device object.  A task runs alone from one await   *)
(* to the next; an action is one such stretch.                             *)
(***************************************************************************)
EXTENDS Integers, FiniteSets

CONSTANTS
    Req,        \* request ids the device sends; each names one task at most
    None,       \* Python's None
    MaxConts,   \* bound: continuation turns Home Assistant asks for
    MaxChanges, \* bound: mute, readiness, Home Assistant cancels, the announcement and pushes
                \* that raise, together
    MaxGiveUps  \* bound: requests the device gives up on unanswered

ASSUME NoneAssumption == None \notin Req
ASSUME BoundsAssumption ==
    MaxConts \in Nat /\ MaxChanges \in Nat /\ MaxGiveUps \in Nat

VARIABLES
    \* the Device object
    conn,           \* _devices[device_id] is this Device
    muted,          \* Device.muted
    ready,          \* data_ws, wake model and stop word: all there
    bargeIn,        \* Device.barge_in_enabled
    wakeReq,        \* Device.wake_request_id
    admTask,        \* Device.wake_admission_task, by its request id
    holder,         \* the task that holds Device.voice_lock
    paused,         \* Device.oww_paused: mic frames go to voice_queue
    cancelEvent,    \* Device.cancel_event
    bargeDetected,  \* Device.barge_detected
    bargeReq,       \* Device.barge_request_id
    \* the tasks
    pc,             \* where the task of each request is suspended
    kind,           \* "wake" or "button"
    ctl,            \* the control handler: idle, inside a button cancel, closing
    loopReq,        \* request_id of the conversation loop
    cont,           \* should_continue of the last trigger_voice_turn
    conts,          \* continuations so far
    \* the voice turn in ENGINE.turns
    tReg,           \* it is registered
    tHacs,          \* what the integration has answered
    tStarted,       \* Turn.device_started
    tCancelled,     \* Turn.cancelled
    tOffered,       \* its offer is pushed
    \* a voice turn that stayed in ENGINE.turns when its offer could not be pushed
    stray,          \* bound: there is one at most
    strayFirst,     \* it was registered before the announcement
    \* an announcement turn in ENGINE.turns
    ann, annFirst,  \* its state; it was registered before the voice turn
    \* the device and the environment
    gaveUp,         \* requests whose wakeRequestTTL passed unanswered
    changes,        \* changes of the environment so far
    \* history, read by properties only
    answers         \* grants and denials sent for each request

devVars == <<conn, muted, ready, bargeIn>>
bargeVars == <<bargeDetected, bargeReq>>
loopVars == <<kind, ctl, loopReq, cont, conts>>
taskVars == <<pc, loopVars>>
strayVars == <<stray, strayFirst>>
turnVars == <<tReg, tHacs, tStarted, tCancelled, tOffered, strayVars>>
annVars == <<ann, annFirst>>
envVars == <<gaveUp, changes>>
vars == <<devVars, wakeReq, admTask, holder, paused, cancelEvent, bargeVars,
          taskVars, turnVars, annVars, envVars, answers>>

\* Suspension points of a task inside the conversation loop.
LoopPoints == {"create", "push", "offer", "denyturn", "start", "unstarted", "listen",
               "play", "persist", "cleanup"}
AbortPoints == {"abort", "unwinding", "unwound"}
Points == LoopPoints \cup AbortPoints \cup
          {"new", "entry", "button", "denying", "lost", "barge", "tail", "finished",
           "done"}

Go(r, p) == pc' = [pc EXCEPT ![r] = p]
Answer(r) == answers' = [answers EXCEPT ![r] = @ + 1]
Locked == holder # None
Change == changes < MaxChanges /\ changes' = changes + 1

\* cancel_voice_turn: _end_turn on every turn of the device.
CancelAll ==
    /\ tCancelled' = (tCancelled \/ tReg)
    /\ stray' = IF stray = "live" THEN "cancelled" ELSE stray
    /\ ann' = IF ann = "live" THEN "cancelled" ELSE ann

-----------------------------------------------------------------------------
(* The control socket.                                                     *)

\* beginWakeRequest on the device: one request at a time, until it is answered
\* or its time is up.  The control handler reads it when it is free to.
Sends(r) ==
    /\ conn /\ ctl = "idle"
    /\ pc[r] = "new"
    /\ \A q \in Req : pc[q] # "new" => answers[q] > 0 \/ q \in gaveUp

\* wakeRequestTTL passes on the device without an answer.
GiveUp(r) ==
    /\ pc[r] # "new" /\ answers[r] = 0 /\ r \notin gaveUp
    /\ Cardinality(gaveUp) < MaxGiveUps
    /\ gaveUp' = gaveUp \cup {r}
    /\ UNCHANGED <<devVars, wakeReq, admTask, holder, paused, cancelEvent,
                   bargeVars, taskVars, turnVars, annVars, changes, answers>>

\* wake_request that the gate lets through: it becomes the tracked request and
\* gets an admission task, also when it is a barge candidate.
WakeRequest(r) ==
    /\ Sends(r)
    /\ IF Locked THEN bargeIn ELSE wakeReq = None
    /\ wakeReq' = r
    /\ admTask' = r
    /\ Go(r, "entry")
    /\ UNCHANGED <<devVars, holder, paused, cancelEvent, bargeVars, loopVars,
                   turnVars, annVars, envVars, answers>>

\* wake_request that the gate turns away.
WakeRefused(r) ==
    /\ Sends(r)
    /\ IF Locked THEN ~bargeIn ELSE wakeReq # None
    /\ Answer(r)
    /\ Go(r, "done")
    /\ UNCHANGED <<devVars, wakeReq, admTask, holder, paused, cancelEvent,
                   bargeVars, loopVars, turnVars, annVars, envVars>>

\* A dot-button tap that starts a turn.
ButtonTurn(r) ==
    /\ Sends(r)
    /\ ~muted /\ ~Locked /\ wakeReq = None /\ ready
    /\ wakeReq' = r
    /\ cancelEvent' = FALSE
    /\ paused' = TRUE
    /\ kind' = [kind EXCEPT ![r] = "button"]
    /\ Go(r, "button")
    /\ UNCHANGED <<devVars, admTask, holder, bargeVars, ctl, loopReq, cont,
                   conts, turnVars, annVars, envVars, answers>>

\* A tap during a turn is denied as a wake and, after that await, cancels.
ButtonDuringTurn(r) ==
    /\ Sends(r)
    /\ ~muted /\ Locked
    /\ Answer(r)
    /\ Go(r, "done")
    /\ ctl' = "cancel"
    /\ UNCHANGED <<devVars, wakeReq, admTask, holder, paused, cancelEvent,
                   bargeVars, kind, loopReq, cont, conts, turnVars, annVars,
                   envVars>>

\* A tap that em_button blocks (muted), or that finds the device not free.
ButtonRefused(r) ==
    /\ Sends(r)
    /\ muted \/ (~Locked /\ (wakeReq # None \/ ~ready))
    /\ Answer(r)
    /\ Go(r, "done")
    /\ UNCHANGED <<devVars, wakeReq, admTask, holder, paused, cancelEvent,
                   bargeVars, loopVars, turnVars, annVars, envVars>>

\* The rest of the CANCEL branch of handle_button_event.
ButtonCancel ==
    /\ ctl = "cancel"
    /\ ctl' = "idle"
    /\ cancelEvent' = TRUE
    /\ CancelAll
    /\ UNCHANGED <<devVars, wakeReq, admTask, holder, paused, bargeVars, pc,
                   kind, loopReq, cont, conts, tReg, tHacs, tStarted, tOffered,
                   strayFirst, annFirst, envVars, answers>>

\* mute_state: muting while the lock is held cancels the device's turns.
MuteState(m) ==
    /\ conn /\ ctl = "idle"
    /\ m # muted
    /\ muted' = m
    /\ IF m /\ Locked
       THEN cancelEvent' = TRUE /\ CancelAll
       ELSE UNCHANGED <<cancelEvent, tCancelled, stray, ann>>
    /\ Change
    /\ UNCHANGED <<conn, ready, bargeIn, wakeReq, admTask, holder, paused,
                   bargeVars, taskVars, tReg, tHacs, tStarted, tOffered,
                   strayFirst, annFirst, gaveUp, answers>>

\* wake_status, stop_status, or the data socket coming and going.
ReadyChange ==
    /\ conn
    /\ ready' = ~ready
    /\ Change
    /\ UNCHANGED <<conn, muted, bargeIn, wakeReq, admTask, holder, paused,
                   cancelEvent, bargeVars, taskVars, turnVars, annVars, gaveUp,
                   answers>>

\* wake_started: confirm_device_started.
DeviceStarted ==
    /\ conn /\ ctl = "idle"
    /\ Locked /\ pc[holder] = "start"
    /\ tReg /\ ~tCancelled /\ ~tStarted
    /\ tStarted' = TRUE
    /\ UNCHANGED <<devVars, wakeReq, admTask, holder, paused, cancelEvent,
                   bargeVars, taskVars, tReg, tHacs, tCancelled, tOffered,
                   strayVars, annVars, envVars, answers>>

-----------------------------------------------------------------------------
(* The admission task: _handle_wake_request.                               *)

\* deny: the message goes out; the tracked id is cleared after the await.
Deny(r) == Answer(r) /\ Go(r, "denying")

\* Refused for what the request or the device is like (stale, malformed, busy,
\* not ready, muted, barge-in off).
AdmissionDenied(r) ==
    /\ pc[r] = "entry"
    /\ Deny(r)
    /\ UNCHANGED <<devVars, wakeReq, admTask, holder, paused, cancelEvent,
                   bargeVars, loopVars, turnVars, annVars, envVars>>

\* What _handle_wake_request asks before it looks at the lock.
Admissible(r) == wakeReq = r /\ ready /\ ~muted

\* The device lost the wake to another one in the room (em_arbiter).
ArbitrationLost(r) ==
    /\ pc[r] = "entry"
    /\ Admissible(r) /\ ~Locked
    /\ Answer(r)
    /\ Go(r, "lost")
    /\ UNCHANGED <<devVars, wakeReq, admTask, holder, paused, cancelEvent,
                   bargeVars, loopVars, turnVars, annVars, envVars>>

\* wake_deny is sent.  A lost arbitration clears whatever id is tracked.
DenyDone(r) ==
    /\ pc[r] \in {"denying", "lost"}
    /\ wakeReq' = IF wakeReq = r \/ pc[r] = "lost" THEN None ELSE wakeReq
    /\ Go(r, "finished")
    /\ UNCHANGED <<devVars, admTask, holder, paused, cancelEvent, bargeVars,
                   loopVars, turnVars, annVars, envVars, answers>>

\* The lock is free: the task takes it and enters the conversation loop.
AdmitWake(r) ==
    /\ pc[r] = "entry"
    /\ Admissible(r)
    /\ ~Locked
    /\ paused' = TRUE
    /\ holder' = r
    /\ loopReq' = r
    /\ Go(r, "create")
    /\ UNCHANGED <<devVars, wakeReq, admTask, cancelEvent, bargeVars, kind,
                   ctl, cont, conts, turnVars, annVars, envVars, answers>>

\* _button_voice_turn starts; `async with voice_lock` waits while it is held.
StartButtonTurn(r) ==
    /\ pc[r] = "button"
    /\ ~Locked
    /\ IF ready
       THEN holder' = r /\ loopReq' = r /\ Go(r, "create")
       ELSE Go(r, "tail") /\ UNCHANGED <<holder, loopReq>>
    /\ UNCHANGED <<devVars, wakeReq, admTask, paused, cancelEvent, bargeVars,
                   kind, ctl, cont, conts, turnVars, annVars, envVars, answers>>

\* The live turns of the device, and the one admit_barge's next() returns: the
\* one registered first.  A stray turn is older than the conversation's.
LiveTurns == (IF tReg /\ ~tCancelled THEN {"voice"} ELSE {})
                 \cup (IF ann = "live" THEN {"ann"} ELSE {})
                 \cup (IF stray = "live" THEN {"stray"} ELSE {})
Older(t) == CASE t = "stray" -> IF strayFirst THEN {} ELSE {"ann"}
              [] t = "ann"   -> (IF strayFirst THEN {"stray"} ELSE {})
                                    \cup (IF annFirst THEN {} ELSE {"voice"})
              [] t = "voice" -> {"stray"} \cup (IF annFirst THEN {"ann"} ELSE {})
BargeTarget == CHOOSE t \in LiveTurns : Older(t) \cap LiveTurns = {}

\* admit_barge up to its first await: the active turn is cancelled.
Barge(r) ==
    /\ pc[r] = "entry"
    /\ Admissible(r)
    /\ Locked /\ bargeIn
    /\ LiveTurns # {}
    /\ tCancelled' = (tCancelled \/ BargeTarget = "voice")
    /\ stray' = IF BargeTarget = "stray" THEN "cancelled" ELSE stray
    /\ ann' = IF BargeTarget = "ann" THEN "cancelled" ELSE ann
    /\ Go(r, "barge")
    /\ UNCHANGED <<devVars, wakeReq, admTask, holder, paused, cancelEvent,
                   bargeVars, loopVars, tReg, tHacs, tStarted, tOffered,
                   strayFirst, annFirst, envVars, answers>>

\* admit_barge denies: no live turn, or the request's deadline has passed.
BargeRefused(r) ==
    /\ pc[r] = "entry"
    /\ Admissible(r)
    /\ Locked
    /\ Answer(r)
    /\ Go(r, "finished")
    /\ UNCHANGED <<devVars, wakeReq, admTask, holder, paused, cancelEvent,
                   bargeVars, loopVars, turnVars, annVars, envVars>>

\* admit_barge after it has told Home Assistant and flushed the speaker.
BargeAdmitted(r) ==
    /\ pc[r] = "barge"
    /\ bargeDetected' = TRUE
    /\ bargeReq' = r
    /\ cancelEvent' = TRUE
    /\ Go(r, "finished")
    /\ UNCHANGED <<devVars, wakeReq, admTask, holder, paused, loopVars,
                   turnVars, annVars, envVars, answers>>

\* The push of the cancel raises: the turn is cancelled, the barge is forgotten.
BargeFails(r) ==
    /\ pc[r] = "barge"
    /\ Change
    /\ Go(r, "finished")
    /\ UNCHANGED <<devVars, wakeReq, admTask, holder, paused, cancelEvent,
                   bargeVars, loopVars, turnVars, annVars, gaveUp, answers>>

\* The task's done callback, _clear_wake_task.
ClearWakeTask(r) ==
    /\ pc[r] = "finished"
    /\ Go(r, "done")
    /\ IF admTask = r
       THEN /\ admTask' = None
            /\ wakeReq' = IF bargeReq # wakeReq THEN None ELSE wakeReq
       ELSE UNCHANGED <<admTask, wakeReq>>
    /\ UNCHANGED <<devVars, holder, paused, cancelEvent, bargeVars, loopVars,
                   turnVars, annVars, envVars, answers>>
-----------------------------------------------------------------------------
(* The conversation loop of the lock's holder: _run_voice_locked around      *)
(* trigger_voice_turn.                                                       *)

\* db.create_turn is done: the turn is registered and its offer on the way.
CreateTurn(r) ==
    /\ pc[r] = "create"
    /\ tReg' = TRUE
    /\ tHacs' = "none"
    /\ tStarted' = FALSE
    /\ tCancelled' = FALSE
    /\ tOffered' = FALSE
    /\ annFirst' = (ann \in {"live", "cancelled"})
    /\ Go(r, "push")
    /\ UNCHANGED <<devVars, wakeReq, admTask, holder, paused, cancelEvent,
                   bargeVars, loopVars, strayVars, ann, envVars, answers>>

\* The offer is pushed.  Only a turn with a request id waits for an acceptance.
Offered(r) ==
    /\ pc[r] = "push"
    /\ tOffered' = TRUE
    /\ Go(r, IF loopReq # None THEN "offer" ELSE "listen")
    /\ UNCHANGED <<devVars, wakeReq, admTask, holder, paused, cancelEvent,
                   bargeVars, loopVars, tReg, tHacs, tStarted, tCancelled,
                   strayVars, annVars, envVars, answers>>

\* An exception leaves trigger_voice_turn before its second try: no finally pops
\* the turn.
Astray(state) ==
    /\ stray = "none"
    /\ stray' = state
    /\ strayFirst' = ~annFirst
    /\ tReg' = FALSE

\* The push of the offer raises; the loop is left with the exception.
OfferFails(r) ==
    /\ pc[r] = "push"
    /\ Astray(IF tCancelled THEN "cancelled" ELSE "live")
    /\ Change
    /\ Go(r, "unwound")
    /\ UNCHANGED <<devVars, wakeReq, admTask, holder, paused, cancelEvent,
                   bargeVars, loopVars, tHacs, tStarted, tCancelled, tOffered,
                   annVars, gaveUp, answers>>

\* Another push (or write) of the turn or of the loop around it raises: the
\* finally pops the turn and the exception leaves the loop.
LoopFails(r) ==
    /\ \/ pc[r] \in {"create", "unstarted", "listen", "play", "persist", "cleanup"}
       \/ pc[r] = "start" /\ tStarted
    /\ tReg' = FALSE
    /\ Change
    /\ Go(r, "unwound")
    /\ UNCHANGED <<devVars, wakeReq, admTask, holder, paused, cancelEvent,
                   bargeVars, loopVars, tHacs, tStarted, tCancelled, tOffered,
                   strayVars, annVars, gaveUp, answers>>

\* Grant without the mute check of admission_valid.
GrantMuted(r) ==
    /\ pc[r] = "offer"
    /\ tHacs = "ready"
    /\ conn /\ ready
    /\ Answer(loopReq)
    /\ Go(r, "start")
    /\ UNCHANGED <<devVars, wakeReq, admTask, holder, paused, cancelEvent,
                   bargeVars, loopVars, turnVars, annVars, envVars>>

\* Accepted with its audio socket open, and admission_valid() holds.
Grant(r) ==
    /\ pc[r] = "offer"
    /\ tHacs = "ready"
    /\ conn /\ ~muted /\ ready
    /\ Answer(loopReq)
    /\ Go(r, "start")
    /\ UNCHANGED <<devVars, wakeReq, admTask, holder, paused, cancelEvent,
                   bargeVars, loopVars, turnVars, annVars, envVars>>

\* DenyTurn without TURN_ACCEPT_TIMEOUT_S.
DenyTurnNoTimeout(r) ==
    /\ pc[r] = "offer"
    /\ tHacs \in {"ready", "rejected"}
    /\ Answer(loopReq)
    /\ Go(r, "denyturn")
    /\ UNCHANGED <<devVars, wakeReq, admTask, holder, paused, cancelEvent,
                   bargeVars, loopVars, turnVars, annVars, envVars>>

\* Rejected, no complete acceptance within TURN_ACCEPT_TIMEOUT_S, or accepted
\* when the device is no longer eligible or the request's deadline has passed.
DenyTurn(r) ==
    /\ pc[r] = "offer"
    /\ Answer(loopReq)
    /\ Go(r, "denyturn")
    /\ UNCHANGED <<devVars, wakeReq, admTask, holder, paused, cancelEvent,
                   bargeVars, loopVars, turnVars, annVars, envVars>>

\* FinishUnstarted that also denies a request it had granted.
FinishUnstartedDenies(r) ==
    /\ pc[r] = "denyturn" \/ (pc[r] = "start" /\ ~tStarted)
    /\ tCancelled' = TRUE
    /\ Answer(loopReq)
    /\ Go(r, "unstarted")
    /\ UNCHANGED <<devVars, wakeReq, admTask, holder, paused, cancelEvent,
                   bargeVars, loopVars, tReg, tHacs, tStarted, tOffered,
                   strayVars, annVars, envVars>>

\* _finish_unstarted_turn begins: after the denial, or when wake_started has not
\* come within WAKE_STARTED_TIMEOUT_S.
FinishUnstarted(r) ==
    /\ pc[r] = "denyturn" \/ (pc[r] = "start" /\ ~tStarted)
    /\ tCancelled' = TRUE
    /\ Go(r, "unstarted")
    /\ UNCHANGED <<devVars, wakeReq, admTask, holder, paused, cancelEvent,
                   bargeVars, loopVars, tReg, tHacs, tStarted, tOffered,
                   strayVars, annVars, envVars, answers>>

\* The device streams: on_admitted, then _run_turn.
Started(r) ==
    /\ pc[r] = "start"
    /\ tStarted
    /\ Go(r, "listen")
    /\ UNCHANGED <<devVars, wakeReq, admTask, holder, paused, cancelEvent,
                   bargeVars, loopVars, turnVars, annVars, envVars, answers>>

\* Home Assistant's endpoint: the answer is played.  A cancel_event that is
\* already set ends the playback before its first frame.
Respond(r) ==
    /\ pc[r] = "listen"
    /\ ~tCancelled
    /\ Go(r, "play")
    /\ UNCHANGED <<devVars, wakeReq, admTask, holder, paused, cancelEvent,
                   bargeVars, loopVars, turnVars, annVars, envVars, answers>>

\* _run_turn is over: played out, cancelled, no speech, or one of its timeouts.
RunDone(r) ==
    /\ pc[r] \in {"listen", "play"}
    /\ Go(r, "persist")
    /\ UNCHANGED <<devVars, wakeReq, admTask, holder, paused, cancelEvent,
                   bargeVars, loopVars, turnVars, annVars, envVars, answers>>

\* trigger_voice_turn returns: the turn is popped, its request no longer tracked.
TurnReturns(r) ==
    /\ pc[r] \in {"persist", "unstarted"}
    /\ tReg' = FALSE
    /\ cont' \in IF pc[r] = "persist" THEN BOOLEAN ELSE {FALSE}
    /\ wakeReq' = IF loopReq # None /\ wakeReq = loopReq THEN None ELSE wakeReq
    /\ Go(r, "cleanup")
    /\ UNCHANGED <<devVars, admTask, holder, paused, cancelEvent, bargeVars,
                   kind, ctl, loopReq, conts, tHacs, tStarted, tCancelled,
                   tOffered, strayVars, annVars, envVars, answers>>

\* LoopBarge clearing the id as if it were a flag.
LoopBargeClearsFlag(r) ==
    /\ pc[r] = "cleanup"
    /\ bargeDetected
    /\ bargeDetected' = FALSE
    /\ loopReq' = bargeReq
    /\ bargeReq' = FALSE
    /\ cancelEvent' = FALSE
    /\ Go(r, "create")
    /\ UNCHANGED <<devVars, wakeReq, admTask, holder, paused, kind, ctl, cont,
                   conts, turnVars, annVars, envVars, answers>>

\* cleanup is done and an admitted barge is waiting.
LoopBarge(r) ==
    /\ pc[r] = "cleanup"
    /\ bargeDetected
    /\ bargeDetected' = FALSE
    /\ loopReq' = bargeReq
    /\ bargeReq' = None
    /\ cancelEvent' = FALSE
    /\ Go(r, "create")
    /\ UNCHANGED <<devVars, wakeReq, admTask, holder, paused, kind, ctl, cont,
                   conts, turnVars, annVars, envVars, answers>>

\* Home Assistant asked for a follow-up, and nothing has cancelled.
LoopContinue(r) ==
    /\ pc[r] = "cleanup"
    /\ ~bargeDetected
    /\ cont /\ ~cancelEvent
    /\ conts < MaxConts
    /\ conts' = conts + 1
    /\ loopReq' = None
    /\ Go(r, "create")
    /\ UNCHANGED <<devVars, wakeReq, admTask, holder, paused, cancelEvent,
                   bargeVars, kind, ctl, cont, turnVars, annVars, envVars,
                   answers>>

\* The loop ends: the lock is released and frames are no longer routed.
LoopEnd(r) ==
    /\ \/ pc[r] = "unwound"
       \/ /\ pc[r] = "cleanup"
          /\ ~bargeDetected
          /\ ~cont \/ cancelEvent \/ conts = MaxConts
    /\ holder' = None
    /\ paused' = FALSE
    /\ Go(r, "tail")
    /\ UNCHANGED <<devVars, wakeReq, admTask, cancelEvent, bargeVars, loopVars,
                   turnVars, annVars, envVars, answers>>

\* TaskTail that leaves the tracked id to the conversation loop.
TaskTailKeepsRequest(r) ==
    /\ pc[r] = "tail"
    /\ wakeReq' = wakeReq
    /\ IF kind[r] = "wake"
       THEN paused' = FALSE /\ Go(r, "finished")
       ELSE UNCHANGED paused /\ Go(r, "done")
    /\ UNCHANGED <<devVars, admTask, holder, cancelEvent, bargeVars, loopVars,
                   turnVars, annVars, envVars, answers>>

\* The finally of the task, after mic_start and resume_interrupted.
TaskTail(r) ==
    /\ pc[r] = "tail"
    /\ wakeReq' = IF wakeReq = r THEN None ELSE wakeReq
    /\ IF kind[r] = "wake"
       THEN paused' = FALSE /\ Go(r, "finished")
       ELSE UNCHANGED paused /\ Go(r, "done")
    /\ UNCHANGED <<devVars, admTask, holder, cancelEvent, bargeVars, loopVars,
                   turnVars, annVars, envVars, answers>>

-----------------------------------------------------------------------------
(* Disconnect.                                                             *)

\* The socket closes: handle_control cancels an admission task that is still
\* running and waits for it, its done callback included.  A button's task is
\* not cancelled.
Disconnect ==
    /\ conn /\ ctl = "idle"
    /\ ctl' = "closing"
    /\ IF admTask # None /\ pc[admTask] \notin {"finished", "done"}
       THEN /\ Go(admTask, IF pc[admTask] \in LoopPoints THEN "abort"
                           ELSE IF pc[admTask] \in {"unwound", "tail"} THEN pc[admTask]
                           ELSE "finished")
            /\ UNCHANGED admTask
       ELSE admTask' = None /\ UNCHANGED pc
    /\ UNCHANGED <<devVars, wakeReq, holder, paused, cancelEvent, bargeVars,
                   kind, loopReq, cont, conts, turnVars, annVars, envVars,
                   answers>>

\* The rest of the finally: the device is no longer in _devices.
Unregister ==
    /\ conn /\ ctl = "closing" /\ admTask = None
    /\ conn' = FALSE
    /\ UNCHANGED <<muted, ready, bargeIn, wakeReq, admTask, holder, paused,
                   cancelEvent, bargeVars, taskVars, turnVars, annVars,
                   envVars, answers>>

\* CancelledError reaches trigger_voice_turn, which ends a registered turn as
\* disconnected, under a shield.
Abort(r) ==
    /\ pc[r] = "abort"
    /\ tCancelled' = (tCancelled \/ tReg)
    /\ Go(r, "unwinding")
    /\ UNCHANGED <<devVars, wakeReq, admTask, holder, paused, cancelEvent,
                   bargeVars, loopVars, tReg, tHacs, tStarted, tOffered,
                   strayVars, annVars, envVars, answers>>

\* Unwind without the finally that pops the turn.
UnwindKeepsTurn(r) ==
    /\ pc[r] = "unwinding"
    /\ tReg' = tReg
    /\ Go(r, "unwound")
    /\ UNCHANGED <<devVars, wakeReq, admTask, holder, paused, cancelEvent,
                   bargeVars, loopVars, tHacs, tStarted, tCancelled, tOffered,
                   strayVars, annVars, envVars, answers>>

\* Its row is written: the turn is popped, cleanup runs.
Unwind(r) ==
    /\ pc[r] = "unwinding"
    /\ tReg' = FALSE
    /\ Go(r, "unwound")
    /\ UNCHANGED <<devVars, wakeReq, admTask, holder, paused, cancelEvent,
                   bargeVars, loopVars, tHacs, tStarted, tCancelled, tOffered,
                   strayVars, annVars, envVars, answers>>

\* A push of the shielded _finish_unstarted_turn raises: the handler of the
\* offer's push has no finally, so a turn that was not offered stays.
UnwindFails(r) ==
    /\ pc[r] = "unwinding"
    /\ tReg /\ ~tOffered
    /\ Astray("cancelled")
    /\ Change
    /\ Go(r, "unwound")
    /\ UNCHANGED <<devVars, wakeReq, admTask, holder, paused, cancelEvent,
                   bargeVars, loopVars, tHacs, tStarted, tCancelled, tOffered,
                   annVars, gaveUp, answers>>

-----------------------------------------------------------------------------
(* Home Assistant.                                                         *)

\* POST accept, the audio socket, POST reject (ignored once accepted).
HacsAnswer(a) ==
    /\ tReg
    /\ \/ tHacs = "none" /\ a \in {"accepted", "rejected"}
       \/ tHacs = "accepted" /\ a = "ready"
    /\ tHacs' = a
    /\ tCancelled' = (tCancelled \/ a = "rejected")
    /\ UNCHANGED <<devVars, wakeReq, admTask, holder, paused, cancelEvent,
                   bargeVars, taskVars, tReg, tStarted, tOffered, strayVars,
                   annVars, envVars, answers>>

\* POST cancel, of either turn (a POST reject of the stray one does the same).
HacsCancel ==
    /\ \/ tReg /\ ~tCancelled /\ tCancelled' = TRUE /\ UNCHANGED stray
       \/ stray = "live" /\ stray' = "cancelled" /\ UNCHANGED tCancelled
    /\ Change
    /\ UNCHANGED <<devVars, wakeReq, admTask, holder, paused, cancelEvent,
                   bargeVars, taskVars, tReg, tHacs, tStarted, tOffered,
                   strayFirst, annVars, gaveUp, answers>>

\* create_turn for an announcement.
Announce ==
    /\ conn /\ ready
    /\ ann = "none"
    /\ ann' = "live"
    /\ annFirst' = ~tReg
    /\ Change
    /\ UNCHANGED <<devVars, wakeReq, admTask, holder, paused, cancelEvent,
                   bargeVars, taskVars, turnVars, gaveUp, answers>>

\* Its play callback clears cancel_event before the speaker is taken.
AnnouncePlay ==
    /\ ann = "live"
    /\ cancelEvent
    /\ cancelEvent' = FALSE
    /\ UNCHANGED <<devVars, wakeReq, admTask, holder, paused, bargeVars,
                   taskVars, turnVars, annVars, envVars, answers>>

\* _finish_created_turn pops it.
AnnounceEnd ==
    /\ ann \in {"live", "cancelled"}
    /\ ann' = "gone"
    /\ UNCHANGED <<devVars, wakeReq, admTask, holder, paused, cancelEvent,
                   bargeVars, taskVars, turnVars, annFirst, envVars, answers>>

-----------------------------------------------------------------------------
Init ==
    /\ conn = TRUE
    /\ muted = FALSE
    /\ ready = TRUE
    /\ bargeIn \in BOOLEAN
    /\ wakeReq = None
    /\ admTask = None
    /\ holder = None
    /\ paused = FALSE
    /\ cancelEvent = FALSE
    /\ bargeDetected = FALSE
    /\ bargeReq = None
    /\ pc = [r \in Req |-> "new"]
    /\ kind = [r \in Req |-> "wake"]
    /\ ctl = "idle"
    /\ loopReq = None
    /\ cont = FALSE
    /\ conts = 0
    /\ tReg = FALSE
    /\ tHacs = "none"
    /\ tStarted = FALSE
    /\ tCancelled = FALSE
    /\ tOffered = FALSE
    /\ stray = "none"
    /\ strayFirst = FALSE
    /\ ann = "none"
    /\ annFirst = FALSE
    /\ gaveUp = {}
    /\ changes = 0
    /\ answers = [r \in Req |-> 0]

\* What the device, the user and Home Assistant may do at any time.
Environment ==
    \/ \E r \in Req : \/ WakeRequest(r)
                      \/ WakeRefused(r)
                      \/ ButtonTurn(r)
                      \/ ButtonDuringTurn(r)
                      \/ ButtonRefused(r)
                      \/ GiveUp(r)
    \/ \E m \in BOOLEAN : MuteState(m)
    \/ ReadyChange
    \/ DeviceStarted
    \/ Disconnect
    \/ Unregister
    \/ \E a \in {"accepted", "ready", "rejected"} : HacsAnswer(a)
    \/ HacsCancel
    \/ Announce
    \/ AnnouncePlay
    \/ AnnounceEnd

\* The next stretch of the task of r.
Task(r) ==
    \/ AdmissionDenied(r)
    \/ ArbitrationLost(r)
    \/ DenyDone(r)
    \/ AdmitWake(r)
    \/ StartButtonTurn(r)
    \/ Barge(r)
    \/ BargeRefused(r)
    \/ BargeAdmitted(r)
    \/ ClearWakeTask(r)
    \/ CreateTurn(r)
    \/ Offered(r)
    \/ Grant(r)
    \/ DenyTurn(r)
    \/ FinishUnstarted(r)
    \/ Started(r)
    \/ Respond(r)
    \/ RunDone(r)
    \/ TurnReturns(r)
    \/ LoopBarge(r)
    \/ LoopContinue(r)
    \/ LoopEnd(r)
    \/ TaskTail(r)
    \/ Abort(r)
    \/ Unwind(r)

\* A push raises in it: the client set changed during the iteration.
Fails(r) ==
    \/ OfferFails(r)
    \/ LoopFails(r)
    \/ BargeFails(r)
    \/ UnwindFails(r)

Next ==
    \/ Environment
    \/ ButtonCancel
    \/ \E r \in Req : Task(r) \/ Fails(r)

Spec == Init /\ [][Next]_vars

\* The event loop runs every task whose await is over, and every await of the
\* conversation is over some day: each has a timeout of its own.
FairSpec == Spec /\ \A r \in Req : WF_vars(Task(r))

-----------------------------------------------------------------------------
(* Properties.                                                             *)

\* Every variable has the shape the code gives it.
TypeOK ==
    /\ conn \in BOOLEAN /\ muted \in BOOLEAN /\ ready \in BOOLEAN
    /\ bargeIn \in BOOLEAN /\ paused \in BOOLEAN /\ cancelEvent \in BOOLEAN
    /\ bargeDetected \in BOOLEAN /\ cont \in BOOLEAN
    /\ tReg \in BOOLEAN /\ tStarted \in BOOLEAN /\ tCancelled \in BOOLEAN
    /\ annFirst \in BOOLEAN /\ tOffered \in BOOLEAN /\ strayFirst \in BOOLEAN
    /\ wakeReq \in Req \cup {None} /\ admTask \in Req \cup {None}
    /\ holder \in Req \cup {None} /\ bargeReq \in Req \cup {None}
    /\ loopReq \in Req \cup {None}
    /\ pc \in [Req -> Points]
    /\ kind \in [Req -> {"wake", "button"}]
    /\ ctl \in {"idle", "cancel", "closing"}
    /\ conts \in Nat
    /\ tHacs \in {"none", "accepted", "ready", "rejected"}
    /\ ann \in {"none", "live", "cancelled", "gone"}
    /\ stray \in {"none", "live", "cancelled"}
    /\ gaveUp \in SUBSET Req
    /\ changes \in Nat
    /\ answers \in [Req -> Nat]

\* Whatever interleaving of admission, barge, mute, disconnect, timeouts and pushes
\* that raise: at most one task is inside the conversation loop, it is the one
\* holding voice_lock, and a voice turn whose offer was pushed is in ENGINE.turns
\* only while it is there.  A turn whose offer was not is the exception (`stray`).
OneConversation ==
    /\ \A r \in Req : pc[r] \in LoopPoints \cup AbortPoints <=> holder = r
    /\ tReg => Locked

\* "finally: ENGINE.turns.pop": every voice turn in ENGINE.turns is the one of the
\* conversation that holds the lock.
EveryTurnHasItsLoop == stray = "none"

\* The device is told grant or deny at most once for each request it sends.
AnsweredOnce == \A r \in Req : answers[r] <= 1

\* "_clear_wake_task below already handles both admit_barge outcomes correctly":
\* once every task is done and the lock is free, no request is still tracked, so
\* the next wake is not refused as busy.
IdleDeviceAdmits ==
    (ctl # "closing" /\ ~Locked /\ \A r \in Req : pc[r] \in {"new", "done"})
        => wakeReq = None

\* "Mute during an active turn terminates it": while muted, the turn of the
\* conversation that holds the lock is cancelled.
MuteTerminatesTurn ==
    (muted /\ Locked /\ pc[holder] \in {"listen", "play"}) => tCancelled

\* With barge-in off, whatever was cancelled, muted, denied or timed out: once
\* every task is done and the lock is free, no request is still tracked, so the
\* next wake is not refused as busy.
IdleAdmitsWithoutBarge == ~bargeIn => IdleDeviceAdmits

\* A turn some request asked for is not left listening or speaking on a muted
\* device: mute cancels it, or was seen before the grant.
MuteEndsRequestedTurn == loopReq # None => MuteTerminatesTurn

\* voice_lock is never held for ever: every wait of a turn is bounded, with or
\* without an answer of Home Assistant or of the device.
LockReleased == Locked ~> ~Locked

\* "cancel its exact active HA turn": once admit_barge has cancelled, the turn
\* of the running conversation is the one that is cancelled.
BargeEndsConversation ==
    \A r \in Req : pc[r] = "barge" /\ tReg => tCancelled

\* "set during voice turn": the frames of a running turn go to voice_queue.
RoutedWhileTurnRuns == (Locked /\ pc[holder] \in {"listen", "play"}) => paused

\* "cleared first, exactly as a voice turn does": a turn that nobody cancelled
\* does not lose its answer to an earlier turn's cancel.
AnswerNotSilenced == [][\A r \in Req : Respond(r) => ~cancelEvent]_vars

=============================================================================
