----------------------------- MODULE TimerAlarms -----------------------------
(***************************************************************************)
(* How the alarms of one Echo ring: Home Assistant's timer events and the  *)
(* fired wall-clock alarms (em_api._post_timer_event, fire_alarm), which   *)
(* share _deliver_finished; the ringing task of em_timer_alarm             *)
(* TimerAlarmRunner; the three ways to dismiss (dot button, card, stop     *)
(* word), which share dismiss_timer_alarm; mute and disconnect.  A task or *)
(* handler runs alone from one await to the next; an action is one such    *)
(* stretch.                                                                *)
(***************************************************************************)
EXTENDS AlarmSession

CONSTANTS
    Handlers,   \* requests that may be dismissing, or disconnecting, at once
    Control,    \* the one among them that serves the device's control socket
    Tasks,      \* ringing tasks the runner may create
    MaxMutes,   \* bound: presses of the mute button
    MaxEvents   \* bound: events Home Assistant sends

ASSUME TasksAssumption == None \notin Tasks
ASSUME ControlAssumption == Control \in Handlers
ASSUME BoundsAssumption == MaxMutes \in Nat /\ MaxEvents \in Nat

VARIABLES
    \* the device
    present,    \* _devices has the device
    muted,      \* Device.muted
    mutes, events,  \* how often the environment acted so far
    \* _deliver_finished, by timer
    delivery,   \* the push it awaits: "forward" or "recheck" (timer.event, with
                \* and without alarm_changed), "push" (timer.alarm)
    \* TimerAlarmRunner
    tracked,    \* _tasks[device_id]
    registered, \* the task whose event is _cancel[device_id]
    cancelSet,  \* tasks whose cancel event is set
    tpc,        \* where each ringing task is suspended
    heard,      \* current_timer_id of each task
    \* the stop-word arm of the ringing alarm
    armed,      \* the alarm whose ring the arm in force belongs to
    \* dismiss_timer_alarm and notify_device_disconnected
    hpc,        \* where each handler is suspended
    hfor,       \* "dismiss" or "gone"
    htask,      \* stop()'s local `task`
    \* history
    misdirected \* a spoken "stop" dismissed an alarm other than the one heard

runner == <<tracked, registered, cancelSet, tpc, heard, armed>>
handlers == <<hpc, hfor, htask>>
device == <<present, muted, mutes, events>>
vars == <<session, device, delivery, runner, handlers, misdirected>>

Dead == {"off", "done"}
RingPoints == {"arming", "playing", "gap", "notify"}
ClosingPoints == {"resume", "closing"}
TaskPoints == Dead \cup RingPoints \cup ClosingPoints \cup {"created", "load", "opening", "bail"}

To(k, p) == tpc' = [tpc EXCEPT ![k] = p]
Alive(k) == tpc[k] \notin Dead

\* is_running.
IsRunning == tracked # None /\ Alive(tracked)

-----------------------------------------------------------------------------
(* TimerAlarmRunner.start.                                                 *)

\* A start that files the task under the alarm.
StartTracksTimer ==
    \E k \in Tasks :
        /\ tpc[k] = "off"
        /\ tracked' = current
        /\ To(k, "created")
        /\ UNCHANGED <<registered, cancelSet, heard>>

\* No-op while the tracked task is running, else a new task with its own event.
Start ==
    IF IsRunning
    THEN UNCHANGED <<tracked, registered, cancelSet, tpc, heard>>
    ELSE \E k \in Tasks :
            /\ tpc[k] = "off"
            /\ \A h \in Handlers : hpc[h] \in {"flush", "wait"} => htask[h] # k
            /\ tracked' = k
            /\ registered' = k
            /\ cancelSet' = cancelSet \ {k}
            /\ heard' = [heard EXCEPT ![k] = None]
            /\ To(k, "created")

-----------------------------------------------------------------------------
(* Delivery of a finished timer or a fired alarm.                          *)

\* POST timer-event: apply, then the forwarded timer.event is pushed.  A
\* duplicate goes no further.
TimerEvent(t, e, v) ==
    /\ delivery[t] = "none"
    /\ events < MaxEvents
    /\ events' = events + 1
    /\ Apply(t, e, v)
    /\ delivery' = [delivery EXCEPT ![t] =
                        IF e = "finished" /\ ~Duplicate(t, e, v)
                        THEN IF AlarmChanged(t, e) THEN "forward" ELSE "recheck"
                        ELSE "none"]
    /\ UNCHANGED <<present, muted, mutes, runner, handlers, misdirected>>

\* _deliver_finished up to its push: an offline or muted device discards all.
DeliverFinished(t) ==
    /\ delivery[t] \in {"forward", "recheck"}
    /\ IF ~present \/ muted
       THEN DismissAll /\ delivery' = [delivery EXCEPT ![t] = "none"]
       ELSE /\ delivery' = [delivery EXCEPT ![t] =
                                IF delivery[t] = "forward" THEN "push" ELSE "none"]
            /\ UNCHANGED session
    /\ UNCHANGED <<device, runner, handlers, misdirected>>

\* The snapshot is pushed: ring, if something still rings.
StartRinging(t) ==
    /\ delivery[t] = "push"
    /\ delivery' = [delivery EXCEPT ![t] = "none"]
    /\ IF current # None
       THEN Start
       ELSE UNCHANGED <<tracked, registered, cancelSet, tpc, heard>>
    /\ UNCHANGED <<session, device, armed, handlers, misdirected>>

-----------------------------------------------------------------------------
(* The ringing task: TimerAlarmRunner._run.                                *)

\* The task gets its first turn: no device, no alarm.
RunBegins(k) ==
    /\ tpc[k] = "created"
    /\ IF present
       THEN To(k, "load") /\ UNCHANGED session
       ELSE To(k, "bail") /\ DismissAll
    /\ UNCHANGED <<device, delivery, tracked, registered, cancelSet, heard, armed,
                   handlers, misdirected>>

\* _load_sound gives the sound, or nothing.
SoundLoaded(k) ==
    /\ tpc[k] = "load"
    /\ \/ To(k, "opening") /\ UNCHANGED session
       \/ To(k, "bail") /\ DismissAll
    /\ UNCHANGED <<device, delivery, tracked, registered, cancelSet, heard, armed,
                   handlers, misdirected>>

\* The head of the loop: leave, announce a new current alarm, or play again.
\* on_current disarms the old alarm's stop word before its first await, and does
\* nothing when the device or its stop word is not there.
LoopTop(k) ==
    IF current = None \/ k \in cancelSet
    THEN To(k, "resume") /\ UNCHANGED <<heard, armed>>
    ELSE IF current # heard[k]
         THEN /\ heard' = [heard EXCEPT ![k] = current]
              /\ \/ present /\ To(k, "arming") /\ armed' = None
                 \/ To(k, "playing") /\ UNCHANGED armed
         ELSE To(k, "playing") /\ UNCHANGED <<heard, armed>>

\* on_state(True) and em_player.interrupt, a timeout's snapshot, or the pause
\* between two bursts is over.
Loop(k) ==
    /\ tpc[k] \in {"opening", "notify", "gap"}
    /\ LoopTop(k)
    /\ UNCHANGED <<session, device, delivery, tracked, registered, cancelSet,
                   handlers, misdirected>>

\* The rest of on_current: the ring that begins gets its own arm.
Arm(k) ==
    /\ tpc[k] = "arming"
    /\ armed' = IF present THEN heard[k] ELSE armed
    /\ To(k, "playing")
    /\ UNCHANGED <<session, device, delivery, tracked, registered, cancelSet, heard,
                   handlers, misdirected>>

\* A time-out that never advances the queue.
BurstForever(k) == UNCHANGED session /\ To(k, "gap")

\* The deadline of the ring has passed: timeout_current, whoever is current.
BurstTimesOut(k) == DismissCurrent /\ To(k, "notify")

\* A burst has played, or was cut by the cancel event.
BurstDone(k) ==
    /\ tpc[k] = "playing"
    /\ \/ k \in cancelSet /\ To(k, "resume") /\ UNCHANGED session
       \/ k \notin cancelSet /\ BurstTimesOut(k)
       \/ k \notin cancelSet /\ To(k, "gap") /\ UNCHANGED session
    /\ UNCHANGED <<device, delivery, tracked, registered, cancelSet, heard, armed,
                   handlers, misdirected>>

\* An on_state(False) that only clears the LEDs.
DisarmNever == UNCHANGED armed

\* on_state(False) begins: the arm of the ring is disarmed.
DisarmRing == armed' = IF present THEN None ELSE armed

\* The finally: music is resumed, then on_state(False) disarms and clears the
\* ring, then the cancel event is dropped and the task is done.
RunCloses(k) ==
    \/ /\ tpc[k] = "resume"
       /\ To(k, "closing")
       /\ DisarmRing
       /\ UNCHANGED registered
    \/ /\ tpc[k] \in {"closing", "bail"}
       /\ To(k, "done")
       /\ registered' = IF tpc[k] = "closing" THEN None ELSE registered
       /\ UNCHANGED armed

RunEnds(k) ==
    /\ RunCloses(k)
    /\ UNCHANGED <<session, device, delivery, tracked, cancelSet, heard, handlers,
                   misdirected>>

\* The task's done callback: whatever is tracked is dropped.
DoneCallback(k) ==
    /\ tpc[k] = "done"
    /\ To(k, "off")
    /\ tracked' = None
    /\ UNCHANGED <<session, device, delivery, registered, cancelSet, heard, armed,
                   handlers, misdirected>>

-----------------------------------------------------------------------------
(* dismiss_timer_alarm, notify_device_disconnected, and stop() inside them. *)

\* stop() up to its await on the flush; no running task, no stop.
StopBegins(h) ==
    IF IsRunning
    THEN IF registered = None
         THEN hpc' = [hpc EXCEPT ![h] = "idle"] /\ UNCHANGED <<cancelSet, htask>>
         ELSE /\ cancelSet' = cancelSet \cup {registered}
              /\ htask' = [htask EXCEPT ![h] = tracked]
              /\ hpc' = [hpc EXCEPT ![h] = "flush"]
    ELSE hpc' = [hpc EXCEPT ![h] = "stopped"] /\ UNCHANGED <<cancelSet, htask>>

\* dismiss_timer_alarm up to its first await.
Dismiss(h) ==
    IF current # None
    THEN /\ hfor' = [hfor EXCEPT ![h] = "dismiss"]
         /\ DismissCurrent
         /\ StopBegins(h)
    ELSE /\ hpc' = [hpc EXCEPT ![h] = "idle"]
         /\ UNCHANGED <<session, hfor, htask, cancelSet>>

\* POST timer-alarm/dismiss, from the card.
CardDismiss(h) ==
    /\ h # Control
    /\ hpc[h] = "idle" /\ current # None
    /\ Dismiss(h)
    /\ UNCHANGED <<device, delivery, tracked, registered, tpc, heard, armed,
                   misdirected>>

\* A tap on the dot button is a dismissal only when timer_alarm_ringing(); the
\* wake it also announced is denied first.
ButtonTap ==
    /\ present /\ hpc[Control] = "idle"
    /\ IsRunning
    /\ hpc' = [hpc EXCEPT ![Control] = "tapped"]
    /\ UNCHANGED <<session, device, delivery, runner, hfor, htask, misdirected>>

ButtonDismiss ==
    /\ hpc[Control] = "tapped"
    /\ Dismiss(Control)
    /\ UNCHANGED <<device, delivery, tracked, registered, tpc, heard, armed,
                   misdirected>>

\* stop_detected for the arm in force: the arm is used up.
StopWordDismiss ==
    /\ present /\ hpc[Control] = "idle"
    /\ armed # None
    /\ armed' = None
    /\ misdirected' = (misdirected \/ current \notin {None, armed})
    /\ Dismiss(Control)
    /\ UNCHANGED <<device, delivery, tracked, registered, tpc, heard>>

\* The control socket closed: notify_device_disconnected calls stop().
Disconnect ==
    /\ present /\ hpc[Control] = "idle"
    /\ hfor' = [hfor EXCEPT ![Control] = "gone"]
    /\ StopBegins(Control)
    /\ UNCHANGED <<session, device, delivery, tracked, registered, tpc, heard, armed,
                   misdirected>>

\* Where CancelledError leads from an await of the task.
AfterCancel ==
    [p \in TaskPoints |-> IF p \in RingPoints THEN "resume"
                          ELSE IF p \in {"opening", "resume"} THEN "closing"
                          ELSE IF p \in Dead THEN p ELSE "done"]

\* speaker_flush is sent: task.cancel(), then wait for it.
StopCancels(h) ==
    /\ hpc[h] = "flush"
    /\ LET k == htask[h]
       IN /\ To(k, AfterCancel[tpc[k]])
          /\ registered' = IF tpc[k] = "closing" THEN None ELSE registered
          /\ IF tpc[k] \in {"opening", "resume"} THEN DisarmRing ELSE UNCHANGED armed
    /\ hpc' = [hpc EXCEPT ![h] = "wait"]
    /\ UNCHANGED <<session, device, delivery, tracked, cancelSet, heard, hfor, htask,
                   misdirected>>

\* The task is done: stop() drops what is tracked under the device's name.
StopEnds(h) ==
    /\ hpc[h] = "wait"
    /\ tpc[htask[h]] = "off"
    /\ tracked' = None
    /\ registered' = None
    /\ hpc' = [hpc EXCEPT ![h] = "stopped"]
    /\ UNCHANGED <<session, device, delivery, cancelSet, tpc, heard, armed, hfor,
                   htask, misdirected>>

\* The rest of dismiss_timer_alarm: push, then ring the next alarm.
DismissEnds(h) ==
    /\ hpc[h] = "stopped" /\ hfor[h] = "dismiss"
    /\ hpc' = [hpc EXCEPT ![h] = "idle"]
    /\ IF current # None
       THEN Start
       ELSE UNCHANGED <<tracked, registered, cancelSet, tpc, heard>>
    /\ UNCHANGED <<session, device, delivery, armed, hfor, htask, misdirected>>

\* notify_device_disconnected: the session is cleared and the change pushed.
ClearSession(h) ==
    /\ hpc[h] = "stopped" /\ hfor[h] = "gone"
    /\ DismissAll
    /\ hpc' = [hpc EXCEPT ![h] = "cleared"]
    /\ UNCHANGED <<device, delivery, runner, hfor, htask, misdirected>>

\* _devices.pop.
DeviceGone(h) ==
    /\ hpc[h] = "cleared"
    /\ present' = FALSE
    /\ hpc' = [hpc EXCEPT ![h] = "idle"]
    /\ armed' = None
    /\ UNCHANGED <<session, muted, mutes, events, delivery, tracked, registered, cancelSet,
                   tpc, heard, hfor, htask, misdirected>>

\* The device registers again.
Reconnect ==
    /\ ~present
    /\ present' = TRUE
    /\ UNCHANGED <<session, muted, mutes, events, delivery, runner, handlers,
                   misdirected>>

\* mute_state.  A ring that is under way goes on.
Mute ==
    /\ present
    /\ mutes < MaxMutes
    /\ mutes' = mutes + 1
    /\ muted' = ~muted
    /\ UNCHANGED <<session, present, events, delivery, runner, handlers,
                   misdirected>>

-----------------------------------------------------------------------------
Init ==
    /\ SessionInit
    /\ present = TRUE
    /\ muted = FALSE
    /\ mutes = 0
    /\ events = 0
    /\ delivery = [t \in Timers |-> "none"]
    /\ tracked = None
    /\ registered = None
    /\ cancelSet = {}
    /\ tpc = [k \in Tasks |-> "off"]
    /\ heard = [k \in Tasks |-> None]
    /\ armed = None
    /\ hpc = [h \in Handlers |-> "idle"]
    /\ hfor = [h \in Handlers |-> "dismiss"]
    /\ htask = [h \in Handlers |-> None]
    /\ misdirected = FALSE

\* The next stretch of a ringing task.
Run(k) ==
    \/ RunBegins(k)
    \/ SoundLoaded(k)
    \/ Loop(k)
    \/ Arm(k)
    \/ BurstDone(k)
    \/ RunEnds(k)
    \/ DoneCallback(k)

\* The next stretch of a dismissal or a disconnect that is under way.
Handle(h) ==
    \/ StopCancels(h)
    \/ StopEnds(h)
    \/ DismissEnds(h)
    \/ ClearSession(h)
    \/ DeviceGone(h)

Deliver(t) == DeliverFinished(t) \/ StartRinging(t)

Next ==
    \/ \E t \in Timers, e \in Events, v \in Variants : TimerEvent(t, e, v)
    \/ \E t \in Timers : Deliver(t)
    \/ \E k \in Tasks : Run(k)
    \/ \E h \in Handlers : CardDismiss(h) \/ Handle(h)
    \/ ButtonTap
    \/ ButtonDismiss
    \/ StopWordDismiss
    \/ Disconnect
    \/ Reconnect
    \/ Mute

Spec == Init /\ [][Next]_vars

\* The event loop runs every task and handler whose await is over, and every
\* await here is over some day.  A ring keeps coming to the end of a burst, and
\* from 120 s on each of them finds the deadline passed.
FairSpec ==
    /\ Spec
    /\ \A t \in Timers : WF_vars(Deliver(t))
    /\ \A k \in Tasks : WF_vars(Run(k)) /\ SF_vars(BurstDone(k) /\ BurstTimesOut(k))
    /\ \A h \in Handlers : WF_vars(Handle(h))
    /\ WF_vars(ButtonDismiss)

-----------------------------------------------------------------------------
(* Properties.                                                             *)

\* Every variable has the shape the code gives it.
TypeOK ==
    /\ SessionTypeOK
    /\ present \in BOOLEAN /\ muted \in BOOLEAN /\ misdirected \in BOOLEAN
    /\ mutes \in Nat /\ events \in Nat
    /\ delivery \in [Timers -> {"none", "forward", "recheck", "push"}]
    /\ tracked \in Tasks \cup {None} /\ registered \in Tasks \cup {None}
    /\ cancelSet \in SUBSET Tasks
    /\ tpc \in [Tasks -> TaskPoints]
    /\ heard \in [Tasks -> Timers \cup {None}]
    /\ armed \in Timers \cup {None}
    /\ hpc \in [Handlers -> {"idle", "tapped", "flush", "wait", "stopped", "cleared"}]
    /\ hfor \in [Handlers -> {"dismiss", "gone"}]
    /\ htask \in [Handlers -> Tasks \cup {None}]

\* However a ring ended - dismissed, timed out, cancelled by Home Assistant, cut
\* by a disconnect at any await of the task - its stop-word arm does not outlive
\* it, so a later "stop" is not taken for a dismissal.
ArmDiesWithRing == armed # None => \E k \in Tasks : Alive(k)

\* Every ring ends and gives the speaker back, answered or not, also when
\* several dismissals and a disconnect meet.
RingEnds == \A k \in Tasks : tpc[k] = "playing" ~> ~Alive(k)

Quiet == /\ \A t \in Timers : delivery[t] = "none"
         /\ \A h \in Handlers : hpc[h] = "idle"
         /\ \A k \in Tasks : ~Alive(k)

\* The session is not left "ringing with no task left to clear it": once nothing
\* is under way, no alarm is current.
NoSilentRinging == Quiet => current = None

\* "A tap dismisses an active alarm locally": while a task plays, the button
\* finds timer_alarm_ringing().
TapReachesRing == (\E k \in Tasks : tpc[k] = "playing") => IsRunning

\* "Each queued alarm receives its own bounded stop-word arm": an accepted
\* "stop" dismisses the alarm whose ring armed it.
StopDismissesItsAlarm == ~misdirected
=============================================================================
