--------------------------- MODULE AlarmScheduler ---------------------------
(***************************************************************************)
(* The wall-clock alarms of one Echo: the alarms table (em_db), the alarm  *)
(* API (em_api._post_alarm, _delete_alarm), the scheduler's passes         *)
(* (em_alarm_scheduler) with the recurrence rules of em_alarms, and        *)
(* fire_alarm up to the start of the ring, which TimerAlarms continues.    *)
(*                                                                         *)
(* Time is the host's wall clock in units of a few minutes, long against   *)
(* the 20 s between passes.  Occurrences are in local time without         *)
(* daylight saving: instant d*Day + At[a] is alarm a's on day d, and d its *)
(* occurrence key.  The scheduler runs on the event loop and is suspended  *)
(* between passes and in fire_alarm's push; the API writes the table from  *)
(* an executor thread, at any moment.                                      *)
(***************************************************************************)
EXTENDS Integers, FiniteSets, FiniteSetsExt

CONSTANTS
    Alarms,       \* alarm ids (uuids: one is never used twice)
    None,         \* Python's None and SQL's NULL
    Day,          \* units of time in a day
    At,           \* the local time of day of each alarm
    Recurrences,  \* the sets of days a recurrence may select
    Grace,        \* ALARM_LATE_GRACE_S
    MaxTime,      \* bound: the wall clock stops there
    MaxCrashes,   \* bound: controller restarts
    MaxJumps,     \* bound: steps of the wall clock
    MaxFails,     \* bound: pushes that raise
    MaxChanges    \* bound: disconnects and mutes of the device

ASSUME NoneAssumption == None \notin Nat
ASSUME AlarmsAssumption == None \notin Alarms
ASSUME DayAssumption == Day \in Nat \ {0, 1}  \* a day is longer than the time between two passes
ASSUME AtAssumption == At \in [Alarms -> 0..(Day - 1)]
ASSUME RecurrencesAssumption == \A days \in Recurrences : days \subseteq Nat /\ days # {}
ASSUME GraceAssumption == Grace \in Nat /\ Grace < Day
ASSUME BoundsAssumption ==
    {MaxTime, MaxCrashes, MaxJumps, MaxFails, MaxChanges} \subseteq Nat

VARIABLES
    \* the world
    now,         \* time.time()
    crashes, jumps, fails, changes,  \* how often the environment acted
    \* the alarms table
    row,         \* each alarm's row: state, recurrence, next_fire_utc,
                 \* last_fired_occurrence, and the time it was created
    \* the controller, lost in a crash
    pc,          \* where the scheduler is
    settled,     \* the first pass is over: devices and browsers connect
    swept,       \* a pass began since the clock last moved
    passNow,     \* reconcile_once's `now`
    snap,        \* the loaded rows not yet reconciled
    job,         \* _reconcile_alarm's locals: alarm, occurrence, next fire, outcome
    device,      \* the Echo: "offline", "muted" or "ready"
    seen,        \* <<alarm, occurrence>> the device's AlarmSession has accepted
    \* history
    rung,        \* <<alarm, occurrence>> whose ring was started
    lost,        \* <<alarm, occurrence>> whose push raised
    repeated,    \* some occurrence was rung twice
    readySince   \* since when the device can ring, None when it cannot

world == <<crashes, jumps, fails, changes>>
pass == <<pc, settled, swept, passNow, snap, job>>
history == <<rung, lost, repeated>>
vars == <<now, world, row, pass, device, seen, history, readySince>>

-----------------------------------------------------------------------------
(* em_alarms.                                                              *)

Instant(a, d) == d * Day + At[a]

\* occurrence_key: the local date an instant falls on.
OccurrenceKey(t) == t \div Day

\* A next_fire that may return the instant it is given.
NextFireInclusive(a, days, after) ==
    LET later == {t \in {Instant(a, d) : d \in days} : t >= after}
    IN  IF later = {} THEN None ELSE Min(later)

\* next_fire: the earliest instant strictly after the given one.
NextFire(a, days, after) ==
    LET later == {t \in {Instant(a, d) : d \in days} : t > after}
    IN  IF later = {} THEN None ELSE Min(later)

\* A grace window that opens only after the instant itself.
WithinGraceOpen(t, at) == 0 < at - t /\ at - t <= Grace

\* within_grace.
WithinGrace(t, at) == 0 <= at - t /\ at - t <= Grace

-----------------------------------------------------------------------------
(* The alarms table and its API.                                           *)

Absent == [state |-> "none", days |-> {}, next |-> None, last |-> None, made |-> None]

\* POST alarms: validated, scheduled from the clock, stored.  A one-off whose
\* date has passed is stored enabled, with no next fire.
PostAlarm(a, days) ==
    /\ pc # "down"
    /\ row[a].state = "none"
    /\ row' = [row EXCEPT ![a] = [state |-> "on", days |-> days,
                                  next |-> NextFire(a, days, now),
                                  last |-> None, made |-> now]]
    /\ UNCHANGED <<now, world, pass, device, seen, history, readySince>>

\* DELETE alarms.
DeleteAlarm(a) ==
    /\ pc # "down"
    /\ row[a].state \in {"on", "off"}
    /\ row' = [row EXCEPT ![a] = [Absent EXCEPT !.state = "gone"]]
    /\ UNCHANGED <<now, world, pass, device, seen, history, readySince>>

\* set_alarm_schedule: no row is left to UPDATE once the alarm is deleted, and
\* a NULL occurrence keeps the stored one.
SetAlarmSchedule(a, next, last) ==
    LET kept == IF last = None THEN row[a].last ELSE last
    IN  row' = [row EXCEPT ![a] = IF @.state = "gone" THEN @
                                  ELSE [@ EXCEPT !.next = next, !.last = kept]]

\* update_alarm(enabled=False).
DisableAlarm(a) ==
    row' = [row EXCEPT ![a] = IF @.state = "gone" THEN @ ELSE [@ EXCEPT !.state = "off"]]

-----------------------------------------------------------------------------
(* reconcile_once.                                                         *)

NoJob == [alarm |-> None, key |-> None, next |-> None, outcome |-> None]

\* run() begins a pass: the tick timed out, notify() woke it, or the process
\* just started.  The clock is read and every enabled row loaded.
StartPass ==
    /\ pc = "idle"
    /\ pc' = "pass"
    /\ swept' = TRUE
    /\ passNow' = now
    /\ snap' = [a \in {x \in Alarms : row[x].state = "on"} |-> row[a]]
    /\ UNCHANGED <<now, world, row, settled, job, device, seen, history, readySince>>

\* Rows come in the order of their time of day, ties in the order of their ids.
NextRow(a) ==
    /\ a \in DOMAIN snap
    /\ \A b \in DOMAIN snap : At[a] <= At[b]

Rest(a) == [b \in DOMAIN snap \ {a} |-> snap[b]]

Due(a) == snap[a].next # None /\ passNow >= snap[a].next

\* No next fire: compute one and store it, without firing.
Reschedule(a) ==
    /\ pc = "pass"
    /\ NextRow(a)
    /\ snap[a].next = None
    /\ SetAlarmSchedule(a, NextFire(a, snap[a].days, passNow), snap[a].last)
    /\ snap' = Rest(a)
    /\ UNCHANGED <<now, world, pc, settled, swept, passNow, job, device, seen, history,
                   readySince>>

NotDue(a) ==
    /\ pc = "pass"
    /\ NextRow(a)
    /\ snap[a].next # None
    /\ ~Due(a)
    /\ snap' = Rest(a)
    /\ UNCHANGED <<now, world, row, pc, settled, swept, passNow, job, device, seen, history,
                   readySince>>

\* A floor that is the occurrence itself, backlog or not.
FloorNeverNow(a) == snap[a].next

\* From the occurrence when it is handled on time, from now past a backlog.
Floor(a) == IF WithinGrace(snap[a].next, passNow) THEN snap[a].next ELSE passNow

\* _reconcile_alarm's locals once the row is due.
Job(a, outcome) ==
    [alarm |-> a, key |-> OccurrenceKey(snap[a].next),
     next |-> NextFire(a, snap[a].days, Floor(a)), outcome |-> outcome]

\* Stale, or handled already: nothing is fired.
Skip(a) ==
    /\ pc = "pass"
    /\ NextRow(a)
    /\ Due(a)
    /\ \/ ~WithinGrace(snap[a].next, passNow)
       \/ snap[a].last = OccurrenceKey(snap[a].next)
    /\ job' = Job(a, "skipped")
    /\ snap' = Rest(a)
    /\ pc' = "persist"
    /\ UNCHANGED <<now, world, row, settled, swept, passNow, device, seen, history, readySince>>

\* A session that does not remember what it was given.
AcceptForgets(a, key) == UNCHANGED seen

\* AlarmSession.apply remembers the event of each occurrence.
Accept(a, key) == seen' = seen \cup {<<a, key>>}

\* fire_alarm up to its push.  The session drops an event it has seen; an
\* offline or muted device discards it.
Fire(a) ==
    LET key == OccurrenceKey(snap[a].next)
    IN  /\ pc = "pass"
        /\ NextRow(a)
        /\ Due(a)
        /\ WithinGrace(snap[a].next, passNow)
        /\ snap[a].last # key
        /\ job' = Job(a, IF <<a, key>> \in seen THEN "ignored" ELSE device)
        /\ pc' = IF <<a, key>> \in seen THEN "persist" ELSE "push"
        /\ Accept(a, key)
        /\ snap' = Rest(a)
        /\ UNCHANGED <<now, world, row, settled, swept, passNow, device, history, readySince>>

\* The event is pushed; what the session still holds is rung.
FireEnd ==
    /\ pc = "push"
    /\ pc' = "persist"
    /\ IF job.outcome = "ready"
       THEN /\ rung' = rung \cup {<<job.alarm, job.key>>}
            /\ repeated' = (repeated \/ <<job.alarm, job.key>> \in rung)
       ELSE UNCHANGED <<rung, repeated>>
    /\ UNCHANGED <<now, world, row, settled, swept, passNow, snap, job, device, seen, lost,
                   readySince>>

\* _push_event raises when a client joins or leaves while it awaits another
\* (the set it iterates over has changed).  reconcile_once logs and goes on.
FireFails ==
    /\ pc = "push"
    /\ settled
    /\ fails < MaxFails
    /\ fails' = fails + 1
    /\ pc' = "pass"
    /\ job' = NoJob
    /\ lost' = lost \cup {<<job.alarm, job.key>>}
    /\ UNCHANGED <<now, crashes, jumps, changes, row, settled, swept, passNow, snap, device,
                   seen, rung, repeated, readySince>>

\* The row advances; a spent one-off is disabled first, a write of its own.
Disable ==
    /\ pc = "persist"
    /\ job.next = None
    /\ DisableAlarm(job.alarm)
    /\ pc' = "disabled"
    /\ UNCHANGED <<now, world, settled, swept, passNow, snap, job, device, seen, history,
                   readySince>>

Persist ==
    /\ \/ pc = "persist" /\ job.next # None
       \/ pc = "disabled"
    /\ SetAlarmSchedule(job.alarm, job.next, job.key)
    /\ pc' = "pass"
    /\ job' = NoJob
    /\ UNCHANGED <<now, world, settled, swept, passNow, snap, device, seen, history, readySince>>

EndPass ==
    /\ pc = "pass"
    /\ DOMAIN snap = {}
    /\ pc' = "idle"
    /\ settled' = TRUE
    /\ passNow' = None
    /\ UNCHANGED <<now, world, row, swept, snap, job, device, seen, history, readySince>>

-----------------------------------------------------------------------------
(* The device, the process and the clock.                                  *)

\* A handler of the control socket runs while the scheduler is suspended.
Suspended == pc \in {"idle", "push"}

\* A listener open before the first pass.
ConnectEarly ==
    /\ pc # "down"
    /\ device = "offline"
    /\ device' = "ready"
    /\ readySince' = now
    /\ UNCHANGED <<now, world, row, pass, seen, history>>

\* The device connects.  The device listener opens after the first pass: the
\* scheduler's task is created first and the mDNS registration awaited between.
Connect ==
    /\ Suspended
    /\ settled
    /\ device = "offline"
    /\ device' = "ready"
    /\ readySince' = now
    /\ UNCHANGED <<now, world, row, pass, seen, history>>

\* The disconnect discards the session's alarms, the one being pushed too.
Disconnect ==
    /\ Suspended
    /\ device # "offline"
    /\ changes < MaxChanges
    /\ changes' = changes + 1
    /\ device' = "offline"
    /\ readySince' = None
    /\ job' = IF job.outcome = "ready" THEN [job EXCEPT !.outcome = "offline"] ELSE job
    /\ UNCHANGED <<now, crashes, jumps, fails, row, pc, settled, swept, passNow, snap, seen,
                   history>>

\* The mute button.  A ring about to start is not held back.
ToggleMute ==
    /\ Suspended
    /\ device # "offline"
    /\ changes < MaxChanges
    /\ changes' = changes + 1
    /\ device' = IF device = "muted" THEN "ready" ELSE "muted"
    /\ readySince' = IF device = "muted" THEN now ELSE None
    /\ UNCHANGED <<now, crashes, jumps, fails, row, pass, seen, history>>

\* The process dies between any two writes.
Crash ==
    /\ pc # "down"
    /\ crashes < MaxCrashes
    /\ crashes' = crashes + 1
    /\ pc' = "down"
    /\ settled' = FALSE
    /\ swept' = FALSE
    /\ passNow' = None
    /\ snap' = <<>>
    /\ job' = NoJob
    /\ device' = "offline"
    /\ readySince' = None
    /\ seen' = {}
    /\ UNCHANGED <<now, jumps, fails, changes, row, history>>

Restart ==
    /\ pc = "down"
    /\ pc' = "idle"
    /\ UNCHANGED <<now, world, row, settled, swept, passNow, snap, job, device, seen, history,
                   readySince>>

\* Time passes; a running scheduler begins a pass in every unit of it.
Tick ==
    /\ now < MaxTime
    /\ pc # "down" => swept
    /\ now' = now + 1
    /\ swept' = FALSE
    /\ UNCHANGED <<world, row, pc, settled, passNow, snap, job, device, seen, history, readySince>>

\* NTP, a resume or the administrator steps the clock.
ClockStep(t) ==
    /\ jumps < MaxJumps
    /\ t # now
    /\ jumps' = jumps + 1
    /\ now' = t
    /\ UNCHANGED <<crashes, fails, changes, row, pass, device, seen, history, readySince>>

-----------------------------------------------------------------------------
Init ==
    /\ now = 0
    /\ crashes = 0 /\ jumps = 0 /\ fails = 0 /\ changes = 0
    /\ row = [a \in Alarms |-> Absent]
    /\ pc = "idle" /\ settled = FALSE /\ swept = FALSE
    /\ passNow = None
    /\ snap = <<>>
    /\ job = NoJob
    /\ device = "offline"
    /\ seen = {}
    /\ rung = {} /\ lost = {} /\ repeated = FALSE
    /\ readySince = None

\* What the scheduler's task does by itself.
Scheduler ==
    \/ StartPass \/ EndPass \/ FireEnd \/ Disable \/ Persist
    \/ \E a \in Alarms : Reschedule(a) \/ NotDue(a) \/ Skip(a) \/ Fire(a)

Next ==
    \/ Scheduler
    \/ \E a \in Alarms : DeleteAlarm(a) \/ \E days \in Recurrences : PostAlarm(a, days)
    \/ FireFails
    \/ Connect \/ Disconnect \/ ToggleMute
    \/ Crash \/ Restart
    \/ Tick
    \/ \E t \in 0..MaxTime : ClockStep(t)

Spec == Init /\ [][Next]_vars

\* The event loop runs the scheduler's task, and the container's supervisor
\* restarts the process.
FairSpec == Spec /\ WF_vars(Scheduler) /\ WF_vars(Restart)
-----------------------------------------------------------------------------
(* Properties.                                                             *)

Times == Nat \cup {None}
Rows == [state : {"none", "on", "off", "gone"}, days : Recurrences \cup {{}},
         next : Times, last : Times, made : Times]

\* Type correctness of the table and of the scheduler's locals.  In particular
\* a job is held exactly while a row is being handled, and a push is awaited
\* only for an occurrence the session accepted.
TypeOK ==
    /\ now \in Nat
    /\ crashes \in 0..MaxCrashes /\ jumps \in 0..MaxJumps
    /\ fails \in 0..MaxFails /\ changes \in 0..MaxChanges
    /\ row \in [Alarms -> Rows]
    /\ pc \in {"down", "idle", "pass", "push", "persist", "disabled"}
    /\ settled \in BOOLEAN /\ swept \in BOOLEAN /\ repeated \in BOOLEAN
    /\ passNow \in Times /\ readySince \in Times
    /\ DOMAIN snap \subseteq Alarms
    /\ \A a \in DOMAIN snap : snap[a] \in Rows
    /\ job \in [alarm : Alarms \cup {None}, key : Times, next : Times,
                outcome : {None, "skipped", "ignored", "offline", "muted", "ready"}]
    /\ device \in {"offline", "muted", "ready"}
    /\ seen \subseteq Alarms \X Nat /\ rung \subseteq Alarms \X Nat /\ lost \subseteq Alarms \X Nat
    /\ pc \in {"push", "persist", "disabled"} <=> job.alarm # None
    /\ pc = "push" => <<job.alarm, job.key>> \in seen

\* The row's next fire is always past the last occurrence handled, across
\* crashes between its writes and steps of the clock: `last_fired_occurrence`
\* and `next_fire_utc` can never disagree (em_alarm_scheduler.py:103-110).
NextPastLast ==
    \A a \in Alarms :
        row[a].next # None /\ row[a].last # None => OccurrenceKey(row[a].next) > row[a].last

\* Alarm a was set before its occurrence of day d, which is well past, and the
\* device is able to ring, and has been since less than slack after it.
CouldRing(a, d, slack) ==
    /\ row[a].state \in {"on", "off"}
    /\ d \in row[a].days
    /\ row[a].made < Instant(a, d)
    /\ readySince # None
    /\ readySince < Instant(a, d) + slack
    /\ now >= Instant(a, d) + Grace + 2

\* An occurrence whose device is connected and unmuted since before it is
\* rung, unless its push raised (reconcile_once: "fire everything due").
RingsWhenReady ==
    jumps = 0 =>
        \A a \in Alarms : \A d \in row[a].days :
            CouldRing(a, d, 0) => <<a, d>> \in rung \cup lost

\* No occurrence rings twice while the clock runs evenly, although the ring
\* starts before its row is written and a crash may fall in between: the first
\* pass after a restart finds the device offline and uses the occurrence up.
RingsOnce == jumps = 0 \/ crashes = 0 => ~repeated

\* A completed pass leaves no row due: an outage of any length is caught up in
\* one pass, except for an occurrence whose push raised.
PassCatchesUp ==
    pc = "pass" /\ DOMAIN snap = {} /\ jumps = 0 =>
        \A a \in Alarms :
            row[a].state = "on" /\ row[a].next # None /\ row[a].next <= passNow =>
                <<a, OccurrenceKey(row[a].next)>> \in lost

\* A row that falls due is advanced, disabled or deleted in the end, whatever
\* crashes, failed pushes and clock steps come between.
DueAdvances ==
    \A a \in Alarms : \A t \in 0..MaxTime :
        row[a].state = "on" /\ row[a].next = t /\ now >= t
            ~> row[a].next # t \/ row[a].state # "on" \/ now < t

\* em_alarms.py: "How late a missed occurrence may still fire on controller
\* startup or device reconnect": an occurrence rings when its device is back
\* within the grace window.
GraceCoversReconnect ==
    jumps = 0 =>
        \A a \in Alarms : \A d \in row[a].days :
            CouldRing(a, d, Grace + 1) => <<a, d>> \in rung \cup lost

\* em_alarm_scheduler.py: "One full pass: fire everything due": the occurrence
\* whose push raised rings too.
FailedPushStillRings ==
    jumps = 0 =>
        \A a \in Alarms : \A d \in row[a].days : CouldRing(a, d, 0) => <<a, d>> \in rung

\* em_api._delete_alarm: "cancel an alarm": an alarm deleted while it waits for
\* its turn in a pass is not fired.
DeletedStaysSilent ==
    [][\A a \in DOMAIN snap :
          row[a].state = "gone" => ~(job'.alarm = a /\ job'.outcome = "ready")]_vars
=============================================================================
