------------------------ MODULE AlarmSchedulerProofs ------------------------
(***************************************************************************)
(* Theorems about AlarmScheduler, for every set of alarms, every table of  *)
(* recurrences and every length of day and grace window.                   *)
(***************************************************************************)
EXTENDS AlarmScheduler, WellFoundedInduction, TLAPS

USE NoneAssumption, DayAssumption, AtAssumption, RecurrencesAssumption, GraceAssumption,
    BoundsAssumption

-----------------------------------------------------------------------------
(* em_alarms.                                                              *)

\* The instant of a day is a time, and the occurrence key gives the day back.
LEMMA InstantDay ==
    ASSUME NEW a \in Alarms, NEW d \in Nat
    PROVE  Instant(a, d) \in Nat /\ OccurrenceKey(Instant(a, d)) = d
<1>1. At[a] \in 0..(Day - 1)
  OBVIOUS
<1>2. ASSUME NEW r \in 0..(Day - 1)
      PROVE  d * Day + r \in Nat /\ (d * Day + r) \div Day = d
  BY SMTT(30)
<1>. QED  BY <1>1, <1>2 DEF Instant, OccurrenceKey

\* Later instants of one alarm fall on later days.
LEMMA LaterDay ==
    ASSUME NEW a \in Alarms, NEW d \in Nat, NEW e \in Nat, Instant(a, d) < Instant(a, e)
    PROVE  d < e
<1>1. At[a] \in 0..(Day - 1)
  OBVIOUS
<1>2. ASSUME NEW r \in 0..(Day - 1)
      PROVE  e <= d => e * Day + r <= d * Day + r
  <2>1. e <= d => (d - e) * Day \in Nat
    BY SMTT(30)
  <2>. QED  BY <2>1, SMTT(30)
<1>. QED  BY <1>1, <1>2 DEF Instant

\* next_fire returns None or one of the alarm's instants, after the given time.
LEMMA NextFireLater ==
    ASSUME NEW a \in Alarms, NEW days \in SUBSET Nat, NEW after,
           NextFire(a, days, after) # None
    PROVE  \E d \in days : NextFire(a, days, after) = Instant(a, d) /\ Instant(a, d) > after
<1>. DEFINE later == {t \in {Instant(a, d) : d \in days} : t > after}
<1>1. later # {} /\ NextFire(a, days, after) = Min(later)
  BY DEF NextFire
<1>2. later \in SUBSET Nat
  BY InstantDay
<1>3. PICK n \in later : \A m \in later : n <= m
  <2>. DEFINE below == OpToRel(<, Nat)
  <2>1. IsWellFoundedOn(below, Nat)
    BY NatLessThanWellFounded
  <2>2. PICK n \in later : \A m \in later : <<m, n>> \notin below
    BY <1>1, <1>2, <2>1, WFMin
  <2>3. \A m \in later : ~(m < n)
    BY <1>2, <2>2 DEF OpToRel
  <2>. QED  BY <1>2, <2>3
<1>4. Min(later) \in later
  BY <1>3 DEF Min
<1>. QED  BY <1>1, <1>4

\* The result is NULL or a time.
LEMMA NextFireType ==
    ASSUME NEW a \in Alarms, NEW days \in SUBSET Nat, NEW after
    PROVE  NextFire(a, days, after) \in Times
BY NextFireLater, InstantDay DEF Times

\* The key of a time is a day.
LEMMA KeyType ==
    ASSUME NEW t \in Nat
    PROVE  OccurrenceKey(t) \in Nat
BY SMT DEF OccurrenceKey

\* Every recurrence a row may hold is a set of days.
LEMMA DaysType ==
    ASSUME NEW r \in Rows
    PROVE  r.days \in SUBSET Nat
BY DEF Rows

-----------------------------------------------------------------------------
(* Type correctness.                                                       *)

\* A stored schedule keeps the table typed.
LEMMA ScheduleType ==
    ASSUME row \in [Alarms -> Rows], NEW a \in Alarms, NEW next \in Times, NEW last \in Times,
           SetAlarmSchedule(a, next, last)
    PROVE  row' \in [Alarms -> Rows]
<1>. DEFINE stored == [row[a] EXCEPT !.next = next,
                                     !.last = IF last = None THEN row[a].last ELSE last]
<1>1. stored \in Rows
  BY DEF Rows
<1>2. row' = [row EXCEPT ![a] = IF row[a].state = "gone" THEN row[a] ELSE stored]
  BY DEF SetAlarmSchedule
<1>. HIDE DEF stored
<1>. QED  BY <1>1, <1>2

\* The rows left for the rest of a pass are rows of the table.
LEMMA RestType ==
    ASSUME TypeOK, NEW a \in Alarms, snap' = Rest(a)
    PROVE  DOMAIN snap' \subseteq Alarms /\ \A b \in DOMAIN snap' : snap'[b] \in Rows
BY DEF TypeOK, Rest

\* The locals of a due row are typed.
LEMMA JobType ==
    ASSUME TypeOK, NEW a \in Alarms, NextRow(a), Due(a),
           NEW outcome \in {"skipped", "ignored", "offline", "muted", "ready"}
    PROVE  /\ OccurrenceKey(snap[a].next) \in Nat
           /\ Job(a, outcome) \in [alarm : Alarms \cup {None}, key : Times, next : Times,
                  outcome : {None, "skipped", "ignored", "offline", "muted", "ready"}]
           /\ Job(a, outcome).alarm = a
           /\ Job(a, outcome).key = OccurrenceKey(snap[a].next)
<1>1. snap[a] \in Rows /\ snap[a].next \in Nat
  BY DEF TypeOK, NextRow, Due, Rows, Times
<1>2. OccurrenceKey(snap[a].next) \in Nat
  BY <1>1, KeyType
<1>3. NextFire(a, snap[a].days, Floor(a)) \in Times
  BY <1>1, DaysType, NextFireType
<1>. QED  BY <1>2, <1>3 DEF Job, Times

\* The controller starts in a typed state.
LEMMA TypeInit == Init => TypeOK
<1>. SUFFICES ASSUME Init PROVE TypeOK
  OBVIOUS
<1>1. Absent \in Rows
  BY DEF Absent, Rows, Times
<1>2. row \in [Alarms -> Rows]
  BY <1>1 DEF Init
<1>3. DOMAIN snap = {}
  BY DEF Init
<1>4. job \in [alarm : Alarms \cup {None}, key : Times, next : Times,
               outcome : {None, "skipped", "ignored", "offline", "muted", "ready"}]
  BY DEF Init, NoJob, Times
<1>5. {MaxCrashes, MaxJumps, MaxFails, MaxChanges} \subseteq Nat
  OBVIOUS
<1>6. /\ crashes \in 0..MaxCrashes /\ jumps \in 0..MaxJumps
      /\ fails \in 0..MaxFails /\ changes \in 0..MaxChanges
  BY <1>5 DEF Init
<1>7. settled \in BOOLEAN /\ swept \in BOOLEAN /\ repeated \in BOOLEAN
  BY DEF Init
<1>. QED  BY <1>2, <1>3, <1>4, <1>6, <1>7 DEF Init, NoJob, TypeOK, Times

\* Every action keeps the types.
LEMMA TypeStep == TypeOK /\ [Next]_vars => TypeOK'
<1>. SUFFICES ASSUME TypeOK, [Next]_vars PROVE TypeOK'
  OBVIOUS
<1>. USE DEF TypeOK
<1>1. CASE UNCHANGED vars
  BY <1>1 DEF vars, world, pass, history
<1>2. ASSUME NEW a \in Alarms, NEW days \in Recurrences, PostAlarm(a, days) PROVE TypeOK'
  <2>1. NextFire(a, days, now) \in Times
    BY NextFireType
  <2>2. row' \in [Alarms -> Rows]
    BY <1>2, <2>1 DEF PostAlarm, Rows, Times
  <2>. QED  BY <1>2, <2>2 DEF PostAlarm, world, pass, history
<1>3. ASSUME NEW a \in Alarms, DeleteAlarm(a) PROVE TypeOK'
  <2>1. row' \in [Alarms -> Rows]
    BY <1>3 DEF DeleteAlarm, Absent, Rows, Times
  <2>. QED  BY <1>3, <2>1 DEF DeleteAlarm, world, pass, history
<1>4. CASE StartPass
  <2>1. DOMAIN snap' \subseteq Alarms /\ \A a \in DOMAIN snap' : snap'[a] \in Rows
    BY <1>4 DEF StartPass
  <2>. QED  BY <1>4, <2>1 DEF StartPass, world, history, Times
<1>5. ASSUME NEW a \in Alarms, Reschedule(a) PROVE TypeOK'
  <2>1. snap[a] \in Rows
    BY <1>5 DEF Reschedule, NextRow
  <2>2. NextFire(a, snap[a].days, passNow) \in Times /\ snap[a].last \in Times
    BY <2>1, DaysType, NextFireType DEF Rows
  <2>3. row' \in [Alarms -> Rows]
    BY <1>5, <2>2, ScheduleType DEF Reschedule
  <2>4. DOMAIN snap' \subseteq Alarms /\ \A b \in DOMAIN snap' : snap'[b] \in Rows
    BY <1>5, RestType DEF Reschedule
  <2>. QED  BY <1>5, <2>3, <2>4 DEF Reschedule, world, history
<1>6. ASSUME NEW a \in Alarms, NotDue(a) PROVE TypeOK'
  <2>1. DOMAIN snap' \subseteq Alarms /\ \A b \in DOMAIN snap' : snap'[b] \in Rows
    BY <1>6, RestType DEF NotDue
  <2>. QED  BY <1>6, <2>1 DEF NotDue, world, history
<1>7. ASSUME NEW a \in Alarms, Skip(a) PROVE TypeOK'
  <2>1. DOMAIN snap' \subseteq Alarms /\ \A b \in DOMAIN snap' : snap'[b] \in Rows
    BY <1>7, RestType DEF Skip
  <2>2. /\ job' \in [alarm : Alarms \cup {None}, key : Times, next : Times,
               outcome : {None, "skipped", "ignored", "offline", "muted", "ready"}]
        /\ job'.alarm = a
    BY <1>7, JobType DEF Skip
  <2>. QED  BY <1>7, <2>1, <2>2, AlarmsAssumption DEF Skip, world, history
<1>8. ASSUME NEW a \in Alarms, Fire(a) PROVE TypeOK'
  <2>. DEFINE key == OccurrenceKey(snap[a].next)
  <2>1. DOMAIN snap' \subseteq Alarms /\ \A b \in DOMAIN snap' : snap'[b] \in Rows
    BY <1>8, RestType DEF Fire
  <2>2. key \in Nat
    BY <1>8, JobType DEF Fire
  <2>3. /\ job' \in [alarm : Alarms \cup {None}, key : Times, next : Times,
               outcome : {None, "skipped", "ignored", "offline", "muted", "ready"}]
        /\ job'.alarm = a
        /\ job'.key = key
    BY <1>8, JobType DEF Fire
  <2>4. seen' \subseteq Alarms \X Nat /\ <<a, key>> \in seen'
    BY <1>8, <2>2 DEF Fire, Accept
  <2>5. pc' \in {"push", "persist"}
    BY <1>8 DEF Fire
  <2>. QED  BY <1>8, <2>1, <2>3, <2>4, <2>5, AlarmsAssumption DEF Fire, world, history
<1>9. CASE FireEnd
  <2>1. <<job.alarm, job.key>> \in Alarms \X Nat
    BY <1>9 DEF FireEnd
  <2>2. repeated' \in BOOLEAN
    BY <1>9, Zenon DEF FireEnd
  <2>3. rung' \subseteq Alarms \X Nat
    BY <1>9, <2>1 DEF FireEnd
  <2>4. /\ pc = "push" /\ pc' = "persist"
        /\ UNCHANGED <<now, world, row, settled, swept, passNow, snap, job, device, seen, lost,
                       readySince>>
    BY <1>9 DEF FireEnd
  <2>. QED  BY <2>2, <2>3, <2>4 DEF world
<1>10. CASE FireFails
  <2>1. <<job.alarm, job.key>> \in Alarms \X Nat
    BY <1>10 DEF FireFails
  <2>2. job' \in [alarm : Alarms \cup {None}, key : Times, next : Times,
               outcome : {None, "skipped", "ignored", "offline", "muted", "ready"}]
    BY <1>10 DEF FireFails, NoJob, Times
  <2>. QED  BY <1>10, <2>1, <2>2 DEF FireFails, NoJob
<1>11. CASE Disable
  <2>1. row' \in [Alarms -> Rows]
    BY <1>11 DEF Disable, DisableAlarm, Rows
  <2>. QED  BY <1>11, <2>1 DEF Disable, world, history
<1>12. CASE Persist
  <2>1. job.alarm \in Alarms /\ job.key \in Times /\ job.next \in Times
    BY <1>12 DEF Persist
  <2>2. row' \in [Alarms -> Rows]
    BY <1>12, <2>1, ScheduleType DEF Persist
  <2>3. job' \in [alarm : Alarms \cup {None}, key : Times, next : Times,
               outcome : {None, "skipped", "ignored", "offline", "muted", "ready"}]
    BY <1>12 DEF Persist, NoJob, Times
  <2>. QED  BY <1>12, <2>2, <2>3 DEF Persist, NoJob, world, history
<1>13. CASE EndPass
  BY <1>13 DEF EndPass, world, history, Times
<1>14. CASE Connect
  BY <1>14 DEF Connect, world, pass, history, Times
<1>15. CASE Disconnect
  <2>1. /\ job' \in [alarm : Alarms \cup {None}, key : Times, next : Times,
               outcome : {None, "skipped", "ignored", "offline", "muted", "ready"}]
        /\ job'.alarm = job.alarm /\ job'.key = job.key
    BY <1>15 DEF Disconnect
  <2>. QED  BY <1>15, <2>1 DEF Disconnect, history, Times
<1>16. CASE ToggleMute
  BY <1>16 DEF ToggleMute, pass, history, Times
<1>17. CASE Crash
  <2>1. job' \in [alarm : Alarms \cup {None}, key : Times, next : Times,
               outcome : {None, "skipped", "ignored", "offline", "muted", "ready"}]
    BY <1>17 DEF Crash, NoJob, Times
  <2>2. DOMAIN snap' = {}
    BY <1>17 DEF Crash
  <2>3. settled' \in BOOLEAN /\ swept' \in BOOLEAN /\ repeated' \in BOOLEAN
    BY <1>17 DEF Crash, history
  <2>4. crashes' \in 0..MaxCrashes
    BY <1>17 DEF Crash
  <2>. QED  BY <1>17, <2>1, <2>2, <2>3, <2>4 DEF Crash, NoJob, history, Times
<1>18. CASE Restart
  BY <1>18 DEF Restart, world, history
<1>19. CASE Tick
  <2>1. now' \in Nat
    BY <1>19 DEF Tick
  <2>2. /\ swept' \in BOOLEAN
        /\ UNCHANGED <<world, row, pc, settled, passNow, snap, job, device, seen, history,
                       readySince>>
    BY <1>19, Zenon DEF Tick
  <2>. QED  BY <2>1, <2>2 DEF world, history
<1>20. ASSUME NEW t \in 0..MaxTime, ClockStep(t) PROVE TypeOK'
  BY <1>20 DEF ClockStep, pass, history
<1>. QED
  BY <1>1, <1>2, <1>3, <1>4, <1>5, <1>6, <1>7, <1>8, <1>9, <1>10, <1>11, <1>12, <1>13,
     <1>14, <1>15, <1>16, <1>17, <1>18, <1>19, <1>20 DEF Next, Scheduler

\* The table and the scheduler's locals keep their types, a job is held exactly
\* while a row is handled, and a push is awaited only for an accepted event.
THEOREM AlarmTypes == Spec => []TypeOK
BY TypeInit, TypeStep, PTL DEF Spec

-----------------------------------------------------------------------------
(* The schedule never falls behind what was handled.                       *)

\* A row's next fire is an instant of its alarm on a day after the last one
\* handled; an enabled row without next fire has handled nothing.
RowOK(r, a) ==
    /\ r.next # None => \E d \in Nat : r.next = Instant(a, d) /\ (r.last # None => d > r.last)
    /\ r.state = "on" /\ r.next = None => r.last = None

\* A loaded row is still the stored one, unless that was deleted.
SnapOK(a) ==
    /\ RowOK(snap[a], a)
    /\ snap[a].state = "on"
    /\ row[a].state = "gone" \/ row[a] = snap[a]

Handling == pc \in {"push", "persist", "disabled"}

\* The row being handled exists or is deleted, waits in the pass no more, and is
\* about to move to a later day than the one handled.
JobOK ==
    /\ job.alarm \notin DOMAIN snap
    /\ job.key \in Nat
    /\ row[job.alarm].state # "none"
    /\ job.next # None => \E e \in Nat : job.next = Instant(job.alarm, e) /\ e > job.key
    /\ pc = "disabled" => row[job.alarm].state # "on"

\* The inductive invariant behind NextPastLast.
SchedInv ==
    /\ \A a \in Alarms : RowOK(row[a], a)
    /\ \A a \in DOMAIN snap : SnapOK(a)
    /\ Handling \/ pc = "pass" => passNow \in Nat
    /\ Handling => JobOK

\* The inductive invariant says what the rows must.
LEMMA SchedImplies == TypeOK /\ SchedInv => NextPastLast
<1>. SUFFICES ASSUME TypeOK, SchedInv, NEW a \in Alarms, row[a].next # None, row[a].last # None
              PROVE  OccurrenceKey(row[a].next) > row[a].last
  BY DEF NextPastLast
<1>1. PICK d \in Nat : row[a].next = Instant(a, d) /\ d > row[a].last
  BY DEF SchedInv, RowOK
<1>. QED  BY <1>1, InstantDay

\* No row is stored at first and no pass is under way.
LEMMA SchedInit == Init => SchedInv
BY DEF Init, SchedInv, RowOK, Absent, Handling, NoJob

\* The job built for a due row moves it to a later day.
LEMMA JobMovesOn ==
    ASSUME TypeOK, SchedInv, NEW a \in Alarms, pc = "pass", NextRow(a), Due(a), NEW outcome
    PROVE  LET j == Job(a, outcome)
           IN  /\ j.alarm = a
               /\ j.key \in Nat
               /\ row[a].state # "none"
               /\ j.next # None => \E e \in Nat : j.next = Instant(a, e) /\ e > j.key
<1>1. snap[a] \in Rows /\ SnapOK(a) /\ passNow \in Nat /\ a \in DOMAIN snap
  BY DEF TypeOK, SchedInv, NextRow
<1>2. PICK d \in Nat : snap[a].next = Instant(a, d)
  BY <1>1 DEF SnapOK, RowOK, Due
<1>3. OccurrenceKey(snap[a].next) = d /\ snap[a].next \in Nat
  BY <1>2, InstantDay
<1>4. Floor(a) \in Nat /\ Floor(a) >= snap[a].next
  BY <1>1, <1>3 DEF Floor, Due
<1>5. ASSUME NextFire(a, snap[a].days, Floor(a)) # None
      PROVE  \E e \in Nat : NextFire(a, snap[a].days, Floor(a)) = Instant(a, e) /\ e > d
  <2>1. PICK e \in snap[a].days : /\ NextFire(a, snap[a].days, Floor(a)) = Instant(a, e)
                                  /\ Instant(a, e) > Floor(a)
    BY <1>1, <1>5, DaysType, NextFireLater
  <2>2. e \in Nat /\ Instant(a, e) \in Nat /\ Instant(a, d) \in Nat
    BY <1>1, DaysType, InstantDay
  <2>3. Instant(a, d) < Instant(a, e)
    BY <1>2, <1>4, <2>1, <2>2
  <2>4. d < e
    BY <2>2, <2>3, LaterDay
  <2>. QED  BY <2>1, <2>2, <2>4
<1>6. row[a].state # "none"
  BY <1>1 DEF SnapOK
<1>. QED  BY <1>3, <1>5, <1>6 DEF Job

\* What the rest of a pass still holds is as it was.
LEMMA RestOK ==
    ASSUME SchedInv, NEW a, snap' = Rest(a),
           \A b \in DOMAIN snap \ {a} : row'[b] = row[b]
    PROVE  a \notin DOMAIN snap' /\ \A b \in DOMAIN snap' : SnapOK(b)'
BY DEF SchedInv, SnapOK, RowOK, Rest, Instant

\* Steps that leave the table, the loaded rows and the job's next fire alone.
LEMMA SchedFrame ==
    ASSUME SchedInv, UNCHANGED <<row, snap, passNow>>,
           job'.alarm = job.alarm, job'.key = job.key, job'.next = job.next,
           \/ pc' = pc
           \/ pc = "push" /\ pc' = "persist"
           \/ pc \notin {"push", "persist", "disabled", "pass"} /\ pc' = "idle"
    PROVE  SchedInv'
BY DEF SchedInv, SnapOK, RowOK, JobOK, Handling, Instant
\* Every action keeps the invariant.
LEMMA SchedStep == TypeOK /\ SchedInv /\ [Next]_vars => SchedInv'
<1>. SUFFICES ASSUME TypeOK, SchedInv, [Next]_vars PROVE SchedInv'
  OBVIOUS
<1>1. CASE UNCHANGED vars
  BY <1>1, SchedFrame DEF vars, pass
<1>2. ASSUME NEW a \in Alarms, NEW days \in Recurrences, PostAlarm(a, days) PROVE SchedInv'
  <2>1. a \notin DOMAIN snap /\ (Handling => a # job.alarm)
    BY <1>2 DEF PostAlarm, SchedInv, SnapOK, JobOK
  <2>2. NextFire(a, days, now) # None => \E d \in Nat : NextFire(a, days, now) = Instant(a, d)
    BY NextFireLater
  <2>3. /\ row'[a].next = NextFire(a, days, now) /\ row'[a].last = None
        /\ \A b \in Alarms \ {a} : row'[b] = row[b]
        /\ UNCHANGED <<pc, passNow, snap, job>>
    BY <1>2 DEF PostAlarm, pass, TypeOK
  <2>4. \A b \in Alarms : RowOK(row'[b], b)
    BY <2>2, <2>3 DEF SchedInv, RowOK
  <2>5. \A b \in DOMAIN snap' : SnapOK(b)'
    BY <2>1, <2>3 DEF SchedInv, SnapOK, RowOK, Instant, TypeOK
  <2>6. Handling' => JobOK'
    BY <2>1, <2>3 DEF SchedInv, Handling, JobOK, Instant, TypeOK
  <2>. QED  BY <2>3, <2>4, <2>5, <2>6 DEF SchedInv, Handling, RowOK, Instant
<1>3. ASSUME NEW a \in Alarms, DeleteAlarm(a) PROVE SchedInv'
  <2>1. /\ row'[a].next = None /\ row'[a].state = "gone"
        /\ \A b \in Alarms \ {a} : row'[b] = row[b]
        /\ UNCHANGED <<pc, passNow, snap, job>>
    BY <1>3 DEF DeleteAlarm, Absent, pass, TypeOK
  <2>2. \A b \in Alarms : RowOK(row'[b], b)
    BY <2>1 DEF SchedInv, RowOK
  <2>3. \A b \in DOMAIN snap' : SnapOK(b)'
    BY <2>1 DEF SchedInv, SnapOK, RowOK, Instant, TypeOK
  <2>4. Handling' => JobOK'
    BY <2>1 DEF SchedInv, Handling, JobOK, Instant, TypeOK
  <2>. QED  BY <2>1, <2>2, <2>3, <2>4 DEF SchedInv, Handling, RowOK, Instant
<1>4. CASE StartPass
  <2>1. \A a \in DOMAIN snap' : SnapOK(a)'
    BY <1>4 DEF StartPass, SchedInv, SnapOK, RowOK, Instant
  <2>. QED  BY <1>4, <2>1 DEF StartPass, SchedInv, Handling, RowOK, Instant, TypeOK
<1>5. ASSUME NEW a \in Alarms, Reschedule(a) PROVE SchedInv'
  <2>. DEFINE next == NextFire(a, snap[a].days, passNow)
  <2>1. snap[a] \in Rows /\ SnapOK(a) /\ snap[a].next = None /\ snap[a].last = None
    BY <1>5 DEF Reschedule, NextRow, TypeOK, SchedInv, SnapOK, RowOK
  <2>2. next # None => \E d \in Nat : next = Instant(a, d)
    BY <2>1, DaysType, NextFireLater
  <2>3. /\ row[a].state = "gone" => row'[a] = row[a]
        /\ row[a].state # "gone" => row'[a].next = next /\ row'[a].last = None
        /\ \A b \in Alarms \ {a} : row'[b] = row[b]
    BY <1>5, <2>1 DEF Reschedule, SetAlarmSchedule, SnapOK, TypeOK, Rows
  <2>4. \A b \in Alarms : RowOK(row'[b], b)
    BY <2>2, <2>3 DEF SchedInv, RowOK
  <2>5. \A b \in DOMAIN snap' : SnapOK(b)'
    BY <1>5, <2>3, RestOK DEF Reschedule, TypeOK
  <2>. QED  BY <1>5, <2>4, <2>5 DEF Reschedule, SchedInv, Handling, RowOK, Instant
<1>6. ASSUME NEW a \in Alarms, NotDue(a) PROVE SchedInv'
  <2>1. \A b \in DOMAIN snap' : SnapOK(b)'
    BY <1>6, RestOK DEF NotDue
  <2>. QED  BY <1>6, <2>1 DEF NotDue, SchedInv, Handling, RowOK, Instant
<1>7. ASSUME NEW a \in Alarms, NEW outcome, pc = "pass", NextRow(a), Due(a),
             job' = Job(a, outcome), snap' = Rest(a), pc' \in {"push", "persist"},
             UNCHANGED <<row, passNow>>
      PROVE  SchedInv'
  <2>1. a \notin DOMAIN snap' /\ \A b \in DOMAIN snap' : SnapOK(b)'
    BY <1>7, RestOK
  <2>2. JobOK'
    BY <1>7, <2>1, JobMovesOn DEF JobOK, Instant
  <2>. QED  BY <1>7, <2>1, <2>2 DEF SchedInv, Handling, RowOK, Instant
<1>8. ASSUME NEW a \in Alarms, Skip(a) PROVE SchedInv'
  BY <1>7, <1>8 DEF Skip
<1>9. ASSUME NEW a \in Alarms, Fire(a) PROVE SchedInv'
  <2>1. PICK outcome : job' = Job(a, outcome)
    BY <1>9 DEF Fire
  <2>. QED  BY <1>7, <1>9, <2>1 DEF Fire
<1>10. CASE FireEnd
  BY <1>10, SchedFrame DEF FireEnd
<1>11. CASE FireFails
  BY <1>11 DEF FireFails, SchedInv, SnapOK, RowOK, Handling, Instant
<1>12. CASE Disable
  <2>1. job.alarm \in Alarms /\ JobOK
    BY <1>12 DEF Disable, TypeOK, SchedInv, Handling
  <2>2. /\ row'[job.alarm].next = row[job.alarm].next
        /\ row'[job.alarm].last = row[job.alarm].last
        /\ row'[job.alarm].state # "on" /\ row'[job.alarm].state # "none"
        /\ \A b \in Alarms \ {job.alarm} : row'[b] = row[b]
    BY <1>12, <2>1 DEF Disable, DisableAlarm, TypeOK, Rows
  <2>3. \A b \in Alarms : RowOK(row'[b], b)
    BY <2>2 DEF SchedInv, RowOK
  <2>4. \A b \in DOMAIN snap' : SnapOK(b)'
    BY <1>12, <2>1, <2>2 DEF Disable, SchedInv, SnapOK, RowOK, JobOK, Instant, TypeOK
  <2>5. JobOK'
    BY <1>12, <2>1, <2>2 DEF Disable, JobOK, Instant
  <2>. QED  BY <1>12, <2>3, <2>4, <2>5 DEF Disable, SchedInv, Handling, RowOK, Instant
<1>13. CASE Persist
  <2>1. job.alarm \in Alarms /\ JobOK /\ job.key # None
    BY <1>13 DEF Persist, TypeOK, SchedInv, Handling, JobOK
  <2>2. /\ row'[job.alarm].state = row[job.alarm].state
        /\ row[job.alarm].state = "gone" => row'[job.alarm] = row[job.alarm]
        /\ row[job.alarm].state # "gone" =>
              row'[job.alarm].next = job.next /\ row'[job.alarm].last = job.key
        /\ \A b \in Alarms \ {job.alarm} : row'[b] = row[b]
    BY <1>13, <2>1 DEF Persist, SetAlarmSchedule, TypeOK, Rows
  <2>3. RowOK(row'[job.alarm], job.alarm)
    <3>1. CASE row[job.alarm].state = "gone"
      BY <2>1, <2>2, <3>1 DEF SchedInv, RowOK
    <3>2. CASE row[job.alarm].state # "gone"
      BY <1>13, <2>1, <2>2, <3>2 DEF Persist, JobOK, RowOK
    <3>. QED  BY <3>1, <3>2
  <2>4. \A b \in Alarms : RowOK(row'[b], b)
    BY <2>2, <2>3 DEF SchedInv
  <2>5. \A b \in DOMAIN snap' : SnapOK(b)'
    BY <1>13, <2>1, <2>2 DEF Persist, SchedInv, SnapOK, RowOK, JobOK, Instant, TypeOK
  <2>. QED  BY <1>13, <2>4, <2>5 DEF Persist, SchedInv, Handling, RowOK, Instant
<1>14. CASE EndPass
  BY <1>14 DEF EndPass, SchedInv, SnapOK, RowOK, Handling, Instant
<1>15. CASE Connect \/ ToggleMute \/ \E t \in 0..MaxTime : ClockStep(t)
  BY <1>15, SchedFrame DEF Connect, ToggleMute, ClockStep, pass
<1>16. CASE Disconnect
  BY <1>16, SchedFrame DEF Disconnect, TypeOK
<1>17. CASE Crash
  BY <1>17 DEF Crash, SchedInv, SnapOK, RowOK, Handling, Instant
<1>18. CASE Restart
  BY <1>18, SchedFrame DEF Restart
<1>19. CASE Tick
  <2>1. UNCHANGED <<row, snap, passNow, job, pc>>
    BY <1>19, Zenon DEF Tick
  <2>. QED  BY <2>1, SchedFrame
<1>. QED
  BY <1>1, <1>2, <1>3, <1>4, <1>5, <1>6, <1>8, <1>9, <1>10, <1>11, <1>12, <1>13, <1>14,
     <1>15, <1>16, <1>17, <1>18, <1>19 DEF Next, Scheduler

\* For every table of alarms, through crashes between the writes of a row,
\* deletions in the middle of a pass and steps of the clock, a row's next fire
\* lies on a later day than the last occurrence it handled.
THEOREM NeverFallsBehind == Spec => []NextPastLast
<1>1. Init => TypeOK /\ SchedInv
  BY TypeInit, SchedInit
<1>2. TypeOK /\ SchedInv /\ [Next]_vars => (TypeOK /\ SchedInv)'
  BY TypeStep, SchedStep
<1>. QED  BY <1>1, <1>2, SchedImplies, PTL DEF Spec

-----------------------------------------------------------------------------
(* No occurrence rings twice.  With a clock that runs evenly the first pass   *)
(* of a restarted controller finds its device offline and uses up whatever    *)
(* had rung before the crash; without a crash the session still remembers.    *)

HandlingRung(a, k) ==
    Handling /\ job.alarm = a /\ job.key = k /\ (pc = "push" => ~settled)

\* An occurrence that has rung is used up, being written, or - after a crash
\* before that write - left for the first pass to use up.
UsedUp(a, k) ==
    \/ row[a].state \in {"off", "gone"}
    \/ row[a].last # None /\ row[a].last >= k
    \/ HandlingRung(a, k)
    \/ /\ ~settled /\ row[a].next = Instant(a, k)
       /\ pc \notin {"down", "idle"} => a \in DOMAIN snap /\ passNow >= Instant(a, k)

\* While the clock runs evenly.
EvenInv ==
    /\ ~repeated
    /\ passNow # None => passNow <= now
    /\ \A a \in Alarms : \A k \in Nat : <<a, k>> \in rung =>
          Instant(a, k) <= now /\ row[a].state # "none" /\ UsedUp(a, k)
    /\ \A a \in DOMAIN snap : \A k \in Nat :
          <<a, k>> \in rung /\ snap[a].next = Instant(a, k) => ~settled

\* While the process has not crashed, the session remembers what has rung.
RememberInv == ~repeated /\ rung \subseteq seen

\* The job is about the row as stored, and a device rings only after the first pass.
PushInv ==
    /\ \A a \in Alarms : row[a].state = "gone" => row[a].last = None
    /\ ~settled => device = "offline"
    /\ pc = "push" /\ job.outcome = "ready" => settled
    /\ Handling =>
          /\ row[job.alarm].last # None => row[job.alarm].last <= job.key
          /\ \/ row[job.alarm].state \in {"off", "gone"}
             \/ row[job.alarm].next = Instant(job.alarm, job.key)
          /\ Instant(job.alarm, job.key) <= passNow

\* What is pushed to a device that can ring is new.
FreshInv ==
    pc = "push" /\ job.outcome = "ready" /\ (jumps = 0 \/ crashes = 0)
        => <<job.alarm, job.key>> \notin rung

OnceInv ==
    /\ PushInv /\ FreshInv
    /\ jumps = 0 => EvenInv
    /\ crashes = 0 => RememberInv

\* A due row that is loaded: the occurrence that is handled next.
LEMMA DueRow ==
    ASSUME TypeOK, SchedInv, NEW a \in Alarms, pc = "pass", NextRow(a), Due(a)
    PROVE  /\ OccurrenceKey(snap[a].next) \in Nat
           /\ snap[a].next = Instant(a, OccurrenceKey(snap[a].next))
           /\ \A k \in Nat : snap[a].next = Instant(a, k) => k = OccurrenceKey(snap[a].next)
           /\ snap[a].last # None => snap[a].last <= OccurrenceKey(snap[a].next)
           /\ Instant(a, OccurrenceKey(snap[a].next)) <= passNow
           /\ snap[a].last \in Times /\ passNow \in Nat /\ snap[a].next \in Nat
<1>1. snap[a] \in Rows /\ SnapOK(a) /\ passNow \in Nat /\ a \in DOMAIN snap
  BY DEF TypeOK, SchedInv, NextRow
<1>2. PICK d \in Nat : snap[a].next = Instant(a, d) /\ (snap[a].last # None => d > snap[a].last)
  BY <1>1 DEF SnapOK, RowOK, Due
<1>3. OccurrenceKey(snap[a].next) = d /\ snap[a].next \in Nat  BY <1>2, InstantDay
<1>4. \A k \in Nat : snap[a].next = Instant(a, k) => k = d  BY <1>3, InstantDay
<1>5. snap[a].last \in Times  BY <1>1 DEF Rows
<1>. QED  BY <1>1, <1>2, <1>3, <1>4, <1>5 DEF Due, Times

\* PushInv where neither the table nor the job moves.
LEMMA PushFrame ==
    ASSUME PushInv, UNCHANGED <<row, passNow>>, job'.alarm = job.alarm, job'.key = job.key,
           job'.outcome = job.outcome \/ job'.outcome # "ready",
           Handling' => Handling, pc' = "push" => pc = "push", settled => settled',
           ~settled' => device' = "offline"
    PROVE  PushInv'
BY DEF PushInv, Instant

\* The job is right when it is made, and stays so.
LEMMA PushStep == TypeOK /\ SchedInv /\ PushInv /\ [Next]_vars => PushInv'
<1>. SUFFICES ASSUME TypeOK, SchedInv, PushInv, [Next]_vars PROVE PushInv'
  OBVIOUS
<1>1. CASE UNCHANGED vars \/ FireEnd \/ Connect \/ Disconnect \/ ToggleMute \/ Restart
           \/ \E t \in 0..MaxTime : ClockStep(t)
  BY <1>1, PushFrame DEF vars, pass, FireEnd, Connect, Disconnect, ToggleMute, Restart,
     ClockStep, Handling, PushInv, TypeOK, Instant
<1>2. CASE Tick
  <2>1. UNCHANGED <<row, passNow, settled, pc, job, device>>  BY <1>2, Zenon DEF Tick
  <2>. QED  BY <2>1, PushFrame DEF Handling, PushInv
<1>3. CASE StartPass \/ \E a \in Alarms : NotDue(a)
  BY <1>3 DEF StartPass, NotDue, Handling, PushInv, world
<1>4. ASSUME NEW a \in Alarms, Reschedule(a) PROVE PushInv'
  <2>1. /\ \A b \in Alarms : row[b].state = "gone" => row'[b] = row[b]
        /\ \A b \in Alarms : row'[b].state = row[b].state
        /\ pc = "pass" /\ UNCHANGED <<pc, settled, device>>
    BY <1>4 DEF Reschedule, SetAlarmSchedule, TypeOK, Rows
  <2>. QED  BY <2>1 DEF Handling, PushInv
<1>5. ASSUME NEW a \in Alarms, NEW outcome, pc = "pass", NextRow(a), Due(a),
             job' = Job(a, outcome), outcome = "ready" => device = "ready",
             UNCHANGED <<row, passNow, settled, device>>
      PROVE  PushInv'
  <2>1. job'.alarm = a /\ job'.key = OccurrenceKey(snap[a].next) /\ job'.outcome = outcome
    BY <1>5 DEF Job
  <2>2. row[a].state = "gone" \/ row[a] = snap[a]  BY <1>5 DEF NextRow, SchedInv, SnapOK
  <2>4. row[a].last # None => row[a].last <= job'.key
    <3>1. CASE row[a] = snap[a]  BY <1>5, <2>1, <3>1, DueRow
    <3>2. CASE row[a] # snap[a]
      BY <2>2, <3>2 DEF PushInv
    <3>. QED  BY <3>1, <3>2
  <2>. QED  BY <1>5, <2>1, <2>2, <2>4, DueRow DEF PushInv, Instant
<1>6. ASSUME NEW a \in Alarms, Skip(a) PROVE PushInv'
  <2>1. pc = "pass" /\ NextRow(a) /\ Due(a) /\ job' = Job(a, "skipped")
        /\ UNCHANGED <<row, passNow, settled, device>>
    BY <1>6 DEF Skip
  <2>. QED  BY <1>5, <2>1
<1>7. ASSUME NEW a \in Alarms, Fire(a) PROVE PushInv'
  <2>1. PICK outcome : job' = Job(a, outcome) /\ (outcome = "ready" => device = "ready")
    BY <1>7 DEF Fire
  <2>. QED  BY <1>5, <1>7, <2>1 DEF Fire
<1>8. CASE FireFails \/ Crash \/ EndPass
  <2>1. /\ row' = row /\ pc' \in {"pass", "down", "idle"}
        /\ ~settled' => device' = "offline"
    BY <1>8 DEF FireFails, Crash, EndPass, PushInv
  <2>. QED  BY <2>1 DEF Handling, PushInv
<1>9. ASSUME NEW a \in Alarms, NEW days \in Recurrences, PostAlarm(a, days) PROVE PushInv'
  <2>1. Handling => a # job.alarm  BY <1>9 DEF PostAlarm, SchedInv, JobOK
  <2>2. /\ row'[a].state = "on"
        /\ \A b \in Alarms \ {a} : row'[b] = row[b]
        /\ UNCHANGED <<pc, settled, passNow, job, device>>
    BY <1>9 DEF PostAlarm, pass, TypeOK
  <2>3. Handling => job.alarm \in Alarms  BY DEF TypeOK, Handling
  <2>4. \A b \in Alarms : row'[b].state = "gone" => row'[b].last = None
    BY <2>2 DEF PushInv
  <2>. QED  BY <2>1, <2>2, <2>3, <2>4 DEF PushInv, Handling, Instant
<1>10. ASSUME NEW a \in Alarms, DeleteAlarm(a) PROVE PushInv'
  <2>1. /\ row'[a].last = None /\ row'[a].state = "gone"
        /\ \A b \in Alarms \ {a} : row'[b] = row[b]
        /\ UNCHANGED <<pc, settled, passNow, job, device>>
    BY <1>10 DEF DeleteAlarm, Absent, pass, TypeOK
  <2>2. Handling => job.alarm \in Alarms  BY DEF TypeOK, Handling
  <2>3. \A b \in Alarms : row'[b].state = "gone" => row'[b].last = None
    BY <2>1 DEF PushInv
  <2>. QED  BY <2>1, <2>2, <2>3 DEF PushInv, Handling, Instant
<1>11. CASE Disable
  <2>1. /\ job.alarm \in Alarms
        /\ row'[job.alarm].last = row[job.alarm].last
        /\ row'[job.alarm].state \in {"off", "gone"}
        /\ row'[job.alarm].state = "gone" => row[job.alarm].state = "gone"
        /\ \A b \in Alarms \ {job.alarm} : row'[b] = row[b]
        /\ pc' = "disabled" /\ UNCHANGED <<settled, passNow, job, device>>
    BY <1>11 DEF Disable, DisableAlarm, TypeOK, Rows
  <2>2. \A b \in Alarms : row'[b].state = "gone" => row'[b].last = None
    BY <2>1 DEF PushInv
  <2>3. Handling  BY <1>11 DEF Disable, Handling
  <2>. QED  BY <2>1, <2>2, <2>3 DEF PushInv, Instant
<1>12. CASE Persist
  <2>1. /\ job.alarm \in Alarms /\ job' = NoJob /\ pc' = "pass"
        /\ row[job.alarm].state = "gone" => row'[job.alarm] = row[job.alarm]
        /\ row'[job.alarm].state = row[job.alarm].state
        /\ \A b \in Alarms \ {job.alarm} : row'[b] = row[b]
        /\ UNCHANGED <<settled, device>>
    BY <1>12 DEF Persist, SetAlarmSchedule, TypeOK, Rows
  <2>2. ASSUME NEW b \in Alarms, row'[b].state = "gone" PROVE row'[b].last = None
    <3>1. CASE b = job.alarm  BY <2>1, <2>2, <3>1, Zenon DEF PushInv
    <3>2. CASE b # job.alarm  BY <2>1, <2>2, <3>2 DEF PushInv
    <3>. QED  BY <3>1, <3>2
  <2>3. ~Handling'  BY <2>1 DEF Handling
  <2>4. ~settled' => device' = "offline"  BY <2>1 DEF PushInv
  <2>. QED  BY <2>1, <2>2, <2>3, <2>4 DEF PushInv
<1>. QED
  BY <1>1, <1>2, <1>3, <1>4, <1>6, <1>7, <1>8, <1>9, <1>10, <1>11, <1>12 DEF Next, Scheduler

\* Without a crash what has rung stays in the session's memory.
LEMMA RememberStep ==
    TypeOK /\ FreshInv /\ RememberInv /\ crashes = 0 /\ crashes' = 0 /\ [Next]_vars
        => RememberInv'
<1>. SUFFICES ASSUME TypeOK, FreshInv, RememberInv, crashes = 0, crashes' = 0, [Next]_vars
              PROVE  RememberInv'
  OBVIOUS
<1>1. CASE FireEnd
  <2>1. <<job.alarm, job.key>> \in seen /\ (job.outcome = "ready" => <<job.alarm, job.key>> \notin rung)
    BY <1>1 DEF FireEnd, FreshInv, TypeOK
  <2>. QED  BY <1>1, <2>1 DEF FireEnd, RememberInv
<1>2. ASSUME NEW a \in Alarms, Fire(a) PROVE RememberInv'
  BY <1>2 DEF Fire, Accept, history, RememberInv
<1>3. CASE Crash
  BY <1>3 DEF Crash
<1>4. CASE UNCHANGED <<seen, rung, repeated>>
  BY <1>4 DEF RememberInv
<1>5. ASSUME NEW a \in Alarms,
             \/ DeleteAlarm(a) \/ Reschedule(a) \/ NotDue(a) \/ Skip(a)
             \/ \E days \in Recurrences : PostAlarm(a, days)
      PROVE  UNCHANGED <<seen, rung, repeated>>
  BY <1>5 DEF DeleteAlarm, Reschedule, NotDue, Skip, PostAlarm, history
<1>6. ASSUME \/ UNCHANGED vars \/ StartPass \/ EndPass \/ Disable \/ Persist \/ FireFails
             \/ Connect \/ Disconnect \/ ToggleMute \/ Restart \/ Tick
             \/ \E t \in 0..MaxTime : ClockStep(t)
      PROVE  UNCHANGED <<seen, rung, repeated>>
  BY <1>6 DEF vars, StartPass, EndPass, Disable, Persist, FireFails, Connect, Disconnect,
     ToggleMute, Restart, Tick, ClockStep, history
<1>. QED  BY <1>1, <1>2, <1>3, <1>4, <1>5, <1>6 DEF Next, Scheduler

\* Crashes and clock steps are never forgotten.
LEMMA CountersGrow ==
    ASSUME TypeOK, [Next]_vars
    PROVE  jumps' >= jumps /\ crashes' >= crashes
<1>1. CASE UNCHANGED <<jumps, crashes>>
  BY <1>1 DEF TypeOK
<1>2. ASSUME NEW a \in Alarms,
             \/ DeleteAlarm(a) \/ Reschedule(a) \/ NotDue(a) \/ Skip(a) \/ Fire(a)
             \/ \E days \in Recurrences : PostAlarm(a, days)
      PROVE  UNCHANGED <<jumps, crashes>>
  BY <1>2 DEF DeleteAlarm, Reschedule, NotDue, Skip, Fire, PostAlarm, world
<1>3. ASSUME \/ UNCHANGED vars \/ StartPass \/ EndPass \/ Disable \/ Persist \/ FireFails
             \/ FireEnd \/ Connect \/ Disconnect \/ ToggleMute \/ Restart \/ Tick
      PROVE  UNCHANGED <<jumps, crashes>>
  BY <1>3 DEF vars, StartPass, EndPass, Disable, Persist, FireFails, FireEnd, Connect,
     Disconnect, ToggleMute, Restart, Tick, world
<1>4. CASE Crash \/ \E t \in 0..MaxTime : ClockStep(t)
  BY <1>4 DEF Crash, ClockStep, TypeOK
<1>. QED  BY <1>1, <1>2, <1>3, <1>4 DEF Next, Scheduler

\* An occurrence offered to a device that can ring has not rung before: the
\* session would have dropped it, or the first pass has used it up.
LEMMA FreshStep ==
    TypeOK /\ SchedInv /\ OnceInv /\ [Next]_vars => FreshInv'
<1>. SUFFICES ASSUME TypeOK, SchedInv, OnceInv, [Next]_vars, (jumps = 0 \/ crashes = 0)',
                     (pc = "push" /\ job.outcome = "ready")'
              PROVE  <<job'.alarm, job'.key>> \notin rung'
  BY Zenon DEF FreshInv
<1>1. jumps = 0 \/ crashes = 0
  BY CountersGrow DEF TypeOK
<1>2. ASSUME NEW a \in Alarms, Fire(a) PROVE <<job'.alarm, job'.key>> \notin rung'
  <2>. DEFINE key == OccurrenceKey(snap[a].next)
  <2>1. /\ <<a, key>> \notin seen /\ device = "ready" /\ UNCHANGED rung
        /\ job'.alarm = a /\ job'.key = key /\ pc = "pass" /\ NextRow(a) /\ Due(a)
    BY <1>2 DEF Fire, Job, history
  <2>2. key \in Nat /\ snap[a].next = Instant(a, key) /\ a \in DOMAIN snap
    BY <2>1, DueRow DEF NextRow
  <2>3. settled  BY <2>1 DEF OnceInv, PushInv
  <2>4. CASE crashes = 0  BY <2>1, <2>4 DEF OnceInv, RememberInv
  <2>5. CASE jumps = 0  BY <2>1, <2>2, <2>3, <2>5 DEF OnceInv, EvenInv
  <2>. QED  BY <1>1, <2>4, <2>5
<1>3. ASSUME \A a \in Alarms : ~Fire(a)
      PROVE  /\ pc = "push" /\ job.outcome = "ready"
             /\ UNCHANGED rung /\ job' = job
  <2>1. CASE UNCHANGED vars  BY <2>1 DEF vars, pass, history
  <2>2. ASSUME NEW a \in Alarms,
             \/ DeleteAlarm(a) \/ Reschedule(a) \/ NotDue(a) \/ Skip(a)
             \/ \E days \in Recurrences : PostAlarm(a, days)
        PROVE  pc = "push" /\ UNCHANGED <<rung, job>>
    BY <2>2 DEF DeleteAlarm, Reschedule, NotDue, Skip, PostAlarm, history, pass
  <2>3. ASSUME \/ StartPass \/ EndPass \/ Disable \/ Persist \/ FireFails \/ FireEnd
               \/ Connect \/ ToggleMute \/ Restart \/ Tick \/ Crash
               \/ \E t \in 0..MaxTime : ClockStep(t)
        PROVE  pc = "push" /\ UNCHANGED <<rung, job>>
    BY <2>3 DEF StartPass, EndPass, Disable, Persist, FireFails, FireEnd, Connect,
       ToggleMute, Restart, Tick, Crash, ClockStep, history, pass
  <2>4. CASE Disconnect
    BY <2>4 DEF Disconnect, history, TypeOK
  <2>. QED  BY <1>3, <2>1, <2>2, <2>3, <2>4 DEF Next, Scheduler
<1>. QED  BY <1>1, <1>2, <1>3 DEF OnceInv, FreshInv

\* EvenInv where nothing rings: what is used up stays used up.
LEMMA EvenFrame ==
    ASSUME EvenInv, TypeOK, UNCHANGED <<rung, repeated>>, now' \in Nat, now' >= now,
           passNow' \in {passNow, None},
           \A b \in Alarms : row[b].state # "none" => row'[b].state # "none",
           \A b \in Alarms : \A k \in Nat :
               <<b, k>> \in rung /\ row[b].state # "none" /\ UsedUp(b, k) => UsedUp(b, k)',
           \A b \in DOMAIN snap' : b \in DOMAIN snap /\ snap'[b] = snap[b],
           DOMAIN snap' = {} \/ settled' = settled
    PROVE  EvenInv'
<1>1. ~repeated' /\ (passNow' # None => passNow' <= now')
  BY DEF EvenInv, TypeOK, Times
<1>2. ASSUME NEW b \in Alarms, NEW k \in Nat, <<b, k>> \in rung'
      PROVE  Instant(b, k)' <= now' /\ row'[b].state # "none" /\ UsedUp(b, k)'
  <2>1. Instant(b, k)' = Instant(b, k) /\ Instant(b, k) \in Nat  BY InstantDay DEF Instant
  <2>2. Instant(b, k) <= now /\ row[b].state # "none" /\ UsedUp(b, k)  BY <1>2 DEF EvenInv
  <2>. QED  BY SMTT(30), <1>2, <2>1, <2>2 DEF TypeOK
<1>3. ASSUME NEW b \in DOMAIN snap', NEW k \in Nat, <<b, k>> \in rung',
             snap'[b].next = Instant(b, k)'
      PROVE  ~settled'
  BY <1>3 DEF EvenInv, Instant
<1>. QED  BY <1>1, <1>2, <1>3 DEF EvenInv

\* An occurrence that has rung is not due in a pass any more: it is skipped on
\* its last_fired_occurrence, or offered to a device that is offline.
LEMMA EvenDue ==
    ASSUME TypeOK, SchedInv, EvenInv, NEW a \in Alarms, pc = "pass", NextRow(a), Due(a),
           NEW outcome, job' = Job(a, outcome), snap' = Rest(a), pc' \in {"push", "persist"},
           UNCHANGED <<now, row, settled, passNow, rung, repeated>>
    PROVE  EvenInv'
<1>1. job'.alarm = a /\ job'.key = OccurrenceKey(snap[a].next) /\ Handling'
  BY DEF Job, Handling
<1>2. ASSUME NEW b \in Alarms, NEW k \in Nat, <<b, k>> \in rung, UsedUp(b, k)
      PROVE  UsedUp(b, k)'
  <2>1. ~HandlingRung(b, k)  BY DEF HandlingRung, Handling
  <2>2. CASE row[b].state \in {"off", "gone"} \/ (row[b].last # None /\ row[b].last >= k)
    BY <2>2 DEF UsedUp
  <2>3. CASE ~settled /\ row[b].next = Instant(b, k) /\ b \in DOMAIN snap
             /\ passNow >= Instant(b, k)
    <3>1. CASE b # a
      BY <2>3, <3>1 DEF UsedUp, Rest, Instant
    <3>2. CASE b = a /\ row[a] = snap[a]
      <4>1. k = OccurrenceKey(snap[a].next)  BY <2>3, <3>2, DueRow
      <4>. QED  BY <1>1, <2>3, <3>2, <4>1 DEF UsedUp, HandlingRung
    <3>3. CASE b = a /\ row[a].state = "gone"  BY <3>3 DEF UsedUp
    <3>. QED  BY <2>3, <3>1, <3>2, <3>3 DEF SchedInv, SnapOK
  <2>. QED  BY <1>2, <2>1, <2>2, <2>3 DEF UsedUp
<1>. QED  BY <1>2, EvenFrame DEF TypeOK, Rest

\* While the clock runs evenly every action keeps what has rung used up.
LEMMA EvenStep ==
    TypeOK /\ SchedInv /\ PushInv /\ FreshInv /\ EvenInv /\ jumps = 0 /\ jumps' = 0 /\ [Next]_vars
        => EvenInv'
<1>. SUFFICES ASSUME TypeOK, SchedInv, PushInv, FreshInv, EvenInv, jumps = 0, jumps' = 0,
                     [Next]_vars
              PROVE  EvenInv'
  OBVIOUS
<1>. USE DEF Instant
<1>1. CASE UNCHANGED vars \/ Connect \/ Disconnect \/ ToggleMute
  <2>1. /\ UNCHANGED <<now, row, pc, settled, passNow, snap, rung, repeated>>
        /\ job'.alarm = job.alarm /\ job'.key = job.key
    BY <1>1 DEF vars, Connect, Disconnect, ToggleMute, pass, history, TypeOK
  <2>2. \A b \in Alarms : \A k \in Nat : UsedUp(b, k) => UsedUp(b, k)'
    BY <2>1 DEF UsedUp, HandlingRung, Handling
  <2>. QED  BY <2>1, <2>2, EvenFrame DEF TypeOK
<1>2. CASE Tick
  <2>1. /\ UNCHANGED <<row, pc, settled, passNow, snap, job, rung, repeated>>
        /\ now' = now + 1
    BY <1>2 DEF Tick, history
  <2>2. \A b \in Alarms : \A k \in Nat : UsedUp(b, k) => UsedUp(b, k)'
    BY <2>1 DEF UsedUp, HandlingRung, Handling
  <2>. QED  BY <2>1, <2>2, EvenFrame DEF TypeOK
<1>3. CASE Restart
  <2>1. /\ UNCHANGED <<now, row, settled, passNow, snap, job, rung, repeated>>
        /\ pc = "down" /\ pc' = "idle"
    BY <1>3 DEF Restart, history
  <2>2. \A b \in Alarms : \A k \in Nat : UsedUp(b, k) => UsedUp(b, k)'
    BY <2>1 DEF UsedUp, HandlingRung, Handling
  <2>. QED  BY <2>1, <2>2, EvenFrame DEF TypeOK
<1>4. CASE Crash
  <2>1. /\ UNCHANGED <<now, row, rung, repeated>> /\ pc' = "down" /\ ~settled'
        /\ passNow' = None /\ DOMAIN snap' = {}
    BY <1>4 DEF Crash, history
  <2>2. ASSUME NEW b \in Alarms, NEW k \in Nat, UsedUp(b, k) PROVE UsedUp(b, k)'
    <3>1. CASE HandlingRung(b, k)
      <4>1. row[b].state \in {"off", "gone"} \/ row[b].next = Instant(b, k)
        BY <3>1 DEF PushInv, HandlingRung
      <4>. QED  BY <2>1, <4>1 DEF UsedUp
    <3>. QED  BY <2>1, <2>2, <3>1 DEF UsedUp
  <2>. QED  BY <2>1, <2>2, EvenFrame DEF TypeOK
<1>5. CASE StartPass
  <2>1. /\ UNCHANGED <<now, row, settled, job, rung, repeated>> /\ pc = "idle" /\ pc' = "pass"
        /\ passNow' = now /\ snap' = [a \in {x \in Alarms : row[x].state = "on"} |-> row[a]]
    BY <1>5 DEF StartPass, history
  <2>2. \A a \in Alarms : row[a].state \in {"none", "on", "off", "gone"}
    BY DEF TypeOK, Rows
  <2>3. ASSUME NEW b \in Alarms, NEW k \in Nat, <<b, k>> \in rung
        PROVE  Instant(b, k) <= now /\ row[b].state # "none" /\ UsedUp(b, k)'
    <3>1. Instant(b, k) <= now /\ row[b].state # "none" /\ UsedUp(b, k)
      BY <2>3 DEF EvenInv
    <3>2. ~HandlingRung(b, k)  BY <2>1 DEF HandlingRung, Handling
    <3>3. Instant(b, k) \in Nat /\ now \in Nat  BY InstantDay DEF TypeOK
    <3>4. row[b].state = "on" => b \in DOMAIN snap'  BY <2>1
    <3>. QED  BY <2>1, <2>2, <3>1, <3>2, <3>3, <3>4 DEF UsedUp
  <2>4. ASSUME NEW b \in DOMAIN snap', NEW k \in Nat, <<b, k>> \in rung',
               snap'[b].next = Instant(b, k)'
        PROVE  ~settled'
    <3>1. b \in Alarms /\ row[b].state = "on" /\ row[b].next = Instant(b, k) /\ UsedUp(b, k)
      BY <2>1, <2>4 DEF EvenInv
    <3>2. PICK d \in Nat : row[b].next = Instant(b, d) /\ (row[b].last # None => d > row[b].last)
      BY <3>1, InstantDay DEF SchedInv, RowOK
    <3>3. d = k  BY <3>1, <3>2, InstantDay
    <3>4. row[b].last \in Times  BY <3>1 DEF TypeOK, Rows
    <3>. QED  BY <2>1, <3>1, <3>2, <3>3, <3>4 DEF UsedUp, HandlingRung, Handling, Times
  <2>5. \A b \in Alarms : \A k \in Nat : <<b, k>> \in rung' =>
            Instant(b, k)' <= now' /\ row'[b].state # "none" /\ UsedUp(b, k)'
    BY <2>1, <2>3
  <2>6. ~repeated' /\ (passNow' # None => passNow' <= now')
    BY <2>1 DEF EvenInv, TypeOK
  <2>. HIDE DEF Instant
  <2>. QED  BY <2>4, <2>5, <2>6 DEF EvenInv
<1>6. CASE EndPass
  <2>1. /\ UNCHANGED <<now, row, snap, job, rung, repeated>> /\ pc = "pass" /\ pc' = "idle"
        /\ passNow' = None /\ DOMAIN snap = {}
    BY <1>6 DEF EndPass, history
  <2>2. \A b \in Alarms : \A k \in Nat : UsedUp(b, k) => UsedUp(b, k)'
    BY <2>1 DEF UsedUp, HandlingRung, Handling
  <2>. QED  BY <2>1, <2>2, EvenFrame DEF TypeOK
<1>7. ASSUME NEW a \in Alarms, Reschedule(a) PROVE EvenInv'
  <2>1. /\ UNCHANGED <<now, settled, passNow, pc, job, rung, repeated>> /\ pc = "pass"
        /\ snap' = Rest(a) /\ a \in DOMAIN snap /\ snap[a].next = None
        /\ \A b \in Alarms : row'[b].state = row[b].state
        /\ \A b \in Alarms \ {a} : row'[b] = row[b]
        /\ row[a] = snap[a] => row'[a].last = row[a].last
    BY <1>7 DEF Reschedule, NextRow, SetAlarmSchedule, history, TypeOK, Rows
  <2>2. row[a].state = "gone" \/ row[a] = snap[a]  BY <2>1 DEF SchedInv, SnapOK
  <2>3. \A k \in Nat : Instant(a, k) # None  BY InstantDay
  <2>4. ASSUME NEW b \in Alarms, NEW k \in Nat, UsedUp(b, k) PROVE UsedUp(b, k)'
    <3>1. CASE b # a
      BY <2>1, <2>4, <3>1 DEF UsedUp, HandlingRung, Handling, Rest
    <3>2. CASE b = a
      BY <2>1, <2>2, <2>3, <2>4, <3>2 DEF UsedUp, HandlingRung, Handling
    <3>. QED  BY <3>1, <3>2
  <2>. QED  BY <2>1, <2>4, EvenFrame DEF TypeOK, Rest
<1>8. ASSUME NEW a \in Alarms, NotDue(a) PROVE EvenInv'
  <2>1. /\ UNCHANGED <<now, row, settled, passNow, pc, job, rung, repeated>> /\ pc = "pass"
        /\ snap' = Rest(a) /\ a \in DOMAIN snap /\ ~Due(a) /\ snap[a].next # None
    BY <1>8 DEF NotDue, NextRow, history
  <2>2. row[a].state = "gone" \/ row[a] = snap[a]  BY <2>1 DEF SchedInv, SnapOK
  <2>3. ASSUME NEW b \in Alarms, NEW k \in Nat, UsedUp(b, k) PROVE UsedUp(b, k)'
    <3>1. CASE b # a
      BY <2>1, <2>3, <3>1 DEF UsedUp, HandlingRung, Handling, Rest
    <3>2. CASE b = a
      BY <2>1, <2>2, <2>3, <3>2 DEF UsedUp, HandlingRung, Handling, Due
    <3>. QED  BY <3>1, <3>2
  <2>. QED  BY <2>1, <2>3, EvenFrame DEF TypeOK, Rest
<1>9. ASSUME NEW a \in Alarms, Skip(a) \/ Fire(a) PROVE EvenInv'
  <2>1. /\ UNCHANGED <<now, row, settled, passNow, rung, repeated>> /\ pc = "pass"
        /\ pc' \in {"push", "persist"} /\ snap' = Rest(a) /\ NextRow(a) /\ Due(a)
        /\ \E outcome : job' = Job(a, outcome)
    BY <1>9 DEF Skip, Fire, history
  <2>. QED  BY <2>1, EvenDue
<1>10. CASE FireEnd
  <2>1. /\ UNCHANGED <<now, row, settled, passNow, snap, job>> /\ pc = "push" /\ pc' = "persist"
        /\ rung' \in {rung, rung \cup {<<job.alarm, job.key>>}}
        /\ ~repeated'
    BY <1>10 DEF FireEnd, FreshInv, EvenInv
  <2>2. Handling /\ Handling'  BY <2>1 DEF Handling
  <2>3. /\ job.alarm \in Alarms /\ job.key \in Nat /\ passNow \in Nat /\ now \in Nat
        /\ job.alarm \notin DOMAIN snap /\ row[job.alarm].state # "none"
        /\ Instant(job.alarm, job.key) <= passNow
    BY <2>1, <2>2 DEF TypeOK, SchedInv, JobOK, PushInv
  <2>4. Instant(job.alarm, job.key) <= now
    <3>1. Instant(job.alarm, job.key) \in Nat  BY <2>3, InstantDay
    <3>. HIDE DEF Instant
    <3>. QED  BY <2>3, <3>1 DEF EvenInv
  <2>5. ASSUME NEW b \in Alarms, NEW k \in Nat, <<b, k>> \in rung'
        PROVE  Instant(b, k) <= now /\ row[b].state # "none" /\ UsedUp(b, k)'
    <3>1. CASE <<b, k>> \in rung
      BY <2>1, <2>2, <3>1 DEF EvenInv, UsedUp, HandlingRung
    <3>2. CASE b = job.alarm /\ k = job.key
      BY <2>1, <2>2, <2>3, <2>4, <3>2 DEF UsedUp, HandlingRung
    <3>. QED  BY <2>1, <2>5, <3>1, <3>2
  <2>. QED  BY <2>1, <2>3, <2>5 DEF EvenInv, TypeOK
<1>11. CASE FireFails
  <2>1. /\ UNCHANGED <<now, row, settled, passNow, snap, rung, repeated>> /\ pc = "push"
        /\ pc' = "pass" /\ settled
    BY <1>11 DEF FireFails
  <2>2. \A b \in Alarms : \A k \in Nat : UsedUp(b, k) => UsedUp(b, k)'
    BY <2>1 DEF UsedUp, HandlingRung
  <2>. QED  BY <2>1, <2>2, EvenFrame DEF TypeOK
<1>12. ASSUME NEW a \in Alarms, NEW days \in Recurrences, PostAlarm(a, days) PROVE EvenInv'
  <2>1. /\ UNCHANGED <<now, settled, passNow, pc, job, snap, rung, repeated>>
        /\ row[a].state = "none" /\ row'[a].state = "on"
        /\ \A b \in Alarms \ {a} : row'[b] = row[b]
    BY <1>12 DEF PostAlarm, pass, history, TypeOK
  <2>2. ASSUME NEW b \in Alarms, NEW k \in Nat, row[b].state # "none", UsedUp(b, k)
        PROVE  UsedUp(b, k)'
    BY <2>1, <2>2 DEF UsedUp, HandlingRung, Handling
  <2>. QED  BY <2>1, <2>2, EvenFrame DEF TypeOK
<1>13. ASSUME NEW a \in Alarms, DeleteAlarm(a) PROVE EvenInv'
  <2>1. /\ UNCHANGED <<now, settled, passNow, pc, job, snap, rung, repeated>>
        /\ row'[a].state = "gone"
        /\ \A b \in Alarms \ {a} : row'[b] = row[b]
    BY <1>13 DEF DeleteAlarm, Absent, pass, history, TypeOK
  <2>2. ASSUME NEW b \in Alarms, NEW k \in Nat, UsedUp(b, k) PROVE UsedUp(b, k)'
    BY <2>1, <2>2 DEF UsedUp, HandlingRung, Handling
  <2>. QED  BY <2>1, <2>2, EvenFrame DEF TypeOK
<1>14. CASE Disable
  <2>1. /\ UNCHANGED <<now, settled, passNow, job, snap, rung, repeated>>
        /\ pc = "persist" /\ pc' = "disabled" /\ job.alarm \in Alarms
        /\ row'[job.alarm].state \in {"off", "gone"}
        /\ \A b \in Alarms \ {job.alarm} : row'[b] = row[b]
    BY <1>14 DEF Disable, DisableAlarm, history, TypeOK, Rows
  <2>2. ASSUME NEW b \in Alarms, NEW k \in Nat, UsedUp(b, k) PROVE UsedUp(b, k)'
    BY <2>1, <2>2 DEF UsedUp, HandlingRung, Handling
  <2>. QED  BY <2>1, <2>2, EvenFrame DEF TypeOK
<1>15. CASE Persist
  <2>1. /\ UNCHANGED <<now, settled, passNow, snap, rung, repeated>>
        /\ pc \in {"persist", "disabled"} /\ pc' = "pass" /\ job.alarm \in Alarms
        /\ \A b \in Alarms : row'[b].state = row[b].state
        /\ row[job.alarm].state # "gone" /\ job.key # None => row'[job.alarm].last = job.key
        /\ \A b \in Alarms \ {job.alarm} : row'[b] = row[b]
    BY <1>15 DEF Persist, SetAlarmSchedule, history, TypeOK, Rows
  <2>2. /\ job.key \in Nat /\ job.alarm \notin DOMAIN snap
        /\ row[job.alarm].last # None => row[job.alarm].last <= job.key
        /\ row[job.alarm].last \in Times
    BY <2>1 DEF SchedInv, JobOK, PushInv, Handling, TypeOK, Rows
  <2>3. ASSUME NEW b \in Alarms, NEW k \in Nat, UsedUp(b, k) PROVE UsedUp(b, k)'
    <3>1. CASE b # job.alarm
      BY <2>1, <2>3, <3>1 DEF UsedUp, HandlingRung
    <3>2. CASE b = job.alarm /\ row[b].state = "gone"
      BY <2>1, <3>2 DEF UsedUp
    <3>3. CASE b = job.alarm /\ row[b].state # "gone"
      <4>1. row'[b].last = job.key  BY <2>1, <2>2, <3>3
      <4>2. row[b].state = "off" \/ job.key >= k
        BY <2>1, <2>2, <2>3, <3>3 DEF UsedUp, HandlingRung, Times
      <4>. QED  BY <2>1, <2>2, <3>3, <4>1, <4>2 DEF UsedUp
    <3>. QED  BY <3>1, <3>2, <3>3
  <2>. QED  BY <2>1, <2>3, EvenFrame DEF TypeOK
<1>16. ASSUME NEW t \in 0..MaxTime, ClockStep(t) PROVE FALSE
  BY <1>16 DEF ClockStep
<1>. QED
  BY <1>1, <1>2, <1>3, <1>4, <1>5, <1>6, <1>7, <1>8, <1>9, <1>10, <1>11, <1>12, <1>13, <1>14,
     <1>15, <1>16 DEF Next, Scheduler

\* For every table of alarms, and however pushes fail and devices come and go:
\* as long as the clock runs evenly, or the process does not crash, no
\* occurrence rings twice, although its ring starts before its row is written.
THEOREM NeverTwice == Spec => []RingsOnce
<1>1. Init => TypeOK /\ SchedInv /\ OnceInv
  <2>1. Init => OnceInv
    BY DEF Init, OnceInv, PushInv, FreshInv, EvenInv, RememberInv, Absent, Handling
  <2>. QED  BY <2>1, TypeInit, SchedInit
<1>2. TypeOK /\ SchedInv /\ OnceInv /\ [Next]_vars => (TypeOK /\ SchedInv /\ OnceInv)'
  <2>. SUFFICES ASSUME TypeOK, SchedInv, OnceInv, [Next]_vars
                PROVE  (TypeOK /\ SchedInv /\ OnceInv)'
    OBVIOUS
  <2>1. TypeOK' /\ SchedInv'  BY TypeStep, SchedStep
  <2>2. jumps' >= jumps /\ crashes' >= crashes /\ jumps \in Nat /\ crashes \in Nat
    BY CountersGrow DEF TypeOK
  <2>3. PushInv' /\ FreshInv'  BY PushStep, FreshStep DEF OnceInv
  <2>4. ASSUME jumps' = 0 PROVE EvenInv'
    <3>1. jumps = 0  BY <2>1, <2>2, <2>4 DEF TypeOK
    <3>. QED  BY <2>4, <3>1, EvenStep DEF OnceInv
  <2>5. ASSUME crashes' = 0 PROVE RememberInv'
    <3>1. crashes = 0  BY <2>1, <2>2, <2>5 DEF TypeOK
    <3>. QED  BY <2>5, <3>1, RememberStep DEF OnceInv
  <2>. QED  BY <2>1, <2>3, <2>4, <2>5 DEF OnceInv
<1>3. OnceInv => RingsOnce
  BY DEF OnceInv, EvenInv, RememberInv, RingsOnce
<1>. QED  BY <1>1, <1>2, <1>3, PTL DEF Spec

-----------------------------------------------------------------------------
(* A device that is able to ring is rung.  While the clock runs evenly a pass *)
(* begins in every unit of time, so a row is at most one unit late, and then  *)
(* only because its push raised.                                              *)

\* When the last pass began, the one under way if there is one.
LastPass == IF swept THEN now ELSE now - 1

\* Between passes nothing is loaded; a pass knows when it began; a device that
\* can ring is connected, which it is only after the first pass.
PaceInv ==
    /\ pc \in {"down", "idle"} => DOMAIN snap = {} /\ passNow = None
    /\ passNow # None => passNow = LastPass
    /\ pc = "down" => ~settled
    /\ readySince # None <=> device = "ready"

\* What the session has accepted is lost, written to its row, or being handled.
SeenInv ==
    \A a \in Alarms : \A k \in Nat : <<a, k>> \in seen =>
        /\ row[a].state # "none"
        /\ \/ <<a, k>> \in lost
           \/ row[a].state = "gone"
           \/ row[a].last # None /\ row[a].last >= k
           \/ Handling /\ job.alarm = a /\ job.key = k

Waiting(a) == a \in DOMAIN snap \/ (Handling /\ job.alarm = a)

\* A row is ahead of the last pass, but for an occurrence whose push raised in it.
Ahead(a) ==
    /\ row[a].next >= LastPass
    /\ \A k \in Nat : row[a].next = Instant(a, k) /\ row[a].next = LastPass => <<a, k>> \in seen

\* Every row that no pass has still to handle is.
AheadInv ==
    settled \/ passNow # None =>
        \A a \in Alarms : row[a].state = "on" /\ row[a].next # None /\ ~Waiting(a) => Ahead(a)

\* A loaded row fell due since the pass before, unless its push raised in that.
Loaded(a) ==
    /\ snap[a].next >= passNow - 1
    /\ \A k \in Nat : snap[a].next = Instant(a, k) /\ snap[a].next = passNow - 1 => <<a, k>> \in seen

LoadedInv == settled => \A a \in DOMAIN snap : snap[a].next # None => Loaded(a)

\* What is pushed fell due since the pass before; the row moves past this one.
JobAheadInv ==
    Handling =>
        /\ job.next # None => job.next > passNow
        /\ settled /\ pc = "push" => Instant(job.alarm, job.key) = passNow

\* An occurrence that is still to come, or has come since the device was ready.
Timely(a, d) == Instant(a, d) > now \/ (readySince # None /\ readySince < Instant(a, d))

Owed(a, d) ==
    /\ row[a].state \in {"on", "off"}
    /\ d \in row[a].days
    /\ row[a].made < Instant(a, d)
    /\ Timely(a, d)

Served(a, d) == <<a, d>> \in rung \cup lost

\* Such an occurrence has rung, was lost, or its row has yet to get to it.
Met(a, d) ==
    \/ Served(a, d)
    \/ row[a].state = "on" /\ row[a].next # None /\ row[a].next <= Instant(a, d)

OwedInv == \A a \in Alarms : \A d \in Nat : Owed(a, d) => Met(a, d)

\* And the row that is being handled will not move past it.
JobMeets(d) ==
    \/ Served(job.alarm, d)
    \/ job.next # None /\ job.next <= Instant(job.alarm, d)
    \/ pc = "push" /\ d = job.key /\ job.outcome = "ready"

OwedJobInv == Handling => \A d \in Nat : Owed(job.alarm, d) => JobMeets(d)

\* The inductive invariant behind RingsWhenReady.
LateInv == AheadInv /\ LoadedInv /\ JobAheadInv
ReadyInv == PaceInv /\ SeenInv /\ LateInv /\ OwedInv /\ OwedJobInv

\* Two instants of one alarm are at least a day apart.
LEMMA DayApart ==
    ASSUME NEW a \in Alarms, NEW d \in Nat, NEW e \in Nat, Instant(a, d) < Instant(a, e)
    PROVE  Instant(a, d) + Day <= Instant(a, e)
<1>1. d < e
  BY LaterDay
<1>2. At[a] \in 0..(Day - 1)
  OBVIOUS
<1>3. ASSUME NEW r \in 0..(Day - 1)
      PROVE  d * Day + r + Day <= e * Day + r
  <2>1. (e - d - 1) * Day \in Nat
    BY <1>1, SMTT(30)
  <2>. QED  BY <1>1, <2>1, SMTT(30)
<1>. QED  BY <1>2, <1>3 DEF Instant

\* next_fire passes over no instant after the given time.
LEMMA NextFireEarliest ==
    ASSUME NEW a \in Alarms, NEW days \in SUBSET Nat, NEW after, NEW d \in days,
           Instant(a, d) > after
    PROVE  NextFire(a, days, after) # None /\ NextFire(a, days, after) <= Instant(a, d)
<1>. DEFINE later == {t \in {Instant(a, e) : e \in days} : t > after}
<1>1. Instant(a, d) \in later /\ later \in SUBSET Nat
  BY InstantDay
<1>2. NextFire(a, days, after) = Min(later)
  BY <1>1 DEF NextFire
<1>3. PICK n \in later : \A m \in later : n <= m
  <2>. DEFINE below == OpToRel(<, Nat)
  <2>1. IsWellFoundedOn(below, Nat)
    BY NatLessThanWellFounded
  <2>2. PICK n \in later : \A m \in later : <<m, n>> \notin below
    BY <1>1, <2>1, WFMin
  <2>3. \A m \in later : ~(m < n)
    BY <1>1, <2>2 DEF OpToRel
  <2>. QED  BY <1>1, <2>3
<1>4. Min(later) \in later /\ \A m \in later : Min(later) <= m
  BY <1>3 DEF Min
<1>. QED  BY <1>1, <1>2, <1>4

\* The pass keeps time.
LEMMA PaceStep == TypeOK /\ SchedInv /\ PaceInv /\ jumps' = jumps /\ [Next]_vars => PaceInv'
<1>. SUFFICES ASSUME TypeOK, SchedInv, PaceInv, jumps' = jumps, [Next]_vars PROVE PaceInv'
  OBVIOUS
<1>. USE DEF PaceInv, LastPass, TypeOK
<1>1. CASE UNCHANGED vars
  BY <1>1 DEF vars, pass
<1>2. CASE \E a \in Alarms : DeleteAlarm(a) \/ \E days \in Recurrences : PostAlarm(a, days)
  BY SMTT(30), <1>2 DEF DeleteAlarm, PostAlarm, pass
<1>3. CASE StartPass
  BY <1>3 DEF StartPass
<1>4. CASE FireEnd \/ FireFails \/ Disable \/ Persist
  BY SMTT(30), <1>4 DEF FireEnd, FireFails, Disable, Persist
<1>5. CASE \E a \in Alarms : Reschedule(a) \/ NotDue(a) \/ Skip(a) \/ Fire(a)
  BY SMTT(30), <1>5 DEF Reschedule, NotDue, Skip, Fire
<1>6. CASE EndPass
  BY <1>6 DEF EndPass
<1>7. CASE Connect \/ Disconnect \/ ToggleMute
  <2>1. UNCHANGED <<now, pc, settled, swept, passNow, snap>>
    BY <1>7 DEF Connect, Disconnect, ToggleMute, pass
  <2>2. readySince' # None <=> device' = "ready"
    BY <1>7 DEF Connect, Disconnect, ToggleMute
  <2>. QED  BY <2>1, <2>2
<1>8. CASE Crash
  BY <1>8 DEF Crash
<1>9. CASE Restart
  BY <1>9 DEF Restart
<1>10. CASE Tick
  <2>1. /\ UNCHANGED <<pc, settled, passNow, snap, device, readySince>>
        /\ pc # "down" => swept
        /\ now' = now + 1 /\ ~swept'
    BY <1>10, Zenon DEF Tick
  <2>. QED  BY <2>1
<1>11. ASSUME NEW t \in 0..MaxTime, ClockStep(t) PROVE FALSE
  BY <1>11 DEF ClockStep
<1>. QED
  BY <1>1, <1>2, <1>3, <1>4, <1>5, <1>6, <1>7, <1>8, <1>9, <1>10, <1>11 DEF Next, Scheduler

\* Nothing the session accepted is forgotten by the table.
LEMMA SeenStep == TypeOK /\ SchedInv /\ PushInv /\ SeenInv /\ [Next]_vars => SeenInv'
<1>. SUFFICES ASSUME TypeOK, SchedInv, PushInv, SeenInv, [Next]_vars,
                     NEW b \in Alarms, NEW k \in Nat, <<b, k>> \in seen'
              PROVE  /\ row'[b].state # "none"
                     /\ \/ <<b, k>> \in lost'
                        \/ row'[b].state = "gone"
                        \/ row'[b].last # None /\ row'[b].last >= k
                        \/ Handling' /\ job'.alarm = b /\ job'.key = k
  BY DEF SeenInv
<1>. DEFINE Kept == /\ row[b].state # "none"
                    /\ \/ <<b, k>> \in lost
                       \/ row[b].state = "gone"
                       \/ row[b].last # None /\ row[b].last >= k
                       \/ Handling /\ job.alarm = b /\ job.key = k
<1>0. <<b, k>> \in seen => Kept
  BY DEF SeenInv
<1>. HIDE DEF Kept
<1>. USE DEF Handling
<1>1. CASE UNCHANGED vars \/ Connect \/ Disconnect \/ ToggleMute \/ Restart
           \/ \E t \in 0..MaxTime : ClockStep(t)
  <2>1. /\ UNCHANGED <<row, seen, lost>> /\ (Handling => Handling')
        /\ job'.alarm = job.alarm /\ job'.key = job.key
    BY <1>1 DEF vars, Connect, Disconnect, ToggleMute, Restart, ClockStep, pass, history, TypeOK
  <2>. QED  BY <1>0, <2>1 DEF Kept
<1>2. CASE Tick
  <2>1. UNCHANGED <<row, seen, lost, pc, job>>
    BY <1>2 DEF Tick, history
  <2>. QED  BY <1>0, <2>1 DEF Kept
<1>3. CASE StartPass \/ EndPass \/ \E a \in Alarms : NotDue(a)
  <2>1. UNCHANGED <<row, seen, lost>> /\ ~Handling
    BY <1>3 DEF StartPass, EndPass, NotDue, history
  <2>. QED  BY <1>0, <2>1 DEF Kept
<1>4. ASSUME NEW a \in Alarms, Reschedule(a) PROVE Kept'
  <2>1. /\ UNCHANGED <<seen, lost>> /\ ~Handling /\ a \in DOMAIN snap
        /\ \A c \in Alarms : row'[c].state = row[c].state
        /\ row[a] = snap[a] => row'[a].last = row[a].last
        /\ \A c \in Alarms \ {a} : row'[c] = row[c]
    BY <1>4 DEF Reschedule, NextRow, SetAlarmSchedule, history, TypeOK, Rows
  <2>2. row[a].state = "gone" \/ row[a] = snap[a]
    BY <2>1 DEF SchedInv, SnapOK
  <2>. QED  BY <1>0, <2>1, <2>2 DEF Kept
<1>5. ASSUME NEW a \in Alarms, Skip(a) \/ Fire(a) PROVE Kept'
  <2>1. /\ UNCHANGED <<row, lost>> /\ ~Handling /\ Handling' /\ pc = "pass" /\ NextRow(a) /\ Due(a)
        /\ seen' \subseteq seen \cup {<<a, OccurrenceKey(snap[a].next)>>}
        /\ \E outcome : job' = Job(a, outcome)
    BY <1>5 DEF Skip, Fire, Accept, history
  <2>2. job'.alarm = a /\ job'.key = OccurrenceKey(snap[a].next)
    BY <2>1 DEF Job
  <2>3. row[a].state # "none"
    BY <2>1 DEF NextRow, SchedInv, SnapOK
  <2>. QED  BY <1>0, <2>1, <2>2, <2>3 DEF Kept
<1>6. CASE FireEnd
  <2>1. UNCHANGED <<row, seen, lost, job>> /\ Handling'
    BY <1>6 DEF FireEnd
  <2>. QED  BY <1>0, <2>1 DEF Kept
<1>7. CASE FireFails
  <2>1. UNCHANGED <<row, seen>> /\ lost' = lost \cup {<<job.alarm, job.key>>}
    BY <1>7 DEF FireFails
  <2>. QED  BY <1>0, <2>1 DEF Kept
<1>8. CASE Disable
  <2>1. /\ UNCHANGED <<seen, lost, job>> /\ Handling'
        /\ job.alarm \in Alarms
        /\ row'[job.alarm].state \in {"off", "gone"}
        /\ row'[job.alarm].last = row[job.alarm].last
        /\ row[job.alarm].state = "gone" => row'[job.alarm].state = "gone"
        /\ \A c \in Alarms \ {job.alarm} : row'[c] = row[c]
    BY <1>8 DEF Disable, DisableAlarm, history, TypeOK, Rows
  <2>. QED  BY <1>0, <2>1 DEF Kept
<1>9. CASE Persist
  <2>1. /\ UNCHANGED <<seen, lost>> /\ job.alarm \in Alarms /\ Handling
        /\ \A c \in Alarms : row'[c].state = row[c].state
        /\ row[job.alarm].state # "gone" /\ job.key # None => row'[job.alarm].last = job.key
        /\ \A c \in Alarms \ {job.alarm} : row'[c] = row[c]
    BY <1>9 DEF Persist, SetAlarmSchedule, history, TypeOK, Rows
  <2>2. /\ job.key \in Nat /\ row[job.alarm].last \in Times
        /\ row[job.alarm].last # None => row[job.alarm].last <= job.key
        /\ row[job.alarm].state # "none"
    BY <2>1 DEF SchedInv, JobOK, PushInv, TypeOK, Rows
  <2>. QED  BY <1>0, <2>1, <2>2 DEF Kept, Times
<1>10. CASE Crash
  BY <1>10 DEF Crash
<1>11. ASSUME NEW a \in Alarms, NEW days \in Recurrences, PostAlarm(a, days) PROVE Kept'
  <2>1. /\ UNCHANGED <<seen, lost, pc, job>> /\ row[a].state = "none"
        /\ \A c \in Alarms \ {a} : row'[c] = row[c]
    BY <1>11 DEF PostAlarm, pass, history, TypeOK
  <2>. QED  BY <1>0, <2>1 DEF Kept
<1>12. ASSUME NEW a \in Alarms, DeleteAlarm(a) PROVE Kept'
  <2>1. /\ UNCHANGED <<seen, lost, pc, job>> /\ row'[a].state = "gone"
        /\ \A c \in Alarms \ {a} : row'[c] = row[c]
    BY <1>12 DEF DeleteAlarm, Absent, pass, history, TypeOK
  <2>. QED  BY <1>0, <2>1 DEF Kept
<1>. QED
  BY <1>1, <1>2, <1>3, <1>4, <1>5, <1>6, <1>7, <1>8, <1>9, <1>10, <1>11, <1>12
     DEF Next, Scheduler, Kept

\* The next fire computed for a due row lies after the pass that handles it.
LEMMA JobAhead ==
    ASSUME TypeOK, SchedInv, NEW a \in Alarms, pc = "pass", NextRow(a), Due(a),
           NextFire(a, snap[a].days, Floor(a)) # None
    PROVE  NextFire(a, snap[a].days, Floor(a)) > passNow
<1>. DEFINE d == OccurrenceKey(snap[a].next)
<1>1. /\ d \in Nat /\ snap[a].next = Instant(a, d)
      /\ snap[a].next \in Nat /\ passNow \in Nat
  BY DueRow
<1>2. snap[a].days \in SUBSET Nat
  BY DaysType DEF TypeOK, NextRow
<1>. HIDE DEF d
<1>3. PICK e \in snap[a].days : /\ NextFire(a, snap[a].days, Floor(a)) = Instant(a, e)
                                /\ Instant(a, e) > Floor(a)
  BY <1>2, NextFireLater
<1>4. e \in Nat /\ Instant(a, e) \in Nat
  BY <1>2, InstantDay
<1>5. CASE WithinGrace(snap[a].next, passNow)
  <2>1. Instant(a, d) < Instant(a, e) /\ passNow <= Instant(a, d) + Grace
    BY <1>1, <1>3, <1>4, <1>5 DEF Floor, WithinGrace
  <2>2. Instant(a, d) + Day <= Instant(a, e)
    BY <1>1, <1>4, <2>1, DayApart
  <2>. QED  BY <1>1, <1>3, <1>4, <2>1, <2>2
<1>6. CASE ~WithinGrace(snap[a].next, passNow)
  BY <1>3, <1>6 DEF Floor
<1>. QED  BY <1>5, <1>6

\* A row that nothing touches stays ahead.
LEMMA AheadFrame ==
    ASSUME NEW b \in Alarms, Ahead(b), row'[b] = row[b], UNCHANGED <<now, swept>>,
           seen \subseteq seen'
    PROVE  Ahead(b)'
BY DEF Ahead, LastPass, Instant

\* Rows stay ahead where neither they nor the pass move.
LEMMA AheadInvFrame ==
    ASSUME AheadInv, UNCHANGED <<now, swept>>, seen \subseteq seen',
           settled' \/ passNow' # None => settled \/ passNow # None,
           \A b \in Alarms : row'[b].state = "on" /\ row'[b].next # None /\ ~Waiting(b)' =>
               \/ row'[b] = row[b] /\ ~Waiting(b)
               \/ Ahead(b)'
    PROVE  AheadInv'
BY AheadFrame DEF AheadInv

\* An instant after the last pass is ahead of it.
LEMMA AheadAfter ==
    ASSUME NEW b \in Alarms, row'[b].next > LastPass', row'[b].next \in Int, LastPass' \in Int
    PROVE  Ahead(b)'
BY DEF Ahead

\* Every action keeps the rows ahead of the passes.
LEMMA AheadStep ==
    TypeOK /\ SchedInv /\ PushInv /\ PaceInv /\ AheadInv /\ JobAheadInv /\ jumps' = jumps /\ [Next]_vars
        => AheadInv'
<1>. SUFFICES ASSUME TypeOK, SchedInv, PushInv, PaceInv, AheadInv, JobAheadInv, jumps' = jumps,
                     [Next]_vars
              PROVE  AheadInv'
  OBVIOUS
<1>0. /\ now \in Nat /\ LastPass \in Int
      /\ \A c \in Alarms : row[c].next \in Times /\ row[c].state \in {"none", "on", "off", "gone"}
  BY DEF TypeOK, LastPass, Rows
<1>1. CASE UNCHANGED vars \/ Connect \/ Disconnect \/ ToggleMute \/ Restart
  <2>1. /\ UNCHANGED <<row, snap, now, swept, settled, passNow, seen>> /\ (Handling <=> Handling')
        /\ job'.alarm = job.alarm
    BY <1>1 DEF vars, Connect, Disconnect, ToggleMute, Restart, pass, Handling, TypeOK
  <2>. QED  BY <2>1, AheadInvFrame DEF Waiting
<1>2. CASE Tick
  <2>1. UNCHANGED <<row, seen, pc, job, snap, settled, passNow>>
    BY <1>2 DEF Tick
  <2>2. settled' \/ passNow' # None => LastPass' = LastPass
    BY <1>2 DEF Tick, PaceInv, LastPass, TypeOK
  <2>. QED  BY <2>1, <2>2 DEF AheadInv, Ahead, Waiting, Handling, Instant
<1>3. CASE StartPass
  BY <1>3 DEF StartPass, AheadInv, Waiting
<1>4. CASE EndPass
  <2>1. UNCHANGED <<row, snap, now, swept, seen, job>> /\ ~Handling /\ ~Handling' /\ passNow # None
    BY <1>4 DEF EndPass, Handling, SchedInv
  <2>. QED  BY <2>1, AheadInvFrame DEF Waiting
<1>5. ASSUME NEW a \in Alarms, Reschedule(a) PROVE AheadInv'
  <2>1. /\ UNCHANGED <<now, swept, settled, passNow, seen, pc, job>> /\ ~Handling
        /\ snap' = Rest(a) /\ a \in DOMAIN snap
        /\ row[a].state = "on" => row'[a].next = NextFire(a, snap[a].days, passNow)
        /\ row'[a].state = row[a].state
        /\ \A c \in Alarms \ {a} : row'[c] = row[c]
    BY <1>5 DEF Reschedule, NextRow, SetAlarmSchedule, TypeOK, Rows, Handling
  <2>2. /\ passNow = LastPass /\ LastPass' = LastPass /\ passNow \in Nat
    BY <1>5, <2>1 DEF Reschedule, PaceInv, SchedInv, LastPass
  <2>3. /\ NextFire(a, snap[a].days, passNow) \in Times
        /\ NextFire(a, snap[a].days, passNow) # None => NextFire(a, snap[a].days, passNow) > passNow
    <3>1. snap[a].days \in SUBSET Nat
      BY <2>1, DaysType DEF TypeOK
    <3>. QED  BY <3>1, NextFireType, NextFireLater, InstantDay
  <2>4. row'[a].state = "on" /\ row'[a].next # None => Ahead(a)'
    BY <1>0, <2>1, <2>2, <2>3, AheadAfter DEF Times
  <2>5. ASSUME NEW b \in Alarms, b # a, ~Waiting(b)' PROVE ~Waiting(b) /\ row'[b] = row[b]
    BY <2>1, <2>5 DEF Waiting, Rest, Handling
  <2>. QED  BY <2>1, <2>4, <2>5, AheadInvFrame
<1>6. ASSUME NEW a \in Alarms, NotDue(a) PROVE AheadInv'
  <2>1. /\ UNCHANGED <<row, now, swept, settled, passNow, seen, pc, job>> /\ ~Handling
        /\ snap' = Rest(a) /\ a \in DOMAIN snap /\ snap[a].next # None /\ ~Due(a)
    BY <1>6 DEF NotDue, NextRow, Handling
  <2>2. passNow = LastPass /\ LastPass' = LastPass /\ passNow \in Nat
    BY <1>6, <2>1 DEF NotDue, PaceInv, SchedInv, LastPass
  <2>3. row[a].state = "on" /\ row[a].next # None => row[a].next > passNow
    <3>1. row[a] = snap[a] \/ row[a].state = "gone"
      BY <2>1 DEF SchedInv, SnapOK
    <3>. QED  BY <1>0, <2>1, <2>2, <3>1 DEF Due, Times
  <2>4. row'[a].state = "on" /\ row'[a].next # None => Ahead(a)'
    BY <1>0, <2>1, <2>2, <2>3, AheadAfter DEF Times
  <2>5. ASSUME NEW b \in Alarms, b # a, ~Waiting(b)' PROVE ~Waiting(b)
    BY <2>1, <2>5 DEF Waiting, Rest, Handling
  <2>. QED  BY <2>1, <2>4, <2>5, AheadInvFrame
<1>7. ASSUME NEW a \in Alarms, Skip(a) \/ Fire(a) PROVE AheadInv'
  <2>1. /\ UNCHANGED <<row, now, swept, settled, passNow>> /\ ~Handling /\ Handling'
        /\ snap' = Rest(a) /\ job'.alarm = a /\ seen \subseteq seen'
    BY <1>7 DEF Skip, Fire, Accept, Handling, Job
  <2>2. ASSUME NEW b \in Alarms, ~Waiting(b)' PROVE ~Waiting(b)
    BY <2>1, <2>2 DEF Waiting, Rest
  <2>. QED  BY <2>1, <2>2, AheadInvFrame
<1>8. CASE FireEnd
  <2>1. UNCHANGED <<row, snap, now, swept, settled, passNow, seen, job>> /\ Handling /\ Handling'
    BY <1>8 DEF FireEnd, Handling
  <2>. QED  BY <2>1, AheadInvFrame DEF Waiting
<1>9. CASE FireFails
  <2>1. /\ UNCHANGED <<row, snap, now, swept, settled, passNow, seen>>
        /\ pc = "push" /\ Handling /\ ~Handling' /\ settled /\ job.alarm \in Alarms
        /\ job.key \in Nat /\ <<job.alarm, job.key>> \in seen
    BY <1>9 DEF FireFails, Handling, TypeOK, SchedInv, JobOK
  <2>2. passNow = LastPass /\ Instant(job.alarm, job.key) = passNow
    BY <2>1 DEF PaceInv, SchedInv, JobAheadInv
  <2>3. ASSUME row[job.alarm].state = "on" PROVE Ahead(job.alarm)
    <3>1. row[job.alarm].next = Instant(job.alarm, job.key)
      BY <2>1, <2>3 DEF PushInv
    <3>2. \A k \in Nat : Instant(job.alarm, k) = Instant(job.alarm, job.key) => k = job.key
      BY <2>1, InstantDay
    <3>. QED  BY <1>0, <2>1, <2>2, <3>1, <3>2 DEF Ahead
  <2>4. ASSUME NEW b \in Alarms, row[b].state = "on", ~Waiting(b)' PROVE ~Waiting(b) \/ Ahead(b)'
    BY <2>1, <2>3, <2>4, AheadFrame DEF Waiting
  <2>. QED  BY <2>1, <2>4, AheadInvFrame
<1>10. CASE Disable
  <2>1. /\ UNCHANGED <<snap, now, swept, settled, passNow, seen, job>> /\ Handling /\ Handling'
        /\ row'[job.alarm].state # "on"
        /\ \A c \in Alarms \ {job.alarm} : row'[c] = row[c]
    BY <1>10 DEF Disable, DisableAlarm, Handling, TypeOK, Rows
  <2>. QED  BY <2>1, AheadInvFrame DEF Waiting
<1>11. CASE Persist
  <2>1. PICK a \in Alarms : a = job.alarm
    BY <1>11 DEF Persist, TypeOK
  <2>2. /\ UNCHANGED <<snap, now, swept, settled, passNow, seen>> /\ Handling /\ ~Handling'
        /\ job.next \in Times
        /\ row'[a].state = row[a].state
        /\ row[a].state = "on" => row'[a].next = job.next
        /\ \A c \in Alarms \ {a} : row'[c] = row[c]
    BY <1>11, <2>1 DEF Persist, SetAlarmSchedule, Handling, TypeOK, Rows
  <2>3. passNow = LastPass /\ LastPass' = LastPass /\ (job.next # None => job.next > passNow)
    BY <2>2 DEF PaceInv, SchedInv, JobAheadInv, LastPass
  <2>4. row'[a].state = "on" /\ row'[a].next # None => Ahead(a)'
    BY <1>0, <2>2, <2>3, AheadAfter DEF Times
  <2>5. ASSUME NEW b \in Alarms, b # a, ~Waiting(b)' PROVE ~Waiting(b)
    BY <2>1, <2>2, <2>5 DEF Waiting
  <2>. QED  BY <2>2, <2>4, <2>5, AheadInvFrame
<1>12. CASE Crash
  BY <1>12 DEF Crash, AheadInv
<1>13. ASSUME NEW a \in Alarms, NEW days \in Recurrences, PostAlarm(a, days) PROVE AheadInv'
  <2>1. /\ UNCHANGED <<snap, now, swept, settled, passNow, seen, pc, job>>
        /\ row'[a].next = NextFire(a, days, now)
        /\ \A c \in Alarms \ {a} : row'[c] = row[c]
    BY <1>13 DEF PostAlarm, pass, TypeOK
  <2>2. /\ NextFire(a, days, now) \in Times
        /\ NextFire(a, days, now) # None => NextFire(a, days, now) > now
    BY NextFireType, NextFireLater, InstantDay
  <2>3. LastPass' = LastPass /\ LastPass <= now
    BY <1>0, <2>1 DEF LastPass
  <2>4. row'[a].next # None => Ahead(a)'
    BY <1>0, <2>1, <2>2, <2>3, AheadAfter DEF Times
  <2>. QED  BY <2>1, <2>4, AheadInvFrame DEF Waiting, Handling
<1>14. ASSUME NEW a \in Alarms, DeleteAlarm(a) PROVE AheadInv'
  <2>1. /\ UNCHANGED <<snap, now, swept, settled, passNow, seen, pc, job>>
        /\ row'[a].state = "gone"
        /\ \A c \in Alarms \ {a} : row'[c] = row[c]
    BY <1>14 DEF DeleteAlarm, Absent, pass, TypeOK
  <2>. QED  BY <2>1, AheadInvFrame DEF Waiting, Handling
<1>15. ASSUME NEW t \in 0..MaxTime, ClockStep(t) PROVE FALSE
  BY <1>15 DEF ClockStep, TypeOK
<1>. QED
  BY <1>1, <1>2, <1>3, <1>4, <1>5, <1>6, <1>7, <1>8, <1>9, <1>10, <1>11, <1>12, <1>13, <1>14, <1>15
     DEF Next, Scheduler

\* What a pass has loaded fell due since the one before.
LEMMA LoadedStep ==
    TypeOK /\ SchedInv /\ PaceInv /\ AheadInv /\ LoadedInv /\ [Next]_vars => LoadedInv'
<1>. SUFFICES ASSUME TypeOK, SchedInv, PaceInv, AheadInv, LoadedInv, [Next]_vars PROVE LoadedInv'
  OBVIOUS
<1>1. CASE StartPass
  <2>1. /\ UNCHANGED <<row, settled, seen>> /\ pc = "idle" /\ passNow' = now
        /\ snap' = [x \in {y \in Alarms : row[y].state = "on"} |-> row[x]]
    BY <1>1 DEF StartPass
  <2>2. ASSUME settled, NEW a \in DOMAIN snap', snap'[a].next # None PROVE Loaded(a)'
    <3>1. a \in Alarms /\ row[a].state = "on" /\ snap'[a] = row[a] /\ row[a].next \in Nat
      BY <2>1, <2>2 DEF TypeOK, Rows, Times
    <3>2. Ahead(a)
      BY <2>1, <2>2, <3>1 DEF AheadInv, Waiting, Handling, PaceInv
    <3>3. now \in Nat /\ LastPass >= now - 1 /\ LastPass \in Int
      BY DEF LastPass, TypeOK
    <3>4. row[a].next = now - 1 => row[a].next = LastPass
      BY <3>1, <3>2, <3>3 DEF Ahead
    <3>. QED  BY <2>1, <3>1, <3>2, <3>3, <3>4 DEF Ahead, Loaded, Instant
  <2>. QED  BY <2>1, <2>2 DEF LoadedInv
<1>2. CASE EndPass
  BY <1>2 DEF EndPass, LoadedInv
<1>3. CASE Crash
  BY <1>3 DEF Crash, LoadedInv
<1>4. ASSUME settled' = settled, passNow' = passNow, seen \subseteq seen',
             \A a \in DOMAIN snap' : a \in DOMAIN snap /\ snap'[a] = snap[a]
      PROVE  LoadedInv'
  BY <1>4 DEF LoadedInv, Loaded, Instant
<1>5. ASSUME NEW a \in Alarms, Reschedule(a) \/ NotDue(a) \/ Skip(a) \/ Fire(a) PROVE LoadedInv'
  BY <1>4, <1>5 DEF Reschedule, NotDue, Skip, Fire, Accept, Rest
<1>6. CASE FireEnd \/ FireFails \/ Disable \/ Persist \/ Connect \/ Disconnect \/ ToggleMute
           \/ Restart \/ UNCHANGED vars
  BY <1>4, <1>6 DEF FireEnd, FireFails, Disable, Persist, Connect, Disconnect, ToggleMute, Restart,
     vars, pass
<1>7. CASE Tick \/ \E t \in 0..MaxTime : ClockStep(t)
  <2>1. UNCHANGED <<settled, passNow, snap, seen>>
    BY <1>7 DEF Tick, ClockStep, pass
  <2>. QED  BY <1>4, <2>1
<1>8. CASE \E a \in Alarms : DeleteAlarm(a) \/ \E days \in Recurrences : PostAlarm(a, days)
  BY <1>4, <1>8 DEF DeleteAlarm, PostAlarm, pass
<1>. QED  BY <1>1, <1>2, <1>3, <1>5, <1>6, <1>7, <1>8 DEF Next, Scheduler

\* The row that is handled will move past the pass.
LEMMA JobAheadStep ==
    TypeOK /\ SchedInv /\ LoadedInv /\ JobAheadInv /\ [Next]_vars => JobAheadInv'
<1>. SUFFICES ASSUME TypeOK, SchedInv, LoadedInv, JobAheadInv, [Next]_vars, Handling'
              PROVE  /\ job'.next # None => job'.next > passNow'
                     /\ settled' /\ pc' = "push" => Instant(job.alarm, job.key)' = passNow'
  BY DEF JobAheadInv
<1>1. ASSUME Handling, UNCHANGED <<passNow, settled>>, pc' = "push" => pc = "push",
             job'.alarm = job.alarm, job'.key = job.key, job'.next = job.next
      PROVE  /\ job'.next # None => job'.next > passNow'
             /\ settled' /\ pc' = "push" => Instant(job.alarm, job.key)' = passNow'
  BY <1>1 DEF JobAheadInv, Instant
<1>2. ASSUME NEW a \in Alarms, Skip(a) \/ Fire(a)
      PROVE  /\ job'.next # None => job'.next > passNow'
             /\ settled' /\ pc' = "push" => Instant(job.alarm, job.key)' = passNow'
  <2>. DEFINE key == OccurrenceKey(snap[a].next)
  <2>1. /\ UNCHANGED <<passNow, settled>> /\ pc = "pass" /\ NextRow(a) /\ Due(a)
        /\ pc' = "push" => <<a, key>> \notin seen
        /\ job'.alarm = a /\ job'.key = key
        /\ job'.next = NextFire(a, snap[a].days, Floor(a))
    BY <1>2 DEF Skip, Fire, Job
  <2>2. job'.next # None => job'.next > passNow'
    BY <2>1, JobAhead
  <2>3. /\ key \in Nat /\ snap[a].next = Instant(a, key)
        /\ snap[a].next \in Nat /\ passNow \in Nat /\ snap[a].next <= passNow
    BY <2>1, DueRow
  <2>4. ASSUME settled', pc' = "push" PROVE Instant(a, key) = passNow
    <3>1. Loaded(a)
      BY <2>1, <2>4 DEF LoadedInv, NextRow, Due
    <3>2. snap[a].next # passNow - 1
      BY <2>1, <2>3, <2>4, <3>1 DEF Loaded
    <3>. QED  BY <2>3, <3>1, <3>2 DEF Loaded
  <2>5. Instant(job.alarm, job.key)' = Instant(a, key)
    BY <2>1 DEF Instant
  <2>. QED  BY <2>1, <2>2, <2>4, <2>5
<1>3. CASE FireEnd \/ Disable \/ UNCHANGED vars \/ Connect \/ ToggleMute
           \/ \E a \in Alarms : DeleteAlarm(a) \/ \E days \in Recurrences : PostAlarm(a, days)
  BY <1>1, <1>3 DEF FireEnd, Disable, vars, Connect, ToggleMute, DeleteAlarm, PostAlarm, pass, Handling
<1>4. CASE Tick \/ \E t \in 0..MaxTime : ClockStep(t)
  <2>1. UNCHANGED <<passNow, settled, pc, job>>
    BY <1>4 DEF Tick, ClockStep, pass
  <2>. QED  BY <1>1, <2>1 DEF Handling
<1>5. CASE Disconnect
  BY <1>1, <1>5 DEF Disconnect, Handling, TypeOK
<1>6. CASE FireFails \/ Persist \/ StartPass \/ EndPass \/ Crash \/ Restart
           \/ \E a \in Alarms : Reschedule(a) \/ NotDue(a)
  BY <1>6 DEF FireFails, Persist, StartPass, EndPass, Crash, Restart, Reschedule, NotDue, Handling
<1>. QED  BY <1>2, <1>3, <1>4, <1>5, <1>6 DEF Next, Scheduler

\* Time passes and devices come back, but no occurrence of the past becomes owed.
LEMMA TimelyStep ==
    ASSUME TypeOK, jumps' = jumps, [Next]_vars, NEW a \in Alarms, NEW d \in Nat, Timely(a, d)'
    PROVE  Timely(a, d)
<1>0. Instant(a, d)' = Instant(a, d) /\ Instant(a, d) \in Nat
  BY InstantDay DEF Instant
<1>1. Instant(a, d) > now' \/ (readySince' # None /\ readySince' < Instant(a, d))
  BY <1>0 DEF Timely
<1>2. /\ now' \in {now, now + 1} /\ now \in Nat
      /\ readySince' \in {readySince, None, now}
  <2>1. CASE Connect \/ Disconnect \/ ToggleMute
    BY <2>1 DEF Connect, Disconnect, ToggleMute, TypeOK
  <2>2. CASE Crash \/ Restart \/ FireEnd \/ FireFails \/ Disable \/ Persist \/ StartPass \/ EndPass
             \/ UNCHANGED vars
    BY <2>2 DEF Crash, Restart, FireEnd, FireFails, Disable, Persist, StartPass, EndPass, vars, TypeOK
  <2>3. CASE Tick
    BY <2>3 DEF Tick, TypeOK
  <2>4. CASE \E b \in Alarms : Reschedule(b) \/ NotDue(b) \/ Skip(b) \/ Fire(b)
    BY <2>4 DEF Reschedule, NotDue, Skip, Fire, TypeOK
  <2>5. CASE \E b \in Alarms : DeleteAlarm(b) \/ \E days \in Recurrences : PostAlarm(b, days)
    BY <2>5 DEF DeleteAlarm, PostAlarm, TypeOK
  <2>6. ASSUME NEW t \in 0..MaxTime, ClockStep(t) PROVE FALSE
    BY <2>6 DEF ClockStep, TypeOK
  <2>. QED  BY <2>1, <2>2, <2>3, <2>4, <2>5, <2>6 DEF Next, Scheduler
<1>. QED  BY <1>0, <1>1, <1>2 DEF Timely

\* What is served stays served.
LEMMA ServedStep ==
    ASSUME [Next]_vars, NEW a, NEW d, Served(a, d)
    PROVE  Served(a, d)'
<1>1. rung \subseteq rung' /\ lost \subseteq lost'
  <2>1. CASE FireEnd \/ FireFails
    BY <2>1 DEF FireEnd, FireFails
  <2>2. CASE Connect \/ Disconnect \/ ToggleMute \/ Crash \/ Restart \/ Disable \/ Persist
             \/ StartPass \/ EndPass \/ UNCHANGED vars
    BY <2>2 DEF Connect, Disconnect, ToggleMute, Crash, Restart, Disable, Persist, StartPass,
       EndPass, vars, history
  <2>3. CASE Tick
    BY <2>3 DEF Tick, history
  <2>4. CASE \E b \in Alarms : Reschedule(b) \/ NotDue(b) \/ Skip(b) \/ Fire(b)
    BY <2>4 DEF Reschedule, NotDue, Skip, Fire, history
  <2>5. CASE \E b \in Alarms : DeleteAlarm(b) \/ \E days \in Recurrences : PostAlarm(b, days)
    BY <2>5 DEF DeleteAlarm, PostAlarm, history
  <2>6. CASE \E t \in 0..MaxTime : ClockStep(t)
    BY <2>6 DEF ClockStep, history
  <2>. QED  BY <2>1, <2>2, <2>3, <2>4, <2>5, <2>6 DEF Next, Scheduler
<1>. QED  BY <1>1 DEF Served

\* An occurrence owed stays met by a row that does not change.
LEMMA MetFrame ==
    ASSUME TypeOK, jumps' = jumps, [Next]_vars, OwedInv,
           NEW b \in Alarms, NEW d \in Nat, row'[b] = row[b], Owed(b, d)'
    PROVE  Met(b, d)'
<1>1. Instant(b, d)' = Instant(b, d)
  BY DEF Instant
<1>2. Timely(b, d)
  BY TimelyStep DEF Owed
<1>3. Met(b, d)
  BY <1>1, <1>2 DEF Owed, OwedInv
<1>4. Served(b, d) => Served(b, d)'
  BY ServedStep
<1>. QED  BY <1>1, <1>3, <1>4 DEF Met

\* Every action keeps what is owed met by its row.
LEMMA OwedStep ==
    TypeOK /\ SchedInv /\ OwedInv /\ OwedJobInv /\ jumps' = jumps /\ [Next]_vars => OwedInv'
<1>. SUFFICES ASSUME TypeOK, SchedInv, OwedInv, OwedJobInv, jumps' = jumps, [Next]_vars,
                     NEW b \in Alarms, NEW d \in Nat, Owed(b, d)'
              PROVE  Met(b, d)'
  BY DEF OwedInv
<1>0. /\ Instant(b, d)' = Instant(b, d) /\ Instant(b, d) \in Nat /\ now \in Nat
      /\ Timely(b, d) /\ (Served(b, d) => Served(b, d)')
  BY TimelyStep, ServedStep, InstantDay DEF Owed, Instant, TypeOK
<1>1. CASE row' = row
  BY <1>1, MetFrame
<1>2. ASSUME NEW a \in Alarms, NEW days \in Recurrences, PostAlarm(a, days) PROVE Met(b, d)'
  <2>1. /\ now' = now /\ \A c \in Alarms \ {a} : row'[c] = row[c]
        /\ row'[a].state = "on" /\ row'[a].days = days /\ row'[a].made = now
        /\ row'[a].next = NextFire(a, days, now)
    BY <1>2 DEF PostAlarm, TypeOK
  <2>2. CASE b = a
    <3>1. d \in days /\ Instant(a, d) > now
      BY <1>0, <2>1, <2>2 DEF Owed
    <3>2. NextFire(a, days, now) # None /\ NextFire(a, days, now) <= Instant(a, d)
      BY <3>1, NextFireEarliest
    <3>. QED  BY <1>0, <2>1, <2>2, <3>2 DEF Met
  <2>. QED  BY <2>1, <2>2, MetFrame
<1>3. ASSUME NEW a \in Alarms, DeleteAlarm(a) PROVE Met(b, d)'
  <2>1. row'[a].state = "gone" /\ \A c \in Alarms \ {a} : row'[c] = row[c]
    BY <1>3 DEF DeleteAlarm, Absent, TypeOK
  <2>2. b # a
    BY <2>1 DEF Owed
  <2>. QED  BY <2>1, <2>2, MetFrame
<1>4. ASSUME NEW a \in Alarms, Reschedule(a) PROVE Met(b, d)'
  <2>1. /\ a \in DOMAIN snap /\ snap[a].next = None
        /\ \A c \in Alarms \ {a} : row'[c] = row[c]
        /\ row'[a].state = row[a].state /\ row'[a].days = row[a].days /\ row'[a].made = row[a].made
    BY <1>4 DEF Reschedule, NextRow, SetAlarmSchedule, TypeOK, Rows
  <2>2. CASE b = a
    <3>1. Owed(a, d)
      BY <1>0, <2>1, <2>2 DEF Owed
    <3>2. row[a].next = None
      BY <2>1, <3>1 DEF Owed, SchedInv, SnapOK
    <3>. QED  BY <1>0, <2>2, <3>1, <3>2 DEF OwedInv, Met
  <2>. QED  BY <2>1, <2>2, MetFrame
<1>5. CASE Disable
  <2>1. PICK a \in Alarms : a = job.alarm /\ Handling
    BY <1>5 DEF Disable, TypeOK, Handling
  <2>2. /\ pc = "persist" /\ job.next = None
        /\ \A c \in Alarms \ {a} : row'[c] = row[c]
        /\ row'[a].days = row[a].days /\ row'[a].made = row[a].made
        /\ row[a].state = "gone" => row'[a].state = "gone"
        /\ row[a].state \in {"none", "on", "off", "gone"}
    BY <1>5, <2>1 DEF Disable, DisableAlarm, TypeOK, Rows
  <2>3. CASE b = a
    <3>1. Owed(a, d)
      BY <1>0, <2>1, <2>2, <2>3 DEF Owed, SchedInv, JobOK
    <3>. QED  BY <1>0, <2>1, <2>2, <2>3, <3>1 DEF OwedJobInv, JobMeets, Met
  <2>. QED  BY <2>2, <2>3, MetFrame
<1>6. CASE Persist
  <2>1. PICK a \in Alarms : a = job.alarm /\ Handling
    BY <1>6 DEF Persist, TypeOK, Handling
  <2>2. /\ pc # "push"
        /\ \A c \in Alarms \ {a} : row'[c] = row[c]
        /\ row'[a].state = row[a].state
        /\ row'[a].days = row[a].days /\ row'[a].made = row[a].made
        /\ row[a].state # "gone" => row'[a].next = job.next
    BY <1>6, <2>1 DEF Persist, SetAlarmSchedule, TypeOK, Rows
  <2>3. CASE b = a
    <3>1. Owed(a, d)
      BY <1>0, <2>2, <2>3 DEF Owed
    <3>2. Served(a, d) \/ (job.next # None /\ job.next <= Instant(a, d))
      BY <2>1, <2>2, <3>1 DEF OwedJobInv, JobMeets
    <3>3. Served(a, d) \/ row[a].state = "on"
      BY <3>1 DEF OwedInv, Met
    <3>. QED  BY <1>0, <2>2, <2>3, <3>2, <3>3 DEF Met
  <2>. QED  BY <2>2, <2>3, MetFrame
<1>7. CASE StartPass \/ EndPass \/ FireEnd \/ FireFails \/ Connect \/ Disconnect \/ ToggleMute
           \/ Crash \/ Restart \/ UNCHANGED vars
  BY <1>1, <1>7 DEF StartPass, EndPass, FireEnd, FireFails, Connect, Disconnect, ToggleMute,
     Crash, Restart, vars
<1>8. CASE Tick \/ \E t \in 0..MaxTime : ClockStep(t)
  <2>1. row' = row
    BY <1>8 DEF Tick, ClockStep
  <2>. QED  BY <1>1, <2>1
<1>9. CASE \E a \in Alarms : NotDue(a) \/ Skip(a) \/ Fire(a)
  BY <1>1, <1>9 DEF NotDue, Skip, Fire
<1>. QED
  BY <1>2, <1>3, <1>4, <1>5, <1>6, <1>7, <1>8, <1>9 DEF Next, Scheduler

\* Whichever way a due row is handled, it moves past nothing that is owed.
LEMMA DueMeets ==
    ASSUME TypeOK, SchedInv, PushInv, PaceInv, SeenInv, LoadedInv, OwedInv,
           NEW a \in Alarms, pc = "pass", NextRow(a), Due(a),
           NEW d \in Nat, Owed(a, d), ~Served(a, d)
    PROVE  LET key  == OccurrenceKey(snap[a].next)
               next == NextFire(a, snap[a].days, Floor(a))
           IN  \/ next # None /\ next <= Instant(a, d)
               \/ /\ d = key /\ <<a, key>> \notin seen /\ device = "ready"
                  /\ WithinGrace(snap[a].next, passNow) /\ snap[a].last # key
<1>. DEFINE key == OccurrenceKey(snap[a].next)
            next == NextFire(a, snap[a].days, Floor(a))
<1>1. /\ key \in Nat /\ snap[a].next = Instant(a, key) /\ Instant(a, key) <= passNow
      /\ snap[a].next \in Nat /\ passNow \in Nat /\ now \in Nat /\ passNow <= now
      /\ Instant(a, d) \in Nat /\ \A k \in Nat : snap[a].next = Instant(a, k) => k = key
  BY DueRow, InstantDay DEF TypeOK, PaceInv, LastPass
<1>2. a \in DOMAIN snap /\ row[a] = snap[a] /\ RowOK(snap[a], a) /\ snap[a].next # None
  BY DEF NextRow, Owed, SchedInv, SnapOK, Due
<1>. HIDE DEF key
<1>3. Instant(a, key) <= Instant(a, d)
  BY <1>1, <1>2 DEF OwedInv, Met
<1>4. readySince # None => settled /\ device = "ready"
  BY DEF PaceInv, PushInv
<1>5. settled => Loaded(a)
  BY <1>2 DEF LoadedInv
<1>6. CASE Instant(a, key) < Instant(a, d)
  <2>1. Instant(a, key) + Day <= Instant(a, d)
    BY <1>1, <1>6, DayApart
  <2>2. Instant(a, d) > Floor(a)
    <3>1. CASE WithinGrace(snap[a].next, passNow)
      BY <1>1, <1>6, <3>1 DEF Floor
    <3>2. CASE ~WithinGrace(snap[a].next, passNow)
      <4>1. Floor(a) = passNow
        BY <3>2 DEF Floor
      <4>2. CASE Instant(a, d) > now
        BY <1>1, <4>1, <4>2
      <4>3. CASE readySince # None
        BY <1>1, <1>4, <1>5, <2>1, <4>1, <4>3 DEF Loaded
      <4>. QED  BY <4>2, <4>3 DEF Owed, Timely
    <3>. QED  BY <3>1, <3>2
  <2>3. snap[a].days \in SUBSET Nat /\ d \in snap[a].days
    BY <1>2, DaysType DEF Owed, TypeOK
  <2>. QED  BY <2>2, <2>3, NextFireEarliest
<1>7. CASE Instant(a, key) = Instant(a, d)
  <2>1. d = key
    BY <1>1, <1>7
  <2>2. snap[a].last # key /\ ~(row[a].last # None /\ row[a].last >= key)
    <3>1. PICK e \in Nat : snap[a].next = Instant(a, e) /\ (snap[a].last # None => e > snap[a].last)
      BY <1>2 DEF RowOK
    <3>2. e = key
      BY <1>1, <3>1
    <3>3. snap[a].last \in Times
      BY <1>2 DEF TypeOK, Rows
    <3>. QED  BY <1>1, <1>2, <3>1, <3>2, <3>3 DEF Times
  <2>3. <<a, key>> \notin seen
    BY <1>1, <2>1, <2>2 DEF SeenInv, Served, Owed, Handling
  <2>4. readySince # None
    BY <1>1, <1>7 DEF Owed, Timely
  <2>5. WithinGrace(snap[a].next, passNow)
    <3>1. snap[a].next >= passNow - 1 /\ snap[a].next # passNow - 1
      BY <1>1, <1>4, <1>5, <2>3, <2>4 DEF Loaded
    <3>. QED  BY <1>1, <3>1 DEF WithinGrace
  <2>. QED  BY <1>4, <2>1, <2>2, <2>3, <2>4, <2>5 DEF key
<1>. QED  BY <1>1, <1>3, <1>6, <1>7

\* Every action keeps what is owed met by the job.
LEMMA OwedJobStep ==
    TypeOK /\ SchedInv /\ PushInv /\ PaceInv /\ SeenInv /\ LoadedInv /\ OwedInv /\ OwedJobInv
        /\ jumps' = jumps /\ [Next]_vars => OwedJobInv'
<1>. SUFFICES ASSUME TypeOK, SchedInv, PushInv, PaceInv, SeenInv, LoadedInv, OwedInv, OwedJobInv,
                     jumps' = jumps, [Next]_vars, Handling', NEW d \in Nat
              PROVE  Owed(job.alarm, d)' => JobMeets(d)'
  BY DEF OwedJobInv
<1>1. ASSUME NEW a \in Alarms, Skip(a) \/ Fire(a)
      PROVE  Owed(job.alarm, d)' => JobMeets(d)'
  <2>. DEFINE key == OccurrenceKey(snap[a].next)
              next == NextFire(a, snap[a].days, Floor(a))
  <2>1. /\ UNCHANGED <<row, now, readySince, rung, lost>> /\ pc = "pass" /\ NextRow(a) /\ Due(a)
        /\ job'.alarm = a /\ job'.key = key /\ job'.next = next
    BY <1>1 DEF Skip, Fire, Job, history
  <2>2. Instant(job.alarm, d)' = Instant(a, d)
    BY <2>1 DEF Instant
  <2>3. Owed(job.alarm, d)' => Owed(a, d)
    BY <2>1, <2>2 DEF Owed, Timely
  <2>4. Served(a, d) => JobMeets(d)'
    BY <2>1 DEF Served, JobMeets
  <2>5. ASSUME Owed(a, d), ~Served(a, d)
        PROVE  \/ next # None /\ next <= Instant(a, d)
               \/ d = key /\ pc' = "push" /\ job'.outcome = "ready"
    <3>1. \/ next # None /\ next <= Instant(a, d)
          \/ /\ d = key /\ <<a, key>> \notin seen /\ device = "ready"
             /\ WithinGrace(snap[a].next, passNow) /\ snap[a].last # key
      BY <2>1, <2>5, DueMeets
    <3>. QED  BY <1>1, <3>1 DEF Skip, Fire, Job
  <2>. QED  BY <2>1, <2>2, <2>3, <2>4, <2>5 DEF JobMeets
<1>2. ASSUME Handling, job'.alarm = job.alarm, job'.key = job.key, job'.next = job.next,
             \A c \in Alarms : Owed(c, d)' /\ c = job.alarm => Owed(c, d),
             pc = "push" /\ job.outcome = "ready" /\ Owed(job.alarm, d)' =>
                 \/ d # job.key
                 \/ pc' = "push" /\ job'.outcome = "ready"
                 \/ Served(job.alarm, job.key)'
      PROVE  Owed(job.alarm, d)' => JobMeets(d)'
  <2>1. PICK a \in Alarms : a = job.alarm
    BY <1>2 DEF Handling, TypeOK
  <2>2. Owed(job.alarm, d)' = Owed(a, d)' /\ Instant(job.alarm, d)' = Instant(a, d)
        /\ (Served(job.alarm, d)' <=> Served(a, d)')
    BY <1>2, <2>1 DEF Owed, Instant, Timely, Served
  <2>3. Served(a, d) => Served(a, d)'
    BY ServedStep
  <2>. QED  BY <1>2, <2>1, <2>2, <2>3 DEF OwedJobInv, JobMeets
<1>3. ASSUME Handling, row' = row, job' = job, pc' = pc \/ pc # "push"
      PROVE  Owed(job.alarm, d)' => JobMeets(d)'
  <2>1. \A c \in Alarms : Owed(c, d)' => Owed(c, d)
    BY <1>3, TimelyStep DEF Owed, Instant
  <2>. QED  BY <1>2, <1>3, <2>1
<1>4. CASE UNCHANGED vars \/ Connect \/ ToggleMute
  BY <1>3, <1>4 DEF vars, Connect, ToggleMute, pass, Handling
<1>5. CASE Tick \/ \E t \in 0..MaxTime : ClockStep(t)
  <2>1. UNCHANGED <<row, pc, job>>
    BY <1>5 DEF Tick, ClockStep, pass
  <2>. QED  BY <1>3, <2>1 DEF Handling
<1>6. CASE FireEnd
  <2>1. /\ UNCHANGED <<row, job>> /\ Handling
        /\ job.outcome = "ready" => <<job.alarm, job.key>> \in rung'
    BY <1>6 DEF FireEnd, Handling
  <2>2. \A c \in Alarms : Owed(c, d)' => Owed(c, d)
    BY <2>1, TimelyStep DEF Owed, Instant
  <2>. QED  BY <1>2, <2>1, <2>2 DEF Served
<1>7. CASE Disconnect
  <2>1. /\ UNCHANGED <<row, pc, now, passNow>> /\ Handling /\ readySince' = None
        /\ job'.alarm = job.alarm /\ job'.key = job.key /\ job'.next = job.next
    BY <1>7 DEF Disconnect, Handling, TypeOK
  <2>2. \A c \in Alarms : Owed(c, d)' => Owed(c, d)
    BY <2>1, TimelyStep DEF Owed, Instant
  <2>3. ASSUME Owed(job.alarm, d)' PROVE d # job.key
    <3>1. Instant(job.alarm, d)' = Instant(job.alarm, d)
      BY <2>1 DEF Instant
    <3>2. Instant(job.alarm, d) > now
      BY <2>1, <2>3, <3>1 DEF Owed, Timely
    <3>3. Instant(job.alarm, job.key) <= passNow /\ passNow <= now
      BY <2>1 DEF PushInv, PaceInv, SchedInv, LastPass, TypeOK
    <3>4. passNow \in Nat /\ now \in Nat /\ job.alarm \in Alarms
      BY <2>1 DEF SchedInv, TypeOK, Handling
    <3>5. Instant(job.alarm, d) \in Nat
      BY <3>4, InstantDay
    <3>. QED  BY <3>2, <3>3, <3>4, <3>5
  <2>. QED  BY <1>2, <2>1, <2>2, <2>3
<1>8. CASE Disable
  <2>1. PICK a \in Alarms : a = job.alarm /\ Handling
    BY <1>8 DEF Disable, TypeOK, Handling
  <2>2. /\ pc = "persist" /\ job' = job
        /\ row'[a].days = row[a].days /\ row'[a].made = row[a].made
        /\ row[a].state = "gone" => row'[a].state = "gone"
        /\ row[a].state \in {"none", "on", "off", "gone"} /\ row[a].state # "none"
    BY <1>8, <2>1 DEF Disable, DisableAlarm, TypeOK, Rows, SchedInv, JobOK
  <2>3. Owed(a, d)' => Owed(a, d)
    BY <2>2, TimelyStep DEF Owed, Instant
  <2>. QED  BY <1>2, <2>1, <2>2, <2>3
<1>9. ASSUME NEW a \in Alarms, DeleteAlarm(a) \/ \E days \in Recurrences : PostAlarm(a, days)
      PROVE  Owed(job.alarm, d)' => JobMeets(d)'
  <2>1. PICK c \in Alarms : c = job.alarm /\ Handling /\ job' = job /\ pc' = pc
    BY <1>9 DEF DeleteAlarm, PostAlarm, pass, Handling, TypeOK
  <2>2. Owed(c, d)' => row'[c] = row[c]
    BY <1>9, <2>1 DEF Owed, DeleteAlarm, PostAlarm, Absent, TypeOK, SchedInv, JobOK
  <2>3. Owed(c, d)' => Owed(c, d)
    BY <2>2, TimelyStep DEF Owed, Instant
  <2>. QED  BY <1>2, <2>1, <2>3
<1>10. CASE StartPass \/ EndPass \/ FireFails \/ Persist \/ Crash \/ Restart
            \/ \E a \in Alarms : Reschedule(a) \/ NotDue(a)
  BY <1>10 DEF StartPass, EndPass, FireFails, Persist, Crash, Restart, Reschedule, NotDue, Handling
<1>. QED
  BY <1>1, <1>4, <1>5, <1>6, <1>7, <1>8, <1>9, <1>10 DEF Next, Scheduler

\* The invariant says of an occurrence well past what RingsWhenReady says.
LEMMA ReadyImplies ==
    TypeOK /\ SchedInv /\ PushInv /\ (jumps = 0 => ReadyInv) => RingsWhenReady
<1>. SUFFICES ASSUME TypeOK, SchedInv, PushInv, ReadyInv, NEW a \in Alarms, NEW d \in row[a].days,
                     CouldRing(a, d, 0), ~Served(a, d)
              PROVE  FALSE
  BY DEF RingsWhenReady, Served
<1>. USE DEF ReadyInv, LateInv
<1>1. /\ d \in Nat /\ Instant(a, d) \in Nat /\ now \in Nat /\ row[a].next \in Times
      /\ LastPass >= now - 1 /\ LastPass \in Int
  <2>1. row[a] \in Rows
    BY DEF TypeOK
  <2>2. d \in Nat
    BY <2>1, DaysType
  <2>. QED  BY <2>1, <2>2, InstantDay DEF TypeOK, LastPass, Rows
<1>2. readySince # None /\ readySince < Instant(a, d) /\ now >= Instant(a, d) + Grace + 2
  BY <1>1 DEF CouldRing, TypeOK, Times
<1>3. Owed(a, d)
  BY <1>2 DEF CouldRing, Owed, Timely
<1>4. /\ row[a].state = "on" /\ row[a].next # None /\ row[a].next <= Instant(a, d)
      /\ row[a].next \in Nat
  BY <1>1, <1>3 DEF OwedInv, Met, Times
<1>5. settled
  BY <1>2 DEF PaceInv, PushInv
<1>6. CASE ~Waiting(a)
  BY <1>1, <1>2, <1>4, <1>5, <1>6 DEF AheadInv, Ahead
<1>7. CASE a \in DOMAIN snap
  <2>1. row[a] = snap[a] /\ RowOK(row[a], a) /\ Loaded(a)
    BY <1>4, <1>5, <1>7 DEF SchedInv, SnapOK, LoadedInv
  <2>2. passNow \in Nat /\ passNow = LastPass
    BY <1>7 DEF PaceInv, TypeOK, SchedInv, Handling
  <2>3. row[a].next >= passNow - 1
    BY <2>1 DEF Loaded
  <2>4. row[a].next = Instant(a, d) /\ row[a].next = passNow - 1
    BY <1>1, <1>2, <1>4, <2>2, <2>3
  <2>5. <<a, d>> \in seen
    BY <1>1, <2>1, <2>4 DEF Loaded
  <2>6. ~(row[a].last # None /\ row[a].last >= d)
    <3>1. PICK e \in Nat : row[a].next = Instant(a, e) /\ (row[a].last # None => e > row[a].last)
      BY <1>4, <2>1 DEF RowOK
    <3>2. e = d
      BY <1>1, <2>4, <3>1, InstantDay
    <3>3. row[a].last \in Times
      BY DEF TypeOK, Rows
    <3>. QED  BY <1>1, <3>1, <3>2, <3>3 DEF Times
  <2>7. ~(Handling /\ job.alarm = a)
    BY <1>7 DEF SchedInv, JobOK
  <2>. QED  BY <1>1, <1>4, <2>5, <2>6, <2>7 DEF SeenInv, Served
<1>8. CASE Handling /\ job.alarm = a
  <2>1. JobMeets(d)
    BY <1>1, <1>3, <1>8 DEF OwedJobInv
  <2>2. passNow = LastPass /\ passNow \in Nat
    BY <1>8 DEF PaceInv, SchedInv
  <2>3. job.next # None => job.next > passNow /\ job.next \in Nat
    BY <1>8 DEF JobAheadInv, TypeOK, Times
  <2>4. pc = "push" /\ d = job.key => Instant(a, d) = passNow
    BY <1>5, <1>8 DEF JobAheadInv
  <2>. QED  BY <1>1, <1>2, <1>8, <2>1, <2>2, <2>3, <2>4 DEF JobMeets
<1>. QED  BY <1>6, <1>7, <1>8 DEF Waiting

\* For every table of alarms, every recurrence and every length of day: while
\* the clock runs evenly, an occurrence whose device has been connected and
\* unmuted since before it is rung, or its push raised - through crashes before
\* the device came, late passes, outages and deletions of other alarms.
THEOREM ReadyRings == Spec => []RingsWhenReady
<1>. DEFINE Inv == TypeOK /\ SchedInv /\ PushInv /\ (jumps = 0 => ReadyInv)
<1>1. Init => Inv
  <2>1. Init => PushInv /\ ReadyInv
    BY DEF Init, PushInv, ReadyInv, LateInv, PaceInv, SeenInv, AheadInv, LoadedInv, JobAheadInv,
       OwedInv, OwedJobInv, Owed, Absent, Handling
  <2>. QED  BY <2>1, TypeInit, SchedInit
<1>2. Inv /\ [Next]_vars => Inv'
  <2>. SUFFICES ASSUME Inv, [Next]_vars PROVE Inv'
    OBVIOUS
  <2>1. TypeOK' /\ SchedInv' /\ PushInv'
    BY TypeStep, SchedStep, PushStep
  <2>2. jumps' >= jumps /\ jumps \in Nat
    BY CountersGrow DEF TypeOK
  <2>3. ASSUME jumps' = 0 PROVE ReadyInv'
    <3>1. jumps = 0 /\ jumps' = jumps
      BY <2>1, <2>2, <2>3 DEF TypeOK
    <3>2. ReadyInv
      BY <3>1
    <3>3. PaceInv' /\ SeenInv'
      BY <3>1, <3>2, PaceStep, SeenStep DEF ReadyInv
    <3>4. AheadInv' /\ LoadedInv' /\ JobAheadInv'
      BY <3>1, <3>2, AheadStep, LoadedStep, JobAheadStep DEF ReadyInv, LateInv
    <3>5. OwedInv' /\ OwedJobInv'
      BY <3>1, <3>2, OwedStep, OwedJobStep DEF ReadyInv, LateInv
    <3>. QED  BY <3>3, <3>4, <3>5 DEF ReadyInv, LateInv
  <2>. QED  BY <2>1, <2>3
<1>3. Inv => RingsWhenReady
  BY ReadyImplies
<1>. QED  BY <1>1, <1>2, <1>3, PTL DEF Spec
=============================================================================
