# A formal model of EchoMuse

EchoMuse turns Amazon Echo devices into Home Assistant voice satellites. This
directory holds TLA+ models of its control logic, TLC configurations that check
them on small instances, and TLAPS proofs for every instance.

Paths below are those of the repository: `em_turn_engine.py` is
`src/controller/em_turn_engine.py`, `data.go` is
`src/device/internal/client/data.go`, `assist_satellite.py` and `coordinator.py`
are under `src/hacs/custom_components/echo_voice_satellite/`.

## The system

Four programs.

* The **controller** (Python, one asyncio event loop). One `Device` object per
  connected Echo. Everything runs alone between two awaits; database writes and
  the HTTP API's blocking parts run in executor threads.
* The **device** (Go, one process per Echo). Goroutines for the control socket,
  the data socket, the buttons, the mic stream and the speaker, with mutexes; a
  shell script starts it and falls back to the other binary slot when it does not
  start.
* The **Home Assistant integration** (Python, inside Home Assistant). It accepts or
  rejects offered turns, runs the speech pipeline, and reports speech, transcript,
  answer and the events of timers.
* The **wake-word trainer** (Python, offline, `oww_forge`). It collects assets,
  makes clips, extracts features and trains.

Controller and device share two WebSockets, *control* (JSON) and *data* (audio),
and a third, the shell plane, that the device dials back for a file transfer. Home
Assistant reads an ordered event stream from the controller and answers with HTTP
requests and one audio connection per turn. All of them reconnect by themselves,
and each program keeps running through a restart of another.

| Component | State | Operations | Talks to |
|---|---|---|---|
| Stop word (`em_stop.py`, `_arm_stop`, `stopword/arm.go`) | one arm with a generation on each side | arm, disarm, expire, cross, accept | control socket |
| Voice turns (`em_controller.py`, `em_turn_engine.py`) | voice lock, turn table, `wake_request_id`, barge and cancel flags, routing | admit a wake/button request, grant, run, continue, barge, mute, cancel | device, Home Assistant, announcements |
| Home Assistant's side of a turn (`assist_satellite.py`, `client.py`) | active turn, offer queue, pipeline and speech tasks | offer, attach, accept, pipeline events, end, announce | turn engine, event stream |
| Timer session (`em_timers.py`) | running timers, current, queue, fingerprints | apply event, dismiss, time out, disconnect | - |
| Ringing (`em_timer_alarm.py`, `em_api.py`) | one task per device, its cancel event, the registration for taps | start, stop, burst, dismissals | timer session, stop word, speaker |
| Wall-clock alarms (`em_alarm_scheduler.py`, `em_alarms.py`, `em_db.py`) | rows with next fire and last occurrence | post, delete, pass, fire, persist | ringing |
| Mic stream (`data.go`, `control.go`, `server.go`, `mute.go`) | `micActive`, stop channel, grant and its epoch, mute, connection | start, stop, grant, disarm, mute, connect, stream | voice turns |
| Speaker (`em_controller.py`, `bindings/speaker`) | lease, cancel event, channel, discard-until-EOS | play, cancel, flush, pump, report | turns, ringing |
| Media player (`em_player.py`) | sessions, feeds, pending command, duck | play, pause, resume, stop, interrupt, release | turns, data socket |
| Device link (`em_controller.py`, `em_linkauth.py`, `coordinator.py`) | registry, rows, tokens, configuration | admit, announce, tear down, delete, mint, push | device, Home Assistant |
| Firmware (`em_api.py`, `em_firmware.py`, device start script) | jobs, shell plane, two slots and a link | update, roll back, install helpers, verify, auto-rollback | device |
| Wake models (`em_api.py`, `em_oww_assets.py`, device) | configured, installed and running model, readiness | install, hold back, switch, repair, report | device |
| Captures (`wakeword/capture`, `em_capture_upload.py`, `em_training_captures.py`) | device queues, frames on the wire, store | observe, upload, save, acknowledge, label, delete, export | data and control socket |
| Database (`em_db.py`) | schema, its version, backups | migrate, fix up, back up, downgrade | all of the controller |
| Trainer (`forge.py`, `forge_web.py`) | assets, clips, features, manifest, model | collect, build, extract, train, export, kill | - |

`PROJECT.json` lists these and the parts left out, with what is modelled of each,
and 40 hazards with the line where each bites and the properties that watch it.

### What is hard here

* **State read before an await and used after it.** Admission, barge-in, the
  ringing task, the scheduler, the configuration push and the media player all
  decide, await a push or a socket, and act.
* **Tails.** Finally blocks, done callbacks and exit defers run when the next turn,
  task, stream or connection may already own what they clean up.
* **Two copies of one fact**: the arm on both sides of the socket, mute in hardware
  and in the data client, the queue and the task that rings it, the turn at the
  controller and in Home Assistant, a token in the database and on the device.
* **Restarts of one side only**: generations, epochs, rows and slots outlive a
  process; a migration or a feature extraction is killed between two writes.
* **Timers that race what they guard**: arm expiry, the no-speech deadline, the
  grace window, the ring's safety timeout, the backstop of a lease.

## Modules

`Component.tla` holds a model and its properties, `MCComponent.tla` the model
values, symmetry and function-valued constants of its run, `ComponentProofs.tla`
the theorems; `DeviceProofs` and `PartsProofs` hold those of several components. An
action is what the code does from one await to the next (controller, integration),
one critical section or flag read (device), or one durable write (database,
trainer). Variables are named after the fields they stand
for; `map` in `PROJECT.json` gives the lines of each definition. Definitions named
after a plausible mistake (`FinishesAny`, `StatusReadyAnyModel`, `AppendUnflushed`,
...) are not used by the specifications: substituted for the definition they are a
variant of, they show that a property can fail.

**StopWord** joins `StopState` and the turn and timer handlers that arm
(`ArmStop`, `EndpointAction`/`EndpointArm` with the await of `on_thinking` between
them, `TtsStart`, `TimerCurrent`), the device's `stopword.Manager`, and the control
socket as two FIFO queues that a disconnect empties. The controller learns of a
disconnect later than the device (`NoticeDisconnect`); each side restarts alone. A
generation is an integer seeded from the wall clock in milliseconds, as in
`em_controller.py:314`; at most one arm is made per millisecond.

**VoiceTurn** is one `Device`: requests as tasks with a program counter for each
await of the admission gate, `trigger_voice_turn` and the loop of
`_run_voice_locked`; barge-in through `admit_barge`; mute, cancel button,
readiness, disconnect; the rendezvous with Home Assistant; announcements, which
share the table of turns. `_push_event` loops over the clients of the event stream
with an await in it and raises when one comes or goes meanwhile (`em_api.py:4097`):
`BargeFails`, `OfferFails`, `LoopFails`, `UnwindFails`. A turn whose offer raises
stays in the table for good with the lock released; `stray` is that turn, and
`admit_barge` may take it for the one to cancel (`Older`).

**TurnLife** is what the turn engine promises of turns: voice turns one at a time;
the outcome recorded before the owner of the turn is told that it is over; the first
cause kept, and the outcome that cause unless a handler of the engine writes its
own. Without a mishap a turn is recorded and told exactly once. With one it may be
recorded and told again (`Interrupt`), closed untold, or left open for good (`Fail`).
**HaTurns** is the turn engine's record of a turn together with the satellite: offers
in an ordered, lossy event stream, the handler under `_offer_lock` at each of its
requests, the pipeline with its events, the task that posts the endpoint and the one
that streams speech, cancellation, announcements. Every push may raise, before or
after the event has left, and the task of a voice turn may be cancelled at any await,
the one of its terminal event included, which then is recorded and sent again
(`em_turn_engine.py:864`, `873`). It implements TurnLife with its own faults as the
mishaps, under `phase <- [t \in Turns |-> Phase(t)]`.

**AlarmSession** is `em_timers.AlarmSession`, every operation. **TimerAlarms**
has `TimerAlarmRunner`, delivery of finished timers, the three dismissals, mute and
disconnect on top of it, and implements it: each of its steps is one operation of
the session or none (`ImplementsSession`).

**AlarmScheduler** has the table, the passes (load, fire, push, persist or
disable), the recurrence rules over local days, and a world that crashes the
controller between any two writes, steps the clock, and connects, disconnects and
mutes the device. Firing ends where TimerAlarms begins.

**MicStream** has the controller's turn loop as far as it commands the microphone,
the control and button goroutines, the data connections (of which a control
reconnect leaves two for a while) and the stream goroutines (of which an exiting
one overlaps its replacement). `StopMic`, `StartMic`, `Grant` are the critical
sections; the test of the mute flag before `micMu` is a step of its own. Audio is
reduced to whether the running turn was sent some.

**Speaker** is one playback after another at the controller (lease, cancel event,
drain wait with its backstop), the data socket, and the device's stream: channel,
pump, discard until end-of-stream, flush and the playback report.

**Player** is `em_player`: sessions, their feeds at each await, the commands of the
API, and turns that interrupt or duck, with the deferred command and the automatic
resume; decoder failure, `device_gone` and reconnection.

**DeviceLink** has connections from admission to teardown, the registry and what
Home Assistant was last told, the row with its token, deletion, the installs of
credentials, and the configuration. Nothing serialises any of it: each press of
*Secure link* starts a task and each run of the wizard a request, which reads the
token (`EnsureToken`) and, having found none, mints one over whatever is there by
then (`MintToken`); each POST saves, reads (`ReadSaved`) and pushes what it read
(`ApplyLiveConfig`), and so does a registration. `reminted` and `rolledBack` remember
that such an overlap has done harm. **WakeModels** has the saves of a wake word, the
installation tasks they start, the held-back switch, the repair, and the device's
scorer and its status reports. A task ends each stage at an await: a switch reads the
configuration in the executor (`Installed`), then tests and sends (`Switch`), then
notes the model (`Resume`). A send waits only for room in the socket; the order in
which two waiting ones resume is left open. `overtaken` remembers a push that wrote
what its await had made out of date. Two things are coarser than the code: the three
writes of a device's POST are one step (`WriteDevice`), and Home Assistant's snapshot
reads the rows in the step in which it is sent (`HaConnect`).

**Deploy** has update, rollback and helper jobs, the one shell plane they share,
transfer and verification, the flip of the link, the watch for the new version, and
the supervisor that starts the linked slot or falls back to the other.

**Captures**, **Forge** and **Schema** are the capture upload with its store, the
trainer's data pipeline, and the migrations statement by statement from any
released version.

### How they compose

TimerAlarms extends AlarmSession; HaTurns instantiates TurnLife. The other models
meet at an interface that each takes as environment: VoiceTurn leaves Home
Assistant's answers open and HaTurns the admission; MicStream lets its turn loop
begin and end turns at will; AlarmScheduler stops where TimerAlarms starts; Speaker
takes any cancel. So a property of one holds whatever the other does.

Three runs hold several models that do not interact: a variable `which` (`part` in
MCParts), chosen at the start, picks the one that moves, and a property of one is
about the behaviours in which it moves. They are separate state spaces searched by one run: MCLive
(HaTurns, Speaker), MCParts (Captures, Forge, Schema, HaTurns with two
announcements), MCDeviceLink (WakeModels, and DeviceLink with Home Assistant's event
socket, with the POSTs, or with the installs).

## Runs

| Run | Bounds | Distinct states |
|---|---|---|
| `stop_word` (MCStopWord) | 2 turns and a timer, MaxClock 3, MaxQueue 2, MaxFaults 2 | 2,032,752 |
| `voice_turn` (MCVoiceTurn) | 2 requests, 1 continuation, 1 change (mute, readiness, announcement, cancel by Home Assistant or raising push), 1 request given up by its device | 1,590,434 |
| `timer_alarms` (MCTimerAlarms) | 2 timers, 1 payload variant, control socket and card, 2 ringing tasks, 1 mute, 2 events | 569,962 |
| `alarm_scheduler` (MCAlarmScheduler) | 2 alarms, days of 3 ticks, grace 1, 4 ticks, one each of crash, clock step, failed push, change; deadlock checked | 9,092,101 |
| `alarm_scheduler_live` (MCAlarmScheduler) | 1 alarm, 5 ticks, the same disturbances; deadlock checked | 412,183 |
| `mic_stream` (MCMicStream) | 2 streams, 2 connections, inbox 2, 2 events | 567,163 |
| `player` (MCPlayer) | 3 commands, 2 URLs, 3 feeds, 2 sessions, 1 turn, 1 loss of the device | 692,999 |
| `deploy` (MCDeploy) | 2 jobs, 4 versions of which one does not start, 1 lost connection | 660,006 |
| `live` (MCLive) | HaTurns: a wake turn and its follow-up, 1 fault (lost stream, raising push or cancelled task); Speaker: 2 streams of 2 periods, prime and depth 2, 1 cancel, 1 disconnect | 422,774 |
| `parts` (MCParts) | Captures: 2 wake captures, queue 1, cap 1, 2 events; Forge: one asset, file and folder of each kind, 2 rows, 2 mixes, 1 kill, 1 edit; Schema: databases of versions 11 and 29, 1 fault, 2 boots; HaTurns: a wake turn, two announcements, 2 faults | 1,455,819 |
| `device_link` (MCDeviceLink) | DeviceLink: 2 connections, with Home Assistant, or with 2 POSTs, or with 2 installs and 2 tokens; WakeModels: 2 models, 1 slot, 3 tasks of which 1 may be an upload or deletion | 1,366,035 |
| `schema_way_back` (MCSchema) | databases of versions 11 and 29, 1 fault, 3 boots; a violation is expected | until the violation |

* `stop_word` (`FreshArmsAccepted`, `AcceptedArmWasCrossed`, `NewerArmSurvives`, `NoStopAfterDisarm`): two turns and a ringing timer arm and disarm over a link that breaks while either side restarts: fresh arms are never refused as stale, every accepted stop was spoken against that arm, a disarm never removes a newer arm and no stop is accepted after its disarm.
* `voice_turn` (`OneConversation`, `AnsweredOnce`, `MuteEndsRequestedTurn`, `LockReleased`): two requests with a continuation, barge-in, a disconnect and a mute, readiness change, announcement or push that raises: one conversation at a time with its turn registered (but for one whose offer was not pushed), at most one answer per request, mute ends a requested turn, and the voice lock is always released again, whatever HACS does.
* `timer_alarms` (`ArmDiesWithRing`, `CancelledStaysSilent`, `RingEnds`): two timers with repeated and late events, two ringing tasks, a dismissal from the card racing the device's own, mute and disconnect: the stop-word arm never outlives the ring it belongs to, a cancelled timer never rings, and every ring ends by dismissal, cancellation, disconnect or the safety timeout.
* `alarm_scheduler` (`RingsWhenReady`, `NextPastLast`, `RingsOnce`): two alarms due together, a crash, a failed push, a disconnect or a mute, a step of the wall clock: a connected, unmuted device rings every occurrence, the schedule never falls behind what was handled, and no occurrence rings twice unless both a crash and a clock step come between.
* `alarm_scheduler_live` (`DueAdvances`): a due row is advanced, disabled or deleted in the end, through a crash, a failed push and a clock step.
* `mic_stream` (`StopChannelClosedOnce`, `DeadlineEndsItsTurn`, `SilentGrantEnds`): turns with barge-in, continuation and the button's stop/start pair, mutes, lost connections, control reconnects and recorder deaths at any point: no stop channel is closed twice, a deadline ends only the grant it was armed for, and a grant in which nothing is heard is ended by its deadline as long as the recorder delivers.
* `player` (`LastCommandWins`, `OneFeed`, `SpeechIsAlone`, `OperationsEnd`): three commands over two URLs, a turn that interrupts or ducks, a disconnect, on a device that mixes or does not: the user's last command decides what plays, one feed at a time is on the wire, no music is sent over speech, and every operation ends.
* `deploy` (`Recoverable`, `ShellPlaneFreed`, `JobsEnd`): two jobs (updates, rollbacks, helpers) over the shell plane with a bad release and a lost connection: the device can always start a binary, no lock outlives the jobs, and every job ends.
* `live` (`FlushIsSilent`, `LifeHolds`, `Freed`, `LeaseEnds`): the turns of Home Assistant and the speaker stream, side by side, with a lost event stream, a push that raises or a cancelled task: the satellite's and the controller's records implement the abstract life of a turn (TurnLife) with its liveness, a satellite gives up a turn that is over unless it was not told, a flush is silent at once, and every playback returns its lease.
* `parts` (`KeptOnce`, `OptOutKeepsNothing`, `TrainsOnWhatIsThere`, `EveryQueryRuns`, `BackedUpFirst`, `LifeKept`): four independent parts, one of them moving: uploads are kept exactly once and none survives an opt-out, the trainer trains on the data that is there, migrations from two released versions give every query its columns with a backup taken first, and a voice turn with two announcements, under two faults, keeps the steps of TurnLife.
* `device_link` (`RegisteredIsShown`, `NeverDeletedIsAdmitted`, `ConfigReaches`, `ReadyIsReal`, `FollowsConfig`): two connections of one device with a deletion and, in turn, Home Assistant's event socket, two configuration POSTs, two installs of credentials, or the wake-model tasks of a saved configuration: Home Assistant shows a registered device as connected, an undeleted device is admitted, the saved configuration reaches it, the readiness flag is true and the device follows the configured wake word, with the overlaps that break the last four named.
* `schema_way_back` (`WayBack`): a migration that fails half-way is retried over the half-applied database, and the retry's backup overwrites the only whole copy.

**Why the bounds are enough to be of interest.** Each hazard needs an object and
its successor (two arms, two turns, two rings, two streams, two connections, two
jobs), and one disturbance between two steps of the first. StopWord takes two
faults because a restart on one side matters after a disconnect on the other. The
player's one command slot is used three times, because the shortest way to lose a
command takes a play, a pause and a resume; three feeds and two URLs are what these
can have open. The scheduler's days are short so that an outage spans several of
them. The deployment needs a bad release, a good one and two old versions, so that
both slots can change. WakeModels needs three tasks, one to be overtaken, one that
overtakes and one that settles; an upload or deletion takes the place of one of
them. Two POSTs are what it takes to push an older configuration over a newer, two
installs what it takes to mint twice. Two streams or connections are the most that
can matter to each other: a third would need a second exit as slow as the first. The
theorems below have none of these bounds. Symmetry is used only in runs without liveness properties.

**Deadlock** is reported in both scheduler runs. The other models end when their
bounds on turns, events or faults are used up, which is no deadlock of the code, so
it is switched off there and the liveness properties take its place.

### Fairness

* *Controller* (VoiceTurn, Player, TimerAlarms, AlarmScheduler, Deploy): the event
  loop runs every task whose await is over, and the awaits of these tasks are over
  some day: offers, device starts, turns and transfers have timeouts, playback is
  bounded by its length. So weak fairness of each task, none of the environment.
  The ring's deadline of 120 s is tested after each burst and from then on every
  test finds it passed: strong fairness of "the burst ends with the deadline over",
  which could otherwise be avoided forever only by a clock that stands still. The
  scheduler's restart is the container supervisor's.
* *Turns* (HaTurns): weak fairness of the controller's task for each turn, every
  wait of which has a timer, of the satellite's reader, handler and pipeline tasks,
  and of reopening a lost event stream. Nothing is assumed of what Home Assistant
  does in a pipeline, save that it returns.
* *Speaker*: weak fairness of the controller's playback task alone; its drain wait
  has a backstop, so nothing is asked of the device.
* *Device* (MicStream, Deploy): weak fairness of each goroutine and of the start
  script; strong fairness of the deadline and of the exit of a stream, because
  `select` picks at random among ready channels and cannot forever prefer audio.
* Nothing is assumed of users or the network.

## Proofs

Every theorem is checked by TLAPS with the SMT and Zenon backends and LS4 for the
temporal step, for all values of the constants under the named assumptions. These
say that `None` is not an id, that bounds are naturals, and what the code
guarantees of its inputs: a day is longer than the time between two passes, times
of day lie in it, a recurrence selects some day and the grace window is shorter
than a day (AlarmScheduler); the releases and the two installed binaries are known
versions and those two start (Deploy); an announcement is no voice turn (HaTurns);
whoever commands the player and whoever takes the speaker from it are different
callers (Player); periods, streams and rows are naturals, file names and connections
are numbered from 1, and a controller knows the first so many migrations of the list
(`SpeakerBounds`, `RowsBound`, `CaptureNames`, `KnownBuilds`). A theorem about an
instance is stated of that instance's own specification (`S!Spec` of the speaker,
`C!Spec` of the captures, ...), not of the run that places it beside others.

Each argument is the same: find what the property silently relies on, state it as
an invariant, show that each action keeps it. TLC checked each invariant on a small
instance first.

* `StopWordProofs`: `TypeCorrect`, `FreshArms`, `StopsWereSpoken`, `DisarmIsFinal`,
  `ArmsSurvive`. `FreshArmsAccepted` speaks of the message being handled and is not
  inductive. `GenInv` is: both generations lie below the clock, while the link is up
  the device's is at most the controller's, and the arms in flight carry strictly
  increasing generations between the two. The clock part carries it over a
  controller restart (the new seed is the clock), the "empty when down" part over a
  reconnect. `CrossInv`: every detection in flight or held, and every accepted one,
  is in the set of arms that were crossed. `RetInv` keeps a disarmed generation
  retired, so that no stop is accepted in its name; `SurvInv` orders the disarms
  on the wire before the newer arms.
* `AlarmSchedulerProofs`: `AlarmTypes`, `NeverFallsBehind`, `NeverTwice`,
  `ReadyRings`.
  `NextPastLast` is about rows; `SchedInv` says the same of the snapshot the pass
  holds and of the row being handled, whose next fire was computed before the
  await. The arithmetic is that of `next_fire`: the least selected occurrence
  strictly after a floor. `RingsOnce` allows a second ring only after both a crash
  and a clock step, and is proved from two histories: without a step every ring
  lies before the row's next fire (`EvenInv`), without a crash the scheduler
  remembers what it pushed (`RememberInv`). `RingsWhenReady` needs a pass in every
  unit of time (`PaceInv`), and that a row, in the table or loaded, is at most one
  unit late unless its push raised (`Ahead`, `Loaded`); then an occurrence owed is
  rung, lost, or its row has yet to get to it (`OwedInv`, and `OwedJobInv` for the
  row in hand). With days of one unit it is false: the pass after a failed push
  finds the following occurrence due and skips over it, which is why the assumption
  on `Day` is what it is.
* `MicStreamProofs`: `MicTypes`, `NoStreamLeaks`, `ClosedOnce`, `DeadlineScoped`,
  `DisarmScoped`. `OwnerInv`: the active stream loops with an open channel and a
  closed channel belongs to a stream that has yet to notice; then a new stream meets
  only closed ones, and an exiting stream that is not current was told to stop.
  `DeadlineInv`: a running or just passed deadline was armed for the epoch its
  stream last saw. `OrderInv`: a disarm on the wire precedes the next grant.
* `TimerAlarmsProofs`: `TimerAlarmTypes`, `ImplementsSession`, `QueueIsWellFormed`,
  `CancelledIsSilent`, `ArmDies`. The refinement takes every step of the runner and
  its callers to one operation of AlarmSession; the session's invariant
  (`SessionInv`) is proved of its operations once and carried over. `RunnerInv` adds
  that an arm has a ringing task that will take it down and that whoever waits in
  `stop()` waits for a task.
* `VoiceTurnProofs`: `VoiceTurnTypes`, `OneAtATime`, `OneAnswer`, `MuteEndsTurn`.
  `LockInv` relates the program counters to the one registered turn: a task between
  creating and popping its turn is the only one there, and a turn astray is none's. `AnswerInv` says for each
  point whether the request has been answered and whose answer the loop owes;
  `MuteInv` that a turn that runs on a muted device has been cancelled.
* `PartsProofs`, for the models that the runs `live` and `parts` hold, each by itself:
  * HaTurns: `TurnsTypes`, `LifeIsKept`, `ImplementsLife`, `PipelinesOwn`. The
    refinement of TurnLife, announcements included: each step of the controller is
    one step of the life of turns, a raising push or a cancelled task one of its
    mishaps, and each step of the satellite, the stream and the device is none.
    `EngineInv` adds that a turn which has an outcome and is under way again is in the
    clean-up of an interruption (`Rewritten`). `OfferInv` follows an offer from the
    stream through the queue to the handler; `PipeInv` says that from taking an offer
    until its acceptance no turn is active, whence a pipeline runs only for the active
    turn.
  * Speaker: `FlushesAreSilent`, `DiscardsOnlyTheCut`. `FlushIsSilent` counts what was
    played after a flush; `SilentInv` says why it stays at one. The frames on the way
    are in the order of their streams and the end of a stream behind its periods
    (`InOrder`); every stream with a period under way or on the device is still sent or
    its end is under way (`WillEnd`), so a discard meets the end of what was cut before
    anything of the next stream (`CutIsOver`); of a flushed stream one period is left
    at most: played, in the channel, or in the pump's hand (`OneLeft`). All but the
    types hold only as long as no end was lost, like the properties.
  * Captures: `CapturesAreKept`, `OptOutIsHonoured`. For the first, `KeptInv` relates
    the handlers to the disk: one is between the two files only under the lock, with
    the name it took still its own, and what it acknowledges has been stored or was
    already there; an admin's move or deletion that is half done accounts for a clip
    whose two files are apart. For the second, `CaptureTypes` gives the queues, frames
    and configurations on the wire their types, and `OptOutInv` follows a clip
    committed for an opted-out device to the handler that will look at the setting
    again and discard it.
  * Forge: `TrainingReadsWhatIsThere`, from `FreshInv` (what a build is about
    to copy is made of the clips it linked, and the arrays are what the manifest says
    unless a build is replacing them) and `CorpusInv` (what is appended is there before
    it is counted, and a job that appends, resumed or not, counts no row that is not
    there). `FreshFeatures` excludes two windows, named in Forge; so does the theorem.
  * Schema: `CopiedBeforeTouched`. `BackupInv` says for each stage of a start that the
    database is the one found until the scripts run, and that they run only with the
    copy written, skipped by the operator, or needless since there was nothing yet.
* `DeviceProofs`: `DeviceLinkTypes`, `RegisteredDevicesAreShown`,
  `NeverDeletedDevicesAreAdmitted`, `SavedConfigReaches` about the connection, and
  `PlayerTypes`, `OneFeedAtATime`, `SpeechHasTheSpeaker`, `LastCommandDecides` about
  the player, `ReadinessIsReal` and `ConfigIsFollowed` about the wake models: one
  module for what the controller keeps of one device, although no proof relates the
  three. `ShownInv`: the registry has one entry, and a registered
  connection past its announcement has a row. `AdmittedInv`: until a deletion, and until a mint
  wrote over another, every copy of a token is the one on record: the file, the one a
  dial carries and those being installed (`OneToken`). `ReachesInv`: at most one
  connection is open, and one that was dialled (`OneLink`); no read is of a version
  yet to be saved (`Versions`); and what a served connection runs is what is saved,
  unless an older version was pushed over it, or a POST that saved or read later is
  still to push (`Reached`).
  The player's invariant, `PlayInv`, holds while no two operations have overlapped:
  one operation at a time is at the session (`CallersInv`); a feed that sends is the
  session's task or one just taken away, not yet cancelled (`FeedInv`); the session
  records who owns the speaker and whether it was ducked or paused for them
  (`OwnInv`); the last command is recorded, under way, deferred or shown
  (`WantInv`). `Effect` says once what any operation leaves of caller, feeds and
  session, and each action is an instance.
  `ReadyInv`: the last report on its way to the controller is about what the device
  scores or, while a push waits on its send, about what it will (`SentUnanswered`), so
  that a readiness believed in with nothing under way is about the model in force.
  `FollowInv`: whenever the model the controller has put a connected device on is not
  the configured one, a task is under way that will see to it (`Will`: a save, an
  install, a registration or a switch that has not noted its model), a transfer has
  failed, or a push wrote what was out of date; and a switch is sent for the model its
  read found configured (`SwitchSeen`).
* `DeployProofs`: `DeployTypes`, `AlwaysRecoverable`, `PlaneIsFreed`. `RunInv`: a
  running device runs a good binary, and each job that has read the active slot in
  a session that still lives relies on a link nobody else has moved.
  `PlaneInv`: lock, future and session of the shell plane belong to a job in a
  session, although a job's clean-up may release another's.

**Only model-checked.** Liveness (`LockReleased`, `RingEnds`, `DueAdvances`,
`SilentGrantEnds`, `OperationsEnd`, `JobsEnd`, `Freed`, `LeaseEnds` and TurnLife's):
fairness and `ENABLED` are outside the prover. `EveryQueryRuns` compares
the columns that 29 written-out scripts leave with those that the queries name: its
proof would be the evaluation of that list, statement by statement, which is what TLC
does. Every other invariant and action property that a run checks is stated by a
theorem.

The proofs corrected the model in two places. `Manager.Ack` removes the first capture
with the acknowledged id, where Captures removed all of them; and a device applies the
wake settings of a configuration before the stop settings, where Captures took the
order as open.

## Finding

`schema_way_back`. `_backup_before_migrating` promises a way back to the release
before. `executescript` commits what it ran before a failing statement while
`schema_version` keeps its value; the next start backs the half-migrated database
up over the good copy (`em_db.py:1157`).

## Statements the code does not keep

These are stated in the modules too, each with the comment or docstring it is
taken from; TLC refutes them. To see the trace, put the name under INVARIANT (or
PROPERTY, where it is an action or temporal formula) in the module's configuration,
with the bound given here if it is not the configuration's own; in the runs
of several models, define it in the MC module as there (`X == S!SelfHeals`). The properties the
runs check are what remains true.

| Module | Statement | What happens |
|---|---|---|
| StopWord | `ArmForActiveTurn` | the endpoint action awaits `on_thinking` and then arms for a turn that ended meanwhile (`em_turn_engine.py:372`) |
| VoiceTurn | `EveryTurnHasItsLoop` | the push of an offer raises: only a cancellation is caught there, so the turn stays registered with no task to end it (`em_api.py:4097`, `em_turn_engine.py:802`) |
| VoiceTurn | `IdleDeviceAdmits` | `admit_barge` cancels the running turn, awaits the pushes and only then sets the flags the loop tests; if the loop has left, every later request is refused as busy (`em_turn_engine.py:1017`) |
| VoiceTurn | `RoutedWhileTurnRuns` | the finished wake task clears `oww_paused` of the next turn (`em_controller.py:2088`) |
| VoiceTurn | `AnswerNotSilenced` | a `cancel_event` left by a button press or mute with no turn silences the next answer (`em_controller.py:1764`, `2422`) |
| VoiceTurn | `MuteTerminatesTurn` | a mute between the turns of a conversation finds nothing to cancel and the continuation runs (`em_controller.py:2423`) |
| VoiceTurn | `BargeEndsConversation` | admission cancels the first registered turn, which may be an announcement (`em_turn_engine.py:985`) |
| TimerAlarms | `NoSilentRinging` (MaxEvents 3) | `start` takes any task that is not done for one that will look at the queue again (`em_timer_alarm.py:58`) |
| TimerAlarms | `TapReachesRing` (MaxEvents 3) | an old task's callback removes the new task's registration (`em_timer_alarm.py:67`) |
| TimerAlarms | `StopDismissesItsAlarm` (MaxEvents 3) | a late stop dismisses whatever rings now (`em_api.py:5272`) |
| AlarmScheduler | `GraceCoversReconnect` | an occurrence fired while the device is away is used up; a reconnect in the grace window does not ring (`em_alarm_scheduler.py:95`, against `em_alarms.py:33-34`) |
| AlarmScheduler | `FailedPushStillRings` | a push that raises after the session accepted the occurrence loses it (`em_api.py:4097`) |
| AlarmScheduler | `DeletedStaysSilent` | an alarm deleted during a pass rings from the loaded rows (`em_alarm_scheduler.py:70`) |
| MicStream | `GrantedForATurn` | the `mic_start` that ends every turn finds the wake stream running and is taken for a grant (`data.go:600`) |
| MicStream | `MutedIsSilent` | `StartMic` passes its mute test, the mute stops nothing, the stream starts (`data.go:594`) |
| MicStream | `StreamWhileConnected` | a new connection finds the old one's stream active and starts none; the old connection's exit then stops it (`data.go:600`, `734`) |
| HaTurns | `AnnounceFreed` (Announces {a1}) | an announcement whose end is not heard of leaves the satellite occupied (`assist_satellite.py:491`) |
| HaTurns | `Resolved` | a pipeline that ends while its endpoint request is under way leaves the controller waiting for its timer (`assist_satellite.py:559`) |
| Player | `PauseSurvivesTurn` | a pause that awaits its flush is taken by a turn for its own to resume (`em_player.py:306`) |
| Player | `OneFeedAlways` | two plays that overlap in `stop()` leave two feeds on the wire (`em_player.py:438`) |
| Player | `AnnouncedIsTrue` | a resume or pause of nothing is announced and never taken back (`em_player.py:524`) |
| Speaker | `FalseIsDeviceTruth` | a flush that found nothing playing leaves an end-of-stream pending, and the device reports the next playback played when its buffer first runs dry (`em_controller.py:1775`) |
| Speaker | `SelfHeals` | the cut stream's own end-of-stream comes late, and until then the device discards the next stream too (`stream.go:189`) |
| Speaker | `SpeakingRetired` | a cancelled ring gives its lease back with the flag still set (`em_controller.py`, `playback`) |
| DeviceLink | `NoRollback` | a poll that was read before an event is applied after it (`coordinator.py:177`) |
| DeviceLink | `AlwaysAdmitted` | two presses of *Secure link* find no token and mint one each; the device installs the one that is no longer on record and is refused (`em_db.py:1377`, `em_api.py:3695`) |
| DeviceLink | `DeletedComesBack` | a deleted device that comes back with its old token after a new one was minted is refused for good, not pending (`em_controller.py:1857`) |
| DeviceLink | `ConfigConverges` | two POSTs, or a POST and a registration, push in the other order than they read: the device stays on the older configuration (`em_api.py:1874`, `3992`, `em_controller.py:2246`) |
| DeviceLink | `LiveIsRegistered`, `NoGhost`, `GoneIsShown` | stronger forms of `RegisteredIsShown`: the registry and what Home Assistant is shown can each be wrong while two connections of one device overlap |
| WakeModels | `SwitchIsCurrent` | a save back to the running model falls between the switch's read and its send; it needs no install, and the switch leaves the device on the abandoned model (`em_api.py:4558`) |
| WakeModels | `ToldWhenInstalled` | a model the store no longer has is a warning; the synchronisation has nothing to send, succeeds, and the device is switched to it (`em_api.py:4648`) |
| WakeModels | `ReadyIsThoseBytes` | the report gives the checksum of the file, not of what the scorer loaded (`em_controller.py:2095`) |
| Deploy | `SessionsSequential` | the dashboard's terminal takes over the session of a running job (`em_api.py:2749`) |
| Deploy | `RolledBackRunsOld` | the watch gives up before the device is back, and it comes back on the update's version (`em_api.py:2593`) |
| Captures | `StopUploadsDrain` (StopCaps {s1}) | the acknowledgement of a stop-word capture asks the wake manager only, so it stays queued (`data.go:410`) |
| Captures | `DeletedLeavesNoSpeech` | an upload that is being saved, or a handler still connected, saves after the deletion (`em_training_captures.py:623`) |
| Forge | `FreshAlways` | an import that found no job takes effect while one augments, and its clips count as current (`forge.py:747`) |
| Forge | `ReportIsTrue` | an evaluation without its warning may be of a model trained on older clips |
| Forge | `PresentIsWhole` | an extraction interrupted half way counts as present |
| Schema | `FixupsKept` | the script commits its new version before the fixup runs; a crash between them loses the fixup, which "runs inside the same transaction as its DDL" (`em_db.py:1219`) |

Smaller observations: with `NextPastLast` proved, the scheduler's
`last_fired != occurrence` guard never decides anything. An enabled one-off with a
past date is stored with no next fire and stays enabled. A crash between ring and
write does not ring twice because the first pass after boot precedes the device
listeners, not because of the write order. With barge-in off a continuation gets a
fresh stream without a grant and hears nothing. Two mute toggles at once can leave
the data client's mirror and the hardware different. A volume saved
while another POST is under way can be lost (`em_controller.py:2443`).

## Not modelled

Audio (DSP, the wake-word scorer, echo cancellation) and Sendspin's clock
filtering: numeric, out of TLC's reach. Recordings and support bundles: file I/O.
Users, dashboard sessions and ingress: request and response. Daylight saving:
`em_alarms._resolve_local` needs a time-zone database. Wake arbitration appears in
VoiceTurn as an outcome that may go either way. The tap-burst decision table, the
run barrier, volume and LEDs, Bluetooth forwarding and discovery are small or
stateless. The Wi-Fi change is not modelled yet. A configured deadline of 0 and the
preroll replay are outside MicStream; the music stream and mixing are outside
Speaker; training itself is one step of Forge; downloading a release is outside
Deploy.

## Plan

Next modules, each with its invariants proved as those above: **WakeArbiter** (two
devices and one utterance; VoiceTurn's nondeterministic loss becomes its
abstraction), **WifiChange** (commit or roll back, over a crash), dashboard test turns and button gestures in VoiceTurn, the music
stream in Speaker.
