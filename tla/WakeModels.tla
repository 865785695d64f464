----------------------------- MODULE WakeModels -----------------------------
(* Which wake word one device runs: the layered configuration, its pushes,   *)
(* the installation of the classifier a push needs, and the device's report  *)
(* (src/controller/em_api.py, em_oww_assets.py, em_config_sections.py,       *)
(* em_db.py, handle_control; the device side is cmd/server.go).              *)
(*                                                                           *)
(* The configuration is reduced to the wake model, in the fleet layer and in *)
(* the device's own; every other setting travels in the same push.  A task   *)
(* is a request handler, the registration of a connection, or a background   *)
(* install or repair; each stage ends where the code awaits, a send to the   *)
(* device included: it may wait for room in the socket.  A shell transfer    *)
(* succeeds or fails as a whole.                                             *)
EXTENDS Naturals, Sequences, FiniteSets, SequencesExt

CONSTANTS Models,     \* wake models
          Default,    \* DEFAULT_WAKE_MODEL
          Slots,      \* CLASSIFIER_SLOTS: the selected one and the leftovers that are kept
          MaxTasks,   \* bound: the tasks of the run, and its edits with them
          MaxEdits,   \* bound: uploads and deletions of models
          None

VARIABLES
    fleet,      \* owwModel of the fleet configuration
    own,        \* owwModel stored for the device
    scoped,     \* the device overrides the wake section
    store,      \* models the controller can supply, with the revision of their bytes
    files,      \* classifiers on the device, newest first
    fileRev,    \* the revision of each of them
    connected,
    live,       \* live.oww_model
    ready,      \* live.oww_model_ready
    down,       \* configuration pushes on their way to the device
    up,         \* wake_status messages on their way back
    scorer,     \* the model the device scores, None without a detector
    loaded,     \* the revision it loaded
    task,
    edits,
    overtaken,  \* history: a push wrote what an await had made out of date
    crossed,    \* history: a report was judged while a push waited on its send
    failed      \* an install or a repair failed since the last registration

settings == <<fleet, own, scoped>>
channel == <<connected, live, ready, down, up>>
device == <<files, fileRev, scorer, loaded>>
history == <<overtaken, crossed, failed>>
vars == <<settings, store, channel, device, task, edits, history>>

Tasks == 1..MaxTasks
Revs == 0..MaxEdits
Scopes == {"keep", "on", "off"}
NoTask == [kind |-> "none", at |-> "none", model |-> None, seen |-> None, scope |-> "keep", stale |-> FALSE, push |-> {}, prune |-> {}]

TypeOK ==
    /\ fleet \in Models /\ own \in Models \cup {None} /\ scoped \in BOOLEAN
    /\ store \in [Models -> Revs \cup {None}] /\ fileRev \in [Models -> Revs]
    /\ files \in Seq(Models) /\ IsInjective(files)
    /\ connected \in BOOLEAN /\ live \in Models /\ ready \in BOOLEAN
    /\ ToSet(down) \subseteq Models
    /\ \A m \in ToSet(up) : m \in [model : Models, ok : BOOLEAN, rev : Revs]
    /\ scorer \in Models \cup {None} /\ loaded \in Revs /\ edits \in 0..MaxEdits
    /\ \A t \in Tasks :
          /\ task[t].kind \in {"none", "device", "fleet", "register", "install", "repair"}
          /\ task[t].at \in {"none", "write", "read", "apply", "plan", "sync", "done", "switch", "sent", "end"}
          /\ task[t].push \cup task[t].prune \subseteq Models /\ {task[t].model, task[t].seen} \subseteq Models \cup {None}

\* the database, as em_config_sections.merge layers it
Merge(f, o, s) == IF s /\ o # None THEN o ELSE f
Effective == Merge(fleet, own, scoped)
Supplied(m) == store[m] # None

Init ==
    /\ fleet = Default /\ own = None /\ scoped = FALSE
    /\ store = [m \in Models |-> 0] /\ fileRev = [m \in Models |-> 0]
    /\ files = <<Default>> /\ scorer = Default /\ loaded = 0
    /\ connected = TRUE /\ live = Default /\ ready = TRUE /\ down = <<>> /\ up = <<>>
    /\ task = [t \in Tasks |-> NoTask] /\ edits = 0 /\ overtaken = FALSE /\ crossed = FALSE
    /\ failed = FALSE

----------------------------------------------------------------------------
(* Tasks. *)

\* the tasks are started in their order
Free(t) == t + edits <= MaxTasks /\ \A u \in Tasks : task[u].kind = "none" <=> u >= t
Room == \E t \in Tasks : Free(t)
Start(t, k, a, m) == [NoTask EXCEPT !.kind = k, !.at = a, !.model = m]
At(t, a) == task[t].at = a
Goto(t, a) == task' = [task EXCEPT ![t].at = a]

\* POST /devices/{id}/config: the new scoping comes with the body or is read
PostDevice(t, m, s) ==
    /\ Free(t)
    /\ task' = [task EXCEPT ![t] = [Start(t, "device", "write", m) EXCEPT
                   !.scope = IF s = "keep" /\ ~scoped THEN "ignore" ELSE s]]
    /\ UNCHANGED <<settings, store, channel, device, edits, history>>

\* the scoping is stored first and prunes what leaves scope; then the values in scope
WriteDevice(t) ==
    /\ At(t, "write") /\ task[t].kind = "device"
    /\ scoped' = CASE task[t].scope = "on" -> TRUE [] task[t].scope = "off" -> FALSE [] OTHER -> scoped
    /\ own' = CASE task[t].scope = "off" -> None [] task[t].scope = "ignore" -> own [] OTHER -> task[t].model
    /\ Goto(t, "read")
    /\ UNCHANGED <<fleet, store, channel, device, edits, history>>

\* POST /global/config replaces the fleet layer and lists the connections, then
\* reads and pushes for each; an uploaded stop model is stored beside it and pushes
\* every device the same way
PostFleet(t, m) ==
    /\ Free(t)
    /\ fleet' = m
    /\ task' = [task EXCEPT ![t] = Start(t, "fleet", IF connected THEN "read" ELSE "end", m)]
    /\ UNCHANGED <<own, scoped, store, channel, device, edits, history>>

UploadStop(t) == PostFleet(t, fleet)

\* a handler, or a registration, reads what it will push
ReadEffective(t) ==
    /\ At(t, "read")
    /\ task' = [task EXCEPT ![t].model = Effective, ![t].at = "apply"]
    /\ UNCHANGED <<settings, store, channel, device, edits, history>>

\* _apply_live_config: a new model is held back until it is installed, the device is
\* told the one it runs.  The device's own POST looks the connection up here; one the
\* fleet's has listed may be gone, with the model it had, and the send be lost.
Apply(t) ==
    /\ At(t, "apply") /\ task[t].kind \in {"device", "fleet"}
    /\ IF task[t].kind = "fleet" /\ task[t].stale THEN Goto(t, "sent") /\ UNCHANGED down
       ELSE IF ~connected THEN Goto(t, "end") /\ UNCHANGED down
       ELSE /\ down' = Append(down, live)
            /\ task' = [task EXCEPT ![t].at = "sent", ![t].seen = live, ![t].stale = FALSE]
    /\ UNCHANGED <<settings, store, connected, live, ready, up, device, edits, history>>

\* what a push that was sent notes in the connection it had
Note(t) == IF task[t].kind \in {"device", "fleet"} THEN task[t].seen ELSE task[t].model

\* it wrote what was out of date: a switch, a model that was no longer configured
\* when it was tested or is not now; a POST, the model a switch has replaced
Late(t) == IF task[t].kind = "install" THEN task[t].seen # Effective ELSE live' # live

\* the send has returned: the model is noted, and what was held back is installed
Resume(t) ==
    /\ At(t, "sent")
    /\ live' = IF task[t].stale THEN live ELSE Note(t)
    /\ LET registers == task[t].kind = "register" /\ ~task[t].stale
           held == task[t].kind \in {"device", "fleet"} /\ task[t].model # task[t].seen
           next(i) == IF registers THEN Start(i, "repair", "plan", Effective)
                                   ELSE Start(i, "install", "plan", task[t].model)
       IN  /\ IF registers \/ held
              THEN \E i \in Tasks : Free(i) /\ task' = [task EXCEPT ![t].at = "end", ![i] = next(i)]
              ELSE Goto(t, "end")
           /\ overtaken' = IF registers THEN live' # Effective
                           ELSE overtaken \/ (~task[t].stale /\ Late(t))
           /\ failed' = (failed /\ ~registers)
    /\ UNCHANGED <<settings, store, connected, ready, down, up, device, edits, crossed>>

----------------------------------------------------------------------------
(* Connections. *)

\* The live object is there, with the default model, before its configuration is read
Register(t) ==
    /\ ~connected /\ Free(t)
    /\ connected' = TRUE /\ live' = Default /\ ready' = FALSE
    /\ crossed' = FALSE
    /\ task' = [task EXCEPT ![t] = Start(t, "register", "read", None)]
    /\ UNCHANGED <<settings, store, down, up, device, edits, overtaken, failed>>

\* the whole configuration goes out, nothing is held back; a repair follows
RegisterPush(t) ==
    /\ At(t, "apply") /\ task[t].kind = "register"
    /\ IF task[t].stale
       THEN Goto(t, "end") /\ UNCHANGED down
       ELSE down' = Append(down, task[t].model) /\ Goto(t, "sent")
    /\ UNCHANGED <<settings, store, connected, live, ready, up, device, edits, history>>

\* the model a task last saw of the connection that is lost: the fleet's POST has
\* listed it and not pushed to it yet
LastSeen(t) ==
    IF task[t].kind = "fleet" /\ task[t].at \in {"read", "apply"} /\ ~task[t].stale THEN live ELSE task[t].seen
Lost(t) == [task[t] EXCEPT !.stale = TRUE, !.seen = LastSeen(t)]

\* the connection is lost, the device may have restarted
Disconnect ==
    /\ connected
    /\ connected' = FALSE /\ down' = <<>> /\ up' = <<>>
    /\ task' = [t \in Tasks |-> Lost(t)]
    /\ scorer' \in {scorer, None}
    /\ UNCHANGED <<settings, store, live, ready, files, fileRev, loaded, edits, history>>

----------------------------------------------------------------------------
(* Assets: plan, transfer, prune. *)

Holds(m) == m \in ToSet(files)
Outdated(m) == ~Holds(m) \/ fileRev[m] # store[m]

\* plan_sync: what to send of the wanted model, and which leftovers to delete -
\* the oldest ones beyond the slots that the selected model leaves
ToPush(w) == {m \in {w} : Supplied(m) /\ Outdated(m)}
Extras(w) == SelectSeq(files, LAMBDA m : ~(m = w /\ Supplied(w)))
Leftover(w) == Slots - (IF Supplied(w) THEN 1 ELSE 0)
ToPrune(w) == {Extras(w)[i] : i \in {n \in 1..Len(Extras(w)) : n > Leftover(w)}}

\* The device's inventory, against the models wanted now.  Nothing to do is
\* success at once.  A repair first decides whether the selected classifier is
\* missing, and stands the detector down if it is.
Plan(t) ==
    /\ At(t, "plan")
    /\ IF ~connected \/ (task[t].stale /\ task[t].kind = "repair")
       THEN Goto(t, "end") /\ UNCHANGED ready
       ELSE LET w == Effective
                push == ToPush(w)
                prune == ToPrune(w)
                repair == task[t].kind = "repair"
            IN  /\ task' = [task EXCEPT ![t].push = push, ![t].prune = prune, ![t].stale = FALSE,
                              ![t].at = IF repair /\ push = {} THEN "end"
                                        ELSE IF push \cup prune = {} THEN "done" ELSE "sync"]
                /\ ready' = (ready /\ ~(repair /\ push # {}))
    /\ UNCHANGED <<settings, store, connected, live, down, up, device, edits, history>>

KeptDoubled(t) == SelectSeq(files, LAMBDA m : m \notin task[t].prune)
Kept(t) == SelectSeq(files, LAMBDA m : m \notin task[t].push \cup task[t].prune)

\* every file was verified and renamed into place, the leftovers removed, the
\* selected classifier touched
Synced(t) ==
    /\ At(t, "sync") /\ connected /\ ~task[t].stale
    /\ task[t].push \subseteq {m \in Models : Supplied(m)}
    /\ files' = SetToSeq(task[t].push) \o Kept(t)
    /\ fileRev' = [m \in Models |-> IF m \in task[t].push THEN store[m] ELSE fileRev[m]]
    /\ Goto(t, "done")
    /\ UNCHANGED <<settings, store, channel, scorer, loaded, edits, history>>

\* a transfer failed, no space, the file vanished from the store
SyncFails(t) ==
    /\ At(t, "sync")
    /\ failed' = TRUE
    /\ Goto(t, "end")
    /\ UNCHANGED <<settings, store, channel, device, edits, overtaken, crossed>>

\* _install_then_switch: the connection there is now, and the configuration, read in
\* the executor ...
Installed(t) ==
    /\ At(t, "done") /\ task[t].kind = "install"
    /\ task' = IF connected THEN [task EXCEPT ![t].at = "switch", ![t].seen = Effective, ![t].stale = FALSE]
                            ELSE [task EXCEPT ![t].at = "end"]
    /\ UNCHANGED <<settings, store, channel, device, edits, history>>

\* ... and, unless that read shows another save, which owns the outcome, the switch
WantedAtStart(t) == task[t].model # None
StillWanted(t) == task[t].seen = task[t].model
Switch(t) ==
    /\ At(t, "switch")
    /\ IF StillWanted(t)
       THEN Goto(t, "sent") /\ down' = IF task[t].stale THEN down ELSE Append(down, task[t].model)
       ELSE Goto(t, "end") /\ UNCHANGED down
    /\ UNCHANGED <<settings, store, connected, live, ready, up, device, edits, history>>

\* reconcile_oww_assets sends the configuration it read before the transfer
Repaired(t) ==
    /\ At(t, "done") /\ task[t].kind = "repair"
    /\ IF connected
       THEN down' = Append(down, task[t].model) /\ overtaken' = (overtaken \/ task[t].model # Effective)
       ELSE UNCHANGED <<down, overtaken>>
    /\ Goto(t, "end")
    /\ UNCHANGED <<settings, store, connected, live, ready, up, device, edits, crossed, failed>>

----------------------------------------------------------------------------
(* The administrator's model files. *)

Upload(m) ==
    /\ edits < MaxEdits /\ edits' = edits + 1 /\ Room
    /\ store' = [store EXCEPT ![m] = edits']
    /\ UNCHANGED <<settings, channel, device, task, history>>

\* refused while a configuration names the model
InUse(m) == m \in {fleet, own}
DeleteModel(m) ==
    /\ edits < MaxEdits /\ edits' = edits + 1 /\ Room
    /\ Supplied(m) /\ ~InUse(m)
    /\ store' = [store EXCEPT ![m] = None]
    /\ UNCHANGED <<settings, channel, device, task, history>>

----------------------------------------------------------------------------
(* The device. *)

\* applyWakeConfig: a scorer that runs the model already is kept; the report
\* carries the checksum of the file, read now
DeviceApplies ==
    /\ down # <<>>
    /\ down' = Tail(down)
    /\ LET m == Head(down)
           runs == scorer = m
       IN  /\ scorer' = IF runs \/ Holds(m) THEN m ELSE None
           /\ loaded' = IF runs \/ ~Holds(m) THEN loaded ELSE fileRev[m]
           /\ up' = Append(up, [model |-> m, ok |-> runs \/ Holds(m), rev |-> fileRev[m]])
    /\ UNCHANGED <<settings, store, connected, live, ready, files, fileRev, task, edits, history>>

\* _wake_status_ready: only the selected classifier's bytes count
StatusReadyAnyModel(s) == s.ok /\ Supplied(s.model) /\ s.rev = store[s.model]
StatusReady(s) == s.ok /\ s.model = live /\ Supplied(s.model) /\ s.rev = store[s.model]
WakeStatus ==
    /\ up # <<>>
    /\ up' = Tail(up)
    /\ ready' = StatusReady(Head(up))
    /\ crossed' = (crossed \/ \E t \in Tasks : At(t, "sent") /\ ~task[t].stale)
    /\ UNCHANGED <<settings, store, connected, live, down, device, task, edits, overtaken, failed>>

TaskStep(t) ==
    \/ WriteDevice(t) \/ ReadEffective(t) \/ Apply(t) \/ RegisterPush(t) \/ Resume(t)
    \/ Plan(t) \/ Synced(t) \/ SyncFails(t) \/ Installed(t) \/ Switch(t) \/ Repaired(t)

Next ==
    \/ \E t \in Tasks :
          \/ \E m \in Models : PostFleet(t, m) \/ (\E s \in Scopes : PostDevice(t, m, s))
          \/ UploadStop(t)
          \/ Register(t)
          \/ TaskStep(t)
    \/ Disconnect
    \/ \E m \in Models : Upload(m) \/ DeleteModel(m)
    \/ DeviceApplies \/ WakeStatus

Spec == Init /\ [][Next]_vars

----------------------------------------------------------------------------
(* Properties. *)

Settled ==
    /\ connected /\ down = <<>> /\ up = <<>>
    /\ \A t \in Tasks : task[t].at \in {"none", "end"}

\* The wake gate trusts the readiness flag: when no message is on its way, a
\* device marked ready scores the model the controller believes it scores, unless a
\* report was judged while a push still waited on its send and had not noted its
\* model.  em_controller.py:2094, _make_admission_valid.
ReadyIsReal ==
    connected /\ ready /\ down = <<>> /\ up = <<>> /\ ~crossed => scorer = live

\* Saves, installs, repairs and reconnections of any overlap leave the device
\* on the configured wake word once all of them are through, unless a transfer
\* failed or a push wrote what an await had made out of date.
\* _install_then_switch, em_api.py:4561.
FollowsConfig ==
    Settled /\ ~failed /\ ~overtaken => live = Effective

\* The device is never told about a new model until the file is there, save by
\* the push at registration.  _hold_back_oww_model, em_api.py:4496.
ToldWhenInstalled ==
    [][\A t \in Tasks : Switch(t) /\ down' # down => Holds(task[t].model)]_vars

\* Readiness is accepted only for the selected classifier's bytes, those the
\* device has loaded.  _wake_status_ready, em_controller.py:2095.
ReadyIsThoseBytes ==
    [][WakeStatus /\ ready' => loaded = store[live]]_vars

----------------------------------------------------------------------------
(* What does not hold. *)

\* "Changed again while the push was running; that save owns the outcome and has its
\* own install task" (_install_then_switch): a switch leaves the device on the
\* configured model.  A save back to the running model has no install task, and one
\* between the read and the switch is not seen.
SwitchIsCurrent ==
    [][\A t \in Tasks : task[t].kind = "install" /\ Resume(t) /\ live' # live => live' = Effective]_vars
=============================================================================
