------------------------------ MODULE Deploy ------------------------------
(* Firmware distribution to one device and the shell plane it rides on       *)
(* (src/controller/em_api.py, em_controller.handle_shell, start_server.sh).  *)
(*                                                                           *)
(* A job is one background task or handler that talks to the device through  *)
(* programmatic shell sessions: an A/B update, a rollback, and the smaller   *)
(* users (debloat, TLS credentials, supervisor log).  Each stage of a job    *)
(* opens one session: it takes the per-device lock (20 s), asks the device   *)
(* to dial back (15 s), works, and releases.  A stage that the code spreads  *)
(* over several sessions in a row (script, debloat) is taken as one.         *)
(* On the device start_server.sh runs the binary the link names and goes     *)
(* back to the other slot after three fast exits.                            *)
(*                                                                           *)
(* Assumed of the firmware: a binary outside Good exits before it registers. *)
EXTENDS Naturals, FiniteSets

CONSTANTS Jobs,       \* the jobs of the run, each started at most once
          Versions,   \* firmware versions
          Releases,   \* those that are deployed
          Good,       \* those whose binary starts
          Factory,    \* the version the device was provisioned with
          Older,      \* the version that may still be in the partner slot
          Kinds,      \* the kinds of job that are started
          MaxDrops,   \* bound: losses of the control connection
          None

ASSUME DeployAssumption ==
    /\ Good \cup Releases \subseteq Versions /\ {Factory, Older} \subseteq Good
    /\ None \notin Versions /\ None \notin Jobs
    /\ MaxDrops \in Nat

VARIABLES
    job,          \* the tasks: kind, version wanted, version before, slot found active, stage, session
    inProgress,   \* the device is in _updates_in_progress
    updateError,  \* _update_errors of the device
    previous,     \* firmware_previous of the device row
    row,          \* firmware_ver of the device row, written at registration
    wanted,       \* the device is in _supervisor_log_wanted
    lock,         \* _shell_lock is locked; an asyncio lock knows no owner
    pending,      \* whose future _shell_pending holds
    shellWs,      \* whose session _shell_ws holds
    dial,         \* the device is answering a shell_open
    terminal,     \* the dashboard terminal: not asked for, past its check, open (_shell_dashboard), gone
    bin,          \* what /data/local/bin holds, by slot
    link,         \* what /data/local/bin/server is
    server,       \* the version running on the device, None between a kill and a start
    connected,    \* the device is in _devices
    drops

controller == <<inProgress, updateError, previous, row, wanted>>
plane == <<lock, pending, shellWs, dial, terminal>>
device == <<bin, link, server, connected, drops>>
vars == <<job, controller, plane, device>>

Slots == {"server_a", "server_b"}
Layouts == Slots \cup {"file"}     \* "file": the layout before A/B, a plain binary
Inactive(s) == IF s = "server_a" THEN "server_b" ELSE "server_a"

Updates == {"update", "rollback"}
ShellStages == {"detect", "script", "debloat", "space", "transfer", "flip", "creds", "collect"}
Stages == ShellStages \cup {"none", "begin", "fetch", "watch", "end"}
Errors == {"transfer", "aborted", "rolled back", "timed out"}
Idle == [kind |-> "none", want |-> None, prev |-> None, active |-> "file", stage |-> "none", sh |-> "none",
         stale |-> FALSE]

TypeOK ==
    /\ job \in [Jobs -> [kind : Kinds \cup {"none", "collect"}, want : Versions \cup {None}, prev : Versions \cup {None},
                         active : Layouts, stage : Stages,
                         sh : {"none", "want", "dialling", "open", "lost", "failed"}, stale : BOOLEAN]]
    /\ inProgress \in BOOLEAN /\ wanted \in BOOLEAN /\ lock \in BOOLEAN /\ dial \in BOOLEAN
    /\ connected \in BOOLEAN
    /\ updateError \in Errors \cup {None}
    /\ {previous, row, server} \subseteq Versions \cup {None}
    /\ terminal \in {"none", "checked", "open", "gone"}
    /\ {pending, shellWs} \subseteq Jobs \cup {None}
    /\ bin \in [Layouts -> Versions \cup {None}] /\ link \in Layouts
    /\ drops \in 0..MaxDrops
    \* between two programmatic sessions of a job nothing of it is left behind
    /\ \A j \in Jobs : job[j].sh # "none" <=> job[j].stage \in ShellStages

Init ==
    /\ job = [j \in Jobs |-> Idle]
    /\ inProgress = FALSE /\ updateError = None /\ wanted = FALSE
    /\ previous = None /\ row = Factory /\ server = Factory /\ connected = TRUE /\ drops = 0
    /\ lock = FALSE /\ pending = None /\ shellWs = None /\ dial = FALSE /\ terminal = "none"
    /\ \/ /\ link = "file"
          /\ bin = [s \in Layouts |-> IF s = "file" THEN Factory ELSE None]
       \/ /\ link = "server_a"
          /\ \E other \in {None, Older} :
                bin = [s \in Layouts |-> CASE s = "server_a" -> Factory [] s = "server_b" -> other [] OTHER -> None]

----------------------------------------------------------------------------
(* Jobs and sessions. *)

\* the stage after s for a job of kind k
After(k, s) ==
    CASE s = "detect"   -> IF k = "rollback" THEN "flip" ELSE "script"
      [] s = "script"   -> "debloat"
      [] s = "debloat"  -> IF k = "update" THEN "space" ELSE "end"
      [] s = "space"    -> "transfer"
      [] s = "transfer" -> "flip"
      [] s = "flip"     -> "watch"
      [] OTHER          -> "end"

\* mutant for TypeOK: a stage that needs no device keeps the old session
EnterWanting(jb, j, s) == [jb EXCEPT ![j].stage = s, ![j].sh = IF s \in ShellStages THEN "want" ELSE @]

\* j goes to stage s; a stage that needs the device asks for a session
Enter(jb, j, s) == [jb EXCEPT ![j].stage = s, ![j].sh = IF s \in ShellStages THEN "want" ELSE "none"]

\* every open session is cut, by the device or by the link
Cut(jb) == [k \in Jobs |-> IF jb[k].sh = "open" THEN [jb[k] EXCEPT !.sh = "lost"] ELSE jb[k]]

\* a job whose live object is of a connection that is gone talks to nobody
Detached(jb) == [k \in Jobs |-> [jb[k] EXCEPT !.stale = @ \/ jb[k].stage \in ShellStages]]

Reaches(j) == connected /\ ~job[j].stale

\* The lock is free: take it, publish the future, ask the device to dial.  The
\* device cancels the session it has when it is asked for another.
Acquire(j) ==
    /\ job[j].sh = "want" /\ ~lock
    /\ lock' = TRUE /\ pending' = j
    /\ dial' = (dial \/ Reaches(j))
    /\ job' = [(IF Reaches(j) THEN Cut(job) ELSE job) EXCEPT ![j].sh = "dialling"]
    /\ UNCHANGED <<controller, shellWs, terminal, device>>

\* 20 s without the lock
LockTimeout(j) ==
    /\ job[j].sh = "want" /\ lock
    /\ job' = [job EXCEPT ![j].sh = "failed"]
    /\ UNCHANGED <<controller, plane, device>>

\* mutant for JobsEnd: the answer of the device is awaited without a timeout
DialForever(j) == FALSE /\ job[j].sh = "dialling" /\ UNCHANGED vars

\* 15 s without the device
DialTimeout(j) ==
    /\ job[j].sh = "dialling"
    /\ job' = [job EXCEPT ![j].sh = "failed"]
    /\ pending' = None /\ shellWs' = None /\ lock' = FALSE
    /\ UNCHANGED <<controller, dial, terminal, device>>

\* handle_shell: the device's connection goes to the terminal if one is open,
\* else to whoever's future is pending
ShellArrives ==
    /\ dial /\ connected
    /\ dial' = FALSE
    /\ IF terminal # "open" /\ pending # None /\ job[pending].sh = "dialling"
       THEN job' = [job EXCEPT ![pending].sh = "open"] /\ shellWs' = pending
       ELSE UNCHANGED <<job, shellWs>>
    /\ UNCHANGED <<controller, lock, pending, terminal, device>>

\* The dashboard terminal tests the lock, prepares its own socket, and only
\* then overwrites the future and asks for a session of its own; it never
\* takes the lock.
TerminalAsked ==
    /\ terminal = "none" /\ connected /\ ~lock
    /\ terminal' = "checked"
    /\ UNCHANGED <<job, controller, lock, pending, shellWs, dial, device>>

TerminalOpens ==
    /\ terminal = "checked"
    /\ terminal' = "open" /\ pending' = None
    /\ dial' = (dial \/ connected)
    /\ job' = IF connected THEN Cut(job) ELSE job
    /\ UNCHANGED <<controller, lock, shellWs, device>>

TerminalCloses ==
    /\ terminal = "open"
    /\ terminal' = "gone" /\ pending' = None
    /\ dial' = (dial /\ ~connected)
    /\ job' = IF connected THEN Cut(job) ELSE job
    /\ UNCHANGED <<controller, lock, shellWs, device>>

\* mutant for ShellPlaneFreed: the clean-up forgets the lock
ReleaseKeepsLock(jb, reaches) ==
    /\ job' = IF reaches THEN Cut(jb) ELSE jb
    /\ shellWs' = None /\ pending' = None /\ lock' = lock
    /\ dial' = (dial /\ ~reaches) /\ UNCHANGED terminal

\* _release_shell_ws, in the finally of every session: close the session in
\* _shell_ws, forget the future, tell the device, unlock if locked.  jb is the
\* job table the caller leaves; reaches, whether shell_close is delivered.
Release(jb, reaches) ==
    /\ job' = IF reaches THEN Cut(jb)
              ELSE IF shellWs # None /\ jb[shellWs].sh = "open" THEN [jb EXCEPT ![shellWs].sh = "lost"] ELSE jb
    /\ shellWs' = None /\ pending' = None /\ lock' = FALSE
    /\ dial' = (dial /\ ~reaches) /\ UNCHANGED terminal

----------------------------------------------------------------------------
(* The dashboard starts jobs. *)

Begins(j, k, v) == job' = [job EXCEPT ![j].kind = k, ![j].want = v, ![j].stage = "begin"]

\* POST update; deploy-all skips a device that is current.  The flag is tested
\* here and set only when the task first runs.
PostUpdate(j, v) ==
    /\ job[j].stage = "none" /\ "update" \in Kinds
    /\ connected /\ ~inProgress
    /\ Begins(j, "update", v)
    /\ UNCHANGED <<controller, plane, device>>

DeployAll(j, v) == row # v /\ PostUpdate(j, v)

PostRollback(j) ==
    /\ job[j].stage = "none" /\ "rollback" \in Kinds
    /\ previous # None /\ connected /\ ~inProgress
    /\ Begins(j, "rollback", previous)
    /\ UNCHANGED <<controller, plane, device>>

\* the debloat button and the secure-link button
PostOther(j, k) ==
    /\ job[j].stage = "none" /\ k \in Kinds \ Updates
    /\ connected
    /\ job' = Enter([job EXCEPT ![j].kind = k], j, IF k = "debloat" THEN "debloat" ELSE "creds")
    /\ UNCHANGED <<controller, plane, device>>

\* a fresh attempt raises the flag and clears the last failure
Begin(j) ==
    /\ job[j].stage = "begin"
    /\ inProgress' = TRUE /\ updateError' = None
    /\ job' = [job EXCEPT ![j].stage = "fetch"]
    /\ UNCHANGED <<previous, row, wanted, plane, device>>

\* a job that ends takes the flag down, whoever else is running
Ends(j) == job' = [job EXCEPT ![j].stage = "end", ![j].sh = "none"] /\ inProgress' = FALSE

\* an abort records its reason (_update_failed)
FetchFails(j) ==
    /\ job[j].stage = "fetch"
    /\ \/ job[j].kind = "update" /\ UNCHANGED previous       \* no binary
       \/ ~connected /\ previous' = IF job[j].kind = "update" THEN row ELSE previous
    /\ Ends(j) /\ updateError' = "aborted"
    /\ UNCHANGED <<row, wanted, plane, device>>

\* the binary is at hand; the running version is recorded before anything changes
Fetched(j) ==
    /\ job[j].stage = "fetch" /\ connected
    /\ previous' = IF job[j].kind = "update" THEN row ELSE previous
    /\ job' = Enter([job EXCEPT ![j].prev = row], j, "detect")
    /\ UNCHANGED <<inProgress, updateError, row, wanted, plane, device>>

----------------------------------------------------------------------------
(* What a stage does through its session. *)

Working(j, s) == job[j].stage = s /\ job[j].sh = "open" /\ Reaches(j)

\* readlink; an update moves the old layout to slots first
Migrates(j) == link = "file" /\ job[j].kind = "update"
Detect(j) ==
    /\ Working(j, "detect")
    /\ link # "file" \/ Migrates(j)
    /\ bin' = IF Migrates(j) THEN [bin EXCEPT !["server_a"] = bin["file"], !["file"] = None] ELSE bin
    /\ link' = IF Migrates(j) THEN "server_a" ELSE link
    /\ Release(Enter([job EXCEPT ![j].active = link'], j, After(job[j].kind, "detect")), TRUE)
    /\ UNCHANGED <<controller, server, connected, drops>>

\* stages that do not decide which binary runs
Side(j, s) ==
    /\ Working(j, s)
    /\ Release(Enter(job, j, After(job[j].kind, s)), TRUE)
    /\ UNCHANGED <<controller, device>>
SyncStartScript(j) == Side(j, "script")
SyncDebloat(j) == Side(j, "debloat")
FreeSpace(j) == Side(j, "space")
CollectSupervisorLog(j) == Side(j, "collect")

\* the CA and the token are installed and the connection is bounced
SecureLink(j) ==
    /\ Working(j, "creds")
    /\ Release(Detached(Enter(job, j, "end")), TRUE)
    /\ connected' = FALSE
    /\ UNCHANGED <<controller, bin, link, server, drops>>

\* The binary lands in .part and the device's shell renames it once its md5
\* matches; the shell is killed with its session.
PromotedActive(j) == [bin EXCEPT ![job[j].active] = job[j].want]     \* mutant for Recoverable
Promoted(j) == [bin EXCEPT ![Inactive(job[j].active)] = job[j].want]
Promote(j) ==
    /\ Working(j, "transfer")
    /\ bin' = Promoted(j)
    /\ UNCHANGED <<job, controller, plane, link, server, connected, drops>>

\* the controller reads the device's word that it is in place
Transfer(j) ==
    /\ Working(j, "transfer")
    /\ bin = Promoted(j)
    /\ Release(Enter(job, j, "flip"), TRUE)
    /\ UNCHANGED <<controller, device>>

\* the device goes away: its sessions, and the live object every job holds
Gone(jb) == Detached(Cut(jb))

\* ln -sf and kill $PPID; the shell dies with the server.  A rollback reads the
\* version to leave only now.
Flip(j) ==
    /\ Working(j, "flip")
    /\ link' = Inactive(job[j].active) /\ server' = None /\ connected' = FALSE
    /\ Release(Gone(Enter([job EXCEPT ![j].prev = IF job[j].kind = "rollback" THEN row ELSE @], j, "watch")), FALSE)
    /\ UNCHANGED <<controller, bin, drops>>

\* No session, or a session lost half way.  The shell runs read an empty
\* answer: detection and transfer abort, the rest carries on - the flip too,
\* whose answer nobody reads.
Aborting == {"detect", "transfer"}
Broken(j) ==
    /\ job[j].sh \in {"lost", "failed"}
    /\ LET s == job[j].stage
           fails == s \in Aborting
           next == IF fails \/ s = "creds" THEN "end" ELSE After(job[j].kind, s)
       IN  /\ Release(Enter([job EXCEPT ![j].prev = IF job[j].kind = "rollback" THEN row ELSE @], j, next), Reaches(j))
           /\ inProgress' = (inProgress /\ ~fails)
           /\ updateError' = IF fails THEN "transfer" ELSE updateError
    /\ UNCHANGED <<previous, row, wanted, device>>

\* The device answers, and the answer is a refusal: no slot known, the
\* migration failed, no room, no md5 tool, a corrupt arrival; or its word about
\* the md5 is late, the file in place or not.
Refused(j) ==
    /\ \E s \in {"detect", "space", "transfer"} : Working(j, s)
    /\ Release(Enter(job, j, "end"), TRUE)
    /\ inProgress' = FALSE /\ updateError' = "aborted"
    /\ UNCHANGED <<previous, row, wanted, device>>

----------------------------------------------------------------------------
(* Waiting for the device to come back (_monitor_reconnect). *)

CameBack(j) == connected /\ (row = job[j].want \/ (job[j].prev # None /\ row # job[j].prev))

Confirm(j) ==
    /\ job[j].stage = "watch" /\ CameBack(j)
    /\ Ends(j) /\ updateError' = None
    /\ previous' = IF job[j].kind = "rollback" THEN None ELSE previous
    /\ UNCHANGED <<row, wanted, plane, device>>

\* 90 s: the version the row still names decides what is reported
WatchTimeout(j) ==
    /\ job[j].stage = "watch" /\ ~CameBack(j)
    /\ Ends(j)
    /\ LET same == job[j].kind = "update" /\ row = job[j].prev
       IN  /\ updateError' = IF same THEN "rolled back" ELSE IF job[j].kind = "update" THEN "timed out" ELSE "aborted"
           /\ previous' = IF same THEN None ELSE previous
    /\ wanted' = (wanted \/ job[j].kind = "update")
    /\ UNCHANGED <<row, plane, device>>

----------------------------------------------------------------------------
(* The device. *)

\* start_server.sh runs what the link names
StartServer ==
    /\ server = None /\ bin[link] \in Good
    /\ server' = bin[link]
    /\ UNCHANGED <<job, controller, plane, bin, link, connected, drops>>

\* three fast exits: back to the other slot if it is there
Fallback(s) == s \in Slots /\ bin[Inactive(s)] # None
AutoRollback ==
    /\ server = None /\ bin[link] \notin Good /\ Fallback(link)
    /\ link' = Inactive(link)
    /\ UNCHANGED <<job, controller, plane, bin, server, connected, drops>>

\* registration writes the version; an owed supervisor log is collected now
Register ==
    /\ server # None /\ ~connected
    /\ connected' = TRUE /\ row' = server /\ wanted' = FALSE
    /\ LET free == {j \in Jobs : job[j].stage = "none"}
       IN  IF wanted /\ free # {}
           THEN \E j \in free : job' = Enter([job EXCEPT ![j].kind = "collect"], j, "collect")
           ELSE UNCHANGED job
    /\ UNCHANGED <<inProgress, updateError, previous, plane, bin, link, server, drops>>

\* the control connection is lost; the server runs on or is restarted
Drop ==
    /\ connected /\ drops < MaxDrops
    /\ drops' = drops + 1 /\ connected' = FALSE /\ dial' = FALSE
    /\ job' = Gone(job)
    /\ server' \in {server, None}
    /\ UNCHANGED <<controller, lock, pending, shellWs, terminal, bin, link>>

SessionStep(j) == Acquire(j) \/ LockTimeout(j) \/ DialTimeout(j) \/ Broken(j)
SideStep(j) == SyncStartScript(j) \/ SyncDebloat(j) \/ FreeSpace(j) \/ CollectSupervisorLog(j) \/ SecureLink(j)
StageStep(j) == Detect(j) \/ SideStep(j) \/ Promote(j) \/ Transfer(j) \/ Flip(j) \/ Refused(j)
TaskStep(j) == Begin(j) \/ FetchFails(j) \/ Fetched(j) \/ Confirm(j) \/ WatchTimeout(j)
JobStep(j) == SessionStep(j) \/ StageStep(j) \/ TaskStep(j)
DeviceStep == ShellArrives \/ StartServer \/ AutoRollback \/ Register

Next ==
    \/ \E j \in Jobs :
          \/ \E v \in Releases : PostUpdate(j, v) \/ DeployAll(j, v)
          \/ PostRollback(j)
          \/ \E k \in Kinds : PostOther(j, k)
          \/ JobStep(j)
    \/ DeviceStep
    \/ TerminalAsked \/ TerminalOpens \/ TerminalCloses
    \/ Drop

Spec == Init /\ [][Next]_vars

(* Timeouts are timers of the event loop and always fire; a device that can  *)
(* start and register does.                                                  *)
FairSpec == Spec /\ (\A j \in Jobs : WF_vars(JobStep(j))) /\ WF_vars(DeviceStep)

----------------------------------------------------------------------------
(* Properties. *)

\* Whatever combination of updates, rollbacks, lost sessions and bad binaries,
\* the supervisor always finds a binary that starts, in the slot the link
\* names or in the one it falls back to.  start_server.sh's auto-rollback.
Recoverable ==
    \/ bin[link] \in Good
    \/ Fallback(link) /\ bin[Inactive(link)] \in Good

\* Once no job is left, the shell plane is free: a lock that nobody owns would
\* refuse every later update for good.  _get_device_shell_ws, _release_shell_ws.
ShellPlaneFreed ==
    (\A j \in Jobs : job[j].stage \in {"none", "end"}) => ~lock /\ pending = None /\ shellWs = None

\* Sessions are strictly sequential: one that is open is ended by its own job,
\* by the device or by the link, never by another job's clean-up.
\* _get_device_shell_ws, em_api.py:2749.
SessionsSequential ==
    [][\A j \in Jobs : job[j].sh = "open" /\ connected' => job'[j].sh # "lost"]_vars

\* A device reported as rolled back automatically does not run the version the
\* update was for.  em_api.py:2593.
RolledBackRunsOld ==
    updateError = "rolled back" /\ ~inProgress =>
        \A j \in Jobs : job[j].kind = "update" /\ job[j].stage = "end" /\ job[j].want # job[j].prev
                          => row # job[j].want

\* Every update, rollback and helper that begins comes to its end:
\* no lock, answer or reconnection is awaited for ever.  em_api.py:2431-2830.
JobsEnd == \A j \in Jobs : job[j].stage # "none" ~> job[j].stage = "end"
=============================================================================
