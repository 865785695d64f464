---------------------------- MODULE DeviceLink ----------------------------
(***************************************************************************)
(* One device's control connection: the dial and its token, the row in the *)
(* devices table, approval, the handler that registers the connection and  *)
(* tears it down, the configuration pushed to it, the credentials "Secure  *)
(* link" and the wizard install, and what the Home Assistant coordinator   *)
(* is told about the device (em_controller.py handle_control, em_linkauth, *)
(* em_db.py, em_api.py, coordinator.py).                                   *)
(*                                                                         *)
(* Each value of Conns is one dial.  The device holds one connection at a  *)
(* time; the handlers of its earlier ones may still be running.  A step is *)
(* what a handler does between two awaits.                                 *)
(***************************************************************************)
EXTENDS Naturals, FiniteSets

CONSTANTS Conns,       \* control connections the device ever dials
          RequireTls,  \* REQUIRE_DEVICE_TLS
          Posts,       \* config POSTs, each made once at most
          Jobs,        \* credential installs under way at once, each made again and again
          MaxMints     \* bound: tokens minted

VARIABLES
  row,       \* the device's row: "none", "pending" or "approved"
  token,     \* the token column; 0 is NULL
  auto,      \* system_config device_approval = "auto"
  disk,      \* the token file on the device; 0 is no file
  link,      \* the device's open connection, as a set of at most one
  phase,     \* phase[c]: where handle_control is
  held,      \* held[c]: what it holds across an await: the token of the dial,
             \* then the configuration it read
  devices,   \* _devices[device_id], as a set of at most one
  stored,    \* version of the saved configuration
  runs,      \* version the device was last sent
  post,      \* post[p]: a config POST, the version it read and whom it listed
  job,       \* job[j]: a credential install, its token and its connection
  listening, \* Home Assistant's /api/events socket is open
  said,      \* what that socket last said of the device: TRUE is connected
  view,      \* the coordinator's record of the device
  poll,      \* the REST reply under way
  minted,    \* tokens minted so far
  cut,       \* history: connections running when their row was deleted
  rolledBack, \* history: the device was sent an older configuration than it ran,
              \* and not yet the saved one again
  reminted,  \* history: a mint wrote over a token on record
  deleted,   \* history: the row has been deleted
  refused    \* history: a plane has refused the device

database == <<row, token, auto, minted, reminted, deleted>>
deviceEnd == <<disk, link>>
handlers == <<phase, held, devices, cut>>
config == <<stored, runs, post, rolledBack>>
watcher == <<listening, said, view, poll>>
linkVars == <<database, deviceEnd, handlers, config, job, watcher, refused>>

Idle == [at |-> "idle", via |-> "adb", token |-> 0, live |-> {}]

NoPost == [at |-> "none", kind |-> "fleet", version |-> 0, live |-> {}]

Posting == {p \in Posts : post[p].at \in {"saved", "apply"}}

Announced == {"ack", "push", "serving"}

Running == Announced \cup {"auth", "lookup", "insert", "approve", "reread", "hydrate", "leaving"}

LinkTypeOK ==
  /\ row \in {"none", "pending", "approved"} /\ auto \in BOOLEAN
  /\ token \in Nat /\ disk \in Nat /\ minted \in Nat
  /\ link \in SUBSET Conns /\ devices \in SUBSET Conns
  /\ held \in [Conns -> Nat]
  /\ phase \in [Conns -> Running \cup {"unused", "closed", "dead"}]
  /\ stored \in Nat /\ runs \in Nat /\ rolledBack \in BOOLEAN
  /\ post \in [Posts -> [at : {"none", "saved", "apply", "done"}, kind : {"device", "fleet"},
                         version : Nat, live : SUBSET Conns]]
  /\ job \in [Jobs -> [at : {"idle", "mint", "install", "bounce"}, via : {"adb", "shell"},
                       token : Nat, live : SUBSET Conns]]
  /\ listening \in BOOLEAN /\ said \in BOOLEAN
  /\ view \in {"absent", "gone", "shown"} /\ poll \in {"none", "absent", "gone", "shown"}
  /\ cut \in SUBSET Conns
  /\ reminted \in BOOLEAN /\ deleted \in BOOLEAN /\ refused \in BOOLEAN

LinkInit ==
  /\ row = "none" /\ token = 0 /\ auto \in BOOLEAN /\ minted = 0
  /\ reminted = FALSE /\ deleted = FALSE
  /\ disk = 0 /\ link = {}
  /\ held = [c \in Conns |-> 0] /\ phase = [c \in Conns |-> "unused"]
  /\ devices = {} /\ cut = {}
  /\ stored = 0 /\ runs = 0 /\ post = [p \in Posts |-> NoPost] /\ rolledBack = FALSE
  /\ job = [j \in Jobs |-> Idle]
  /\ listening = FALSE /\ said = FALSE /\ view = "absent" /\ poll = "none"
  /\ refused = FALSE

---------------------------------------------------------------------------
(* Helpers. *)

At(c, p) == phase' = [phase EXCEPT ![c] = p]

Holds(c, v) == held' = [held EXCEPT ![c] = v]

\* An event reaches an open socket; the coordinator drops a device_update of a
\* device its record does not hold.
Tell(connected) ==
  /\ said' = IF listening THEN connected ELSE said
  /\ view' = IF listening /\ view # "absent" THEN (IF connected THEN "shown" ELSE "gone") ELSE view
  /\ UNCHANGED <<listening, poll>>

\* The device is sent a version of its configuration.
Send(v) ==
  /\ runs' = v
  /\ rolledBack' = (v < runs \/ (rolledBack /\ v < stored))

\* What a listing of the devices says: snapshot and REST reply build it alike.
Listed == IF row = "none" THEN "absent" ELSE IF devices # {} THEN "shown" ELSE "gone"

\* Mutant: a token on record must be presented (rule 2 dropped).
DecideStrict(presented, expected) ==
  /\ ~(expected # 0 /\ presented # expected)
  /\ RequireTls => presented # 0 /\ expected # 0

Decide(presented, expected) ==
  /\ ~(presented # 0 /\ expected # 0 /\ presented # expected)
  /\ RequireTls => presented # 0 /\ expected # 0

---------------------------------------------------------------------------
(* The device. *)

\* Credentials are read again for every dial.
Dial(c) ==
  /\ link = {} /\ phase[c] = "unused"
  /\ link' = {c} /\ Holds(c, disk) /\ At(c, "auth")
  /\ UNCHANGED <<database, disk, devices, cut, config, job, watcher, refused>>

\* The device reboots or the network goes: its handler finds out later.
Drop ==
  /\ link # {} /\ link' = {}
  /\ UNCHANGED <<database, disk, handlers, config, job, watcher, refused>>

---------------------------------------------------------------------------
(* handle_control. *)

LinkAuth(c) ==
  /\ phase[c] = "auth"
  /\ LET ok == Decide(held[c], token) IN
       /\ Holds(c, 0)
       /\ At(c, IF ok THEN "lookup" ELSE "closed")
       /\ link' = IF ok THEN link ELSE link \ {c}
       /\ refused' = (refused \/ ~ok)
  /\ UNCHANGED <<database, disk, devices, cut, config, job, watcher>>

\* get_device.  A pending device is told so and its connection closed.
Lookup(c) ==
  /\ phase[c] = "lookup" /\ row # "pending"
  /\ At(c, IF row = "none" THEN "insert" ELSE "hydrate")
  /\ UNCHANGED <<database, deviceEnd, held, devices, cut, config, job, watcher, refused>>

TurnAway(c) ==
  /\ \/ phase[c] = "lookup" /\ row = "pending"
     \/ phase[c] = "reread" /\ row # "approved"
  /\ At(c, "closed") /\ link' = link \ {c}
  /\ UNCHANGED <<database, disk, held, devices, cut, config, job, watcher, refused>>

\* register_new_device: a plain INSERT, an error when the row exists by now.
Insert(c) ==
  /\ phase[c] = "insert"
  /\ row' = IF row = "none" THEN "pending" ELSE row
  /\ LET goesOn == auto /\ row = "none" IN
       /\ At(c, IF goesOn THEN "approve" ELSE "closed")
       /\ link' = IF goesOn THEN link ELSE link \ {c}
  /\ UNCHANGED <<token, auto, minted, reminted, deleted, disk, held, devices, cut, config, job,
                 watcher, refused>>

\* approve_device raises when the row is gone.
AutoApprove(c) ==
  /\ phase[c] = "approve"
  /\ row' = IF row = "none" THEN row ELSE "approved"
  /\ At(c, IF row = "none" THEN "closed" ELSE "reread")
  /\ link' = IF row = "none" THEN link \ {c} ELSE link
  /\ UNCHANGED <<token, auto, minted, reminted, deleted, disk, held, devices, cut, config, job,
                 watcher, refused>>

Reread(c) ==
  /\ phase[c] = "reread" /\ row = "approved" /\ At(c, "hydrate")
  /\ UNCHANGED <<database, deviceEnd, held, devices, cut, config, job, watcher, refused>>

\* _devices[device_id] = device, the log row and device_update(connected).
Register(c) ==
  /\ phase[c] = "hydrate" /\ row # "none"
  /\ devices' = {c} /\ At(c, "ack") /\ Tell(TRUE)
  /\ UNCHANGED <<database, deviceEnd, held, cut, config, job, refused>>

\* The log row refers to a deleted device: log_device raises, and raises again
\* in `finally`, before the pop.
RegisterDeleted(c) ==
  /\ phase[c] = "hydrate" /\ row = "none"
  /\ devices' = {c} /\ At(c, "dead") /\ link' = link \ {c}
  /\ UNCHANGED <<database, disk, held, cut, config, job, watcher, refused>>

ReadConfig(c) ==
  /\ phase[c] = "ack" /\ At(c, "push")
  /\ Holds(c, stored)
  /\ UNCHANGED <<database, deviceEnd, devices, cut, config, job,
                 watcher, refused>>

\* Mutant: a device that reconnects is trusted to have its configuration.
PushConfigSkipped(c) ==
  /\ phase[c] = "push" /\ At(c, "serving") /\ Holds(c, 0)
  /\ UNCHANGED <<database, deviceEnd, devices, cut, config, job, watcher, refused>>

PushConfig(c) ==
  /\ phase[c] = "push" /\ At(c, "serving")
  /\ IF c \in link THEN Send(held[c]) ELSE UNCHANGED <<runs, rolledBack>>
  /\ Holds(c, 0)
  /\ UNCHANGED <<database, deviceEnd, devices, cut, stored, post, job, watcher, refused>>

\* Mutant: a teardown does not look whether it was replaced.
AnyTeardown(c) == c \in Conns

Current(c) == c \in devices

\* `finally`, once the socket is found closed, for a connection that has been
\* replaced ...
CloseStale(c) ==
  /\ phase[c] \in Announced /\ c \notin link /\ ~Current(c) /\ At(c, "closed")
  /\ Holds(c, 0)
  /\ UNCHANGED <<database, deviceEnd, devices, cut, config, job, watcher, refused>>

\* ... and for the registered one, whose log row may again raise.
Leave(c) ==
  /\ phase[c] \in Announced /\ c \notin link /\ Current(c)
  /\ IF row = "none" THEN At(c, "dead") /\ UNCHANGED watcher ELSE At(c, "leaving") /\ Tell(FALSE)
  /\ Holds(c, 0)
  /\ UNCHANGED <<database, deviceEnd, devices, cut, config, job, refused>>

\* The pop after the awaited notification does not look whose entry it is.
Pop(c) ==
  /\ phase[c] = "leaving" /\ At(c, "closed") /\ devices' = {}
  /\ UNCHANGED <<database, deviceEnd, held, cut, config, job, watcher, refused>>

---------------------------------------------------------------------------
(* The administrator. *)

PostApprove ==
  /\ row = "pending" /\ row' = "approved"
  /\ UNCHANGED <<token, auto, minted, reminted, deleted, deviceEnd, handlers, config, job, watcher,
                 refused>>

\* One deletion is modelled.
DeleteDevice ==
  /\ row # "none" /\ ~deleted
  /\ row' = "none" /\ token' = 0 /\ deleted' = TRUE
  /\ cut' = cut \cup {c \in Conns : phase[c] \in Running}
  /\ UNCHANGED <<auto, minted, reminted, deviceEnd, held, phase, devices, config, job, watcher,
                 refused>>

---------------------------------------------------------------------------
(* The configuration POSTs: the device's own and the fleet's.  Nothing keeps two *)
(* of them apart.                                                               *)

PostAt(p, a) == post' = [post EXCEPT ![p].at = a]

SaveConfig(p) ==
  /\ post[p].at = "none"
  /\ \E kind \in {"device", "fleet"} :
       /\ kind = "device" => row # "none"
       /\ post' = [post EXCEPT ![p].at = "saved", ![p].kind = kind]
  /\ stored' = stored + 1
  /\ UNCHANGED <<database, deviceEnd, handlers, runs, rolledBack, job, watcher, refused>>

\* The fleet's lists the registered connections before it reads.
ReadSaved(p) ==
  /\ post[p].at = "saved"
  /\ post' = [post EXCEPT ![p].at = "apply", ![p].version = stored, ![p].live = devices]
  /\ UNCHANGED <<database, deviceEnd, handlers, stored, runs, rolledBack, job, watcher, refused>>

\* The device's own looks the connection up after its read.
Target(p) == IF post[p].kind = "fleet" THEN post[p].live ELSE devices

ApplyLiveConfig(p) ==
  /\ post[p].at = "apply" /\ PostAt(p, "done")
  /\ IF link \cap Target(p) # {} THEN Send(post[p].version) ELSE UNCHANGED <<runs, rolledBack>>
  /\ UNCHANGED <<database, deviceEnd, handlers, stored, job, watcher, refused>>

---------------------------------------------------------------------------
(* Credentials: every press of "Secure link" starts a task, every run of the   *)
(* wizard a request.                                                           *)

JobAt(j, a) == job[j].at = a

\* ensure_device_token reads the token on record ...
EnsureToken(j, way, conns) ==
  /\ JobAt(j, "idle")
  /\ job' = [job EXCEPT ![j] = [at |-> IF token = 0 THEN "mint" ELSE "install",
                               via |-> way, token |-> token, live |-> conns]]
  /\ UNCHANGED <<database, deviceEnd, handlers, config, watcher, refused>>

Provision(j) == EnsureToken(j, "adb", {})

SecureLink(j) == devices # {} /\ EnsureToken(j, "shell", devices)

\* ... and, having found none, writes a new one over whatever is there by now.
MintToken(j) ==
  /\ JobAt(j, "mint") /\ minted < MaxMints
  /\ minted' = minted + 1 /\ token' = minted'
  /\ row' = IF row = "none" THEN "pending" ELSE row
  /\ reminted' = (reminted \/ token # 0)
  /\ job' = [job EXCEPT ![j].at = "install", ![j].token = token']
  /\ UNCHANGED <<auto, deleted, deviceEnd, handlers, config, watcher, refused>>

WizardInstalls(j) ==
  /\ JobAt(j, "install") /\ job[j].via = "adb"
  /\ disk' = job[j].token /\ job' = [job EXCEPT ![j] = Idle]
  /\ UNCHANGED <<database, link, handlers, config, watcher, refused>>

\* The transfer runs over a shell the device dials with the token it has.
Transfer(j) ==
  /\ JobAt(j, "install") /\ job[j].via = "shell" /\ link # {} /\ job[j].live = link
  /\ LET ok == Decide(disk, token) IN
       /\ disk' = IF ok THEN job[j].token ELSE disk
       /\ job' = [job EXCEPT ![j] = IF ok THEN [@ EXCEPT !.at = "bounce"] ELSE Idle]
       /\ refused' = (refused \/ ~ok)
  /\ UNCHANGED <<database, link, handlers, config, watcher>>

\* A transfer fails, or the wizard is left.
InstallFails(j) ==
  /\ JobAt(j, "install") /\ job' = [job EXCEPT ![j] = Idle]
  /\ UNCHANGED <<database, deviceEnd, handlers, config, watcher, refused>>

Bounce(j) ==
  /\ JobAt(j, "bounce") /\ job' = [job EXCEPT ![j] = Idle] /\ link' = link \ job[j].live
  /\ UNCHANGED <<database, disk, handlers, config, watcher, refused>>

---------------------------------------------------------------------------
(* Home Assistant. *)

\* The first message of /api/events is a snapshot.
HaConnect ==
  /\ ~listening /\ listening' = TRUE
  /\ said' = (Listed = "shown") /\ view' = Listed
  /\ UNCHANGED <<database, deviceEnd, handlers, config, job, poll, refused>>

\* With the socket closed the coordinator makes every entity unavailable.
HaDrop ==
  /\ listening /\ listening' = FALSE
  /\ said' = FALSE /\ view' = "absent" /\ poll' = "none"
  /\ UNCHANGED <<database, deviceEnd, handlers, config, job, refused>>

PollAnswered ==
  /\ listening /\ poll = "none" /\ poll' = Listed
  /\ UNCHANGED <<database, deviceEnd, handlers, config, job, listening, said, view, refused>>

MergePoll ==
  /\ poll # "none" /\ view' = poll /\ poll' = "none"
  /\ UNCHANGED <<database, deviceEnd, handlers, config, job, listening, said, refused>>

---------------------------------------------------------------------------
Handle(c) ==
  \/ LinkAuth(c) \/ Lookup(c) \/ TurnAway(c) \/ Insert(c) \/ AutoApprove(c) \/ Reread(c)
  \/ Register(c) \/ RegisterDeleted(c) \/ ReadConfig(c) \/ PushConfig(c)
  \/ CloseStale(c) \/ Leave(c) \/ Pop(c)

Admin == PostApprove \/ DeleteDevice

Configure == \E p \in Posts : SaveConfig(p) \/ ReadSaved(p) \/ ApplyLiveConfig(p)

Credentials ==
  \E j \in Jobs :
    \/ Provision(j) \/ SecureLink(j) \/ MintToken(j)
    \/ WizardInstalls(j) \/ Transfer(j) \/ InstallFails(j) \/ Bounce(j)

Ha == HaConnect \/ HaDrop \/ PollAnswered \/ MergePoll

LinkNext == (\E c \in Conns : Dial(c) \/ Handle(c)) \/ Drop \/ Admin \/ Configure \/ Credentials \/ Ha

LinkSpec == LinkInit /\ [][LinkNext]_linkVars

---------------------------------------------------------------------------
(* What holds. *)

\* While Home Assistant listens, a registered connection past its announcement
\* is one Home Assistant was last told is connected, however the teardowns of
\* earlier connections fall (handle_control's stale check and its
\* _push_device_state; the outages of 2026-07-14 and 2026-08-19 in its comments).
RegisteredIsShown ==
  listening => \A c \in devices \ cut : phase[c] \in Announced => said

\* A device whose row was never deleted is never refused, however the reads and
\* writes of ensure_device_token, the installs and the dials fall, unless two mints
\* overlapped and the later wrote over the earlier (em_linkauth.decide, rule 2).
NeverDeletedIsAdmitted == ~deleted /\ ~reminted /\ ~RequireTls => ~refused

\* With no POST under way, the connection the registry holds runs the saved
\* configuration, whether a POST or its registration brought it, unless an older one
\* was pushed over a newer (handle_control's config push, _post_device_config and
\* _post_global_config, each of which reads and pushes in two steps).
ConfigReaches ==
  Posting = {} /\ ~rolledBack =>
    \A c \in devices \cap link : phase[c] = "serving" => runs = stored

---------------------------------------------------------------------------
(* What does not. *)

\* "Apply a REST poll without rolling back a newer live event" (coordinator.py
\* _merge_rest_devices): the record does not say a device is away when the last
\* event said it is connected.
NoRollback == listening /\ said => view # "gone"

\* A device deleted and back with its old credential "comes back as pending and
\* waits for approval" (_link_auth_ok): it is not refused for good.
DeletedComesBack == ~RequireTls => ~refused

\* "Return the device's link-auth token" (ensure_device_token): refused for no other
\* reason than a deletion.
AlwaysAdmitted == ~deleted /\ ~RequireTls => ~refused

\* The connection being served is the one the registry holds.
LiveIsRegistered == \A c \in link : phase[c] = "serving" => c \in devices

\* The registry never holds a connection whose handler has ended.
NoGhost == \A c \in devices : phase[c] # "dead"

\* A device that is not registered is not shown as connected.
GoneIsShown == listening /\ devices = {} => ~said

\* The device runs the saved configuration once every push is done.
ConfigConverges ==
  Posting = {} => \A c \in devices \cap link : phase[c] = "serving" => runs = stored
=============================================================================
