---------------------------- MODULE MCDeviceLink ----------------------------
(* One run for two parts of a device's connection that do not interact in    *)
(* the model: its registration and configuration pushes (DeviceLink) and the *)
(* installation of the wake model a configuration asks for (WakeModels).     *)
(* `which` picks the one that moves; the other stays in its initial state.   *)
(* The connection itself moves in three ways: with Home Assistant, with the  *)
(* configuration POSTs, or with the installs of credentials.                 *)
EXTENDS DeviceLink, TLC

CONSTANTS Models, Default, Slots, MaxTasks, MaxEdits,
          NoModel      \* a wake model that is none

VARIABLES which, fleet, own, scoped, store, files, fileRev, connected, live, ready, down, up,
          scorer, loaded, task, edits, overtaken, crossed, failed

W == INSTANCE WakeModels WITH None <- NoModel

wakeVars == <<fleet, own, scoped, store, files, fileRev, connected, live, ready, down, up, scorer,
              loaded, task, edits, overtaken, crossed, failed>>
ConnectionVars == <<which, linkVars, wakeVars>>

ConnectionInit == which \in {"watch", "posts", "keys", "wake"} /\ LinkInit /\ (which # "watch" => ~auto) /\ W!Init

ConnectionNext ==
    /\ UNCHANGED which
    /\ \/ /\ which # "wake" /\ LinkNext /\ UNCHANGED wakeVars
          /\ which # "watch" => UNCHANGED listening
          /\ which # "posts" => UNCHANGED post
          /\ which # "keys" => UNCHANGED job
       \/ which = "wake" /\ W!Next /\ UNCHANGED linkVars

ConnectionSpec == ConnectionInit /\ [][ConnectionNext]_ConnectionVars

\* The properties of WakeModels, stated there; both hold of its initial state.
ReadyIsReal == W!ReadyIsReal
FollowsConfig == W!FollowsConfig

Symmetry == Permutations(Conns) \cup Permutations(Posts) \cup Permutations(Jobs)
=============================================================================
