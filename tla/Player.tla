------------------------------- MODULE Player -------------------------------
(***************************************************************************)
(* Media playback of one device: MediaSession of em_player.py, the media   *)
(* commands of the HTTP API, and the owners (voice turns, announcements,   *)
(* ringing timers) that take the speaker with interrupt() and give it back *)
(* with resume_interrupted().  A step runs from one await to the next.     *)
(*                                                                         *)
(* Audio is left out: a feed is where its task awaits, a position is       *)
(* whether it is past the half second from which a resume seeks.           *)
(***************************************************************************)
EXTENDS Naturals, FiniteSets

CONSTANTS Cmds,       \* HTTP requests with a media command, one at a time each
          Owners,     \* callers that bracket their speech with interrupt/resume
          Urls, Feeds, Sessions, None,
          MaxCmds, MaxTurns, MaxGone   \* bounds on commands, interrupts, disconnects

VARIABLES sess,       \* MediaSession objects, by identity
          cur,        \* _sessions[device_id]
          device,     \* is it in the registry (up), does it mix (audio_mix_capable)
          feed,       \* the _feed tasks
          op,         \* what each command or owner is doing
          told,       \* last media state pushed to Home Assistant
          want,       \* last media command of the user
          raced,      \* two operations on the session overlapped
          left        \* what is left of the bounds

vars == <<left, sess, cur, device, feed, op, told, want, raced>>

Callers == Cmds \cup Owners
States == {"idle", "playing", "paused"}
Kinds == {"play", "pause", "resume", "stop"}
Command == [kind : Kinds, url : Urls \cup {None}]

ASSUME CallersAssumption == Cmds \cap Owners = {}
ASSUME NoneAssumption == None \notin Urls \cup Feeds \cup Sessions \cup Kinds \cup Command
ASSUME BoundsAssumption == MaxCmds \in Nat /\ MaxTurns \in Nat /\ MaxGone \in Nat

NewSession == [state |-> "idle", url |-> None, owned |-> FALSE, pending |-> None,
               resumeAfter |-> FALSE, ducked |-> FALSE, pos |-> FALSE,
               seekable |-> TRUE, task |-> None]

NoFeed == [pc |-> "free", s |-> None, eos |-> FALSE]

NoOp == [pc |-> "idle", s |-> None, kind |-> None, url |-> None, victim |-> None,
         was |-> FALSE, release |-> FALSE, deferred |-> None]

Init ==
    /\ left = [cmds |-> MaxCmds, turns |-> MaxTurns, gone |-> MaxGone]
    /\ sess = [s \in Sessions |-> NewSession]
    /\ cur = None
    /\ device \in [up : {TRUE}, mixes : BOOLEAN]
    /\ feed = [t \in Feeds |-> NoFeed]
    /\ op = [c \in Callers |-> NoOp]
    /\ told = "idle"
    /\ want = None
    /\ raced = FALSE

Alive(t) == feed[t].pc # "free"

\* Task objects nothing refers to any more.
Unused == {t \in Feeds : /\ ~Alive(t)
                         /\ \A s \in Sessions : sess[s].task # t
                         /\ \A c \in Callers : op[c].victim # t}

\* In the middle of an operation on a session.
Busy(c) == op[c].pc \in {"flush", "join", "push", "unduck"}

(* c starts such an operation while another one is under way.  Speech over *)
(* speech, a device that goes in the middle, and the end of a turn whose    *)
(* session was dropped count as well.                                      *)
Races(c) == raced \/ \E d \in Callers \ {c} : Busy(d)
-----------------------------------------------------------------------------
(* What Home Assistant is told (reported_state): our own pause for a turn  *)
(* is invisible to the user.                                               *)
ReportedState(r) ==
    IF r.owned /\ r.resumeAfter /\ r.pending = None THEN "playing" ELSE r.state

\* _push_state asks for the device's session of the moment, not for its own.
PushState(ss, s) == told' = IF s = None THEN "idle" ELSE ReportedState(ss[s])

\* The record of an owner that has the speaker, or is about to.
Holding(p, s) == [NoOp EXCEPT !.pc = p, !.s = s]

(* b is the record of the caller c.  An owner whose interrupt() is over    *)
(* holds the speaker.                                                      *)
Return(c, b) ==
    op' = [op EXCEPT ![c] = IF c \in Owners /\ ~b.release THEN Holding("hold", b.s) ELSE NoOp]

StartFeed(ss, s) ==
    LET t == CHOOSE x \in Unused : TRUE
    IN  /\ Unused # {}
        /\ sess' = [ss EXCEPT ![s].state = "playing", ![s].task = t]
        /\ feed' = [feed EXCEPT ![t] = [pc |-> "new", s |-> s, eos |-> FALSE]]

Resume(ss, c, b, s) ==
    /\ IF ss[s].state = "paused" /\ ss[s].url # None
       THEN StartFeed(ss, s)
       ELSE sess' = ss /\ UNCHANGED feed
    /\ Return(c, b)
    /\ UNCHANGED told

(* The end of play(): a new URL, and a feed for it. *)
PlayUrl(ss, c, b, s) ==
    /\ StartFeed([ss EXCEPT ![s].url = b.url, ![s].pos = FALSE, ![s].seekable = TRUE], s)
    /\ Return(c, b)
    /\ UNCHANGED told

(* What pause(), stop() and play() do once the old feed is gone; b.was is  *)
(* whether there was anything to stop.                                     *)
AfterHalt(ss, c, b, s) ==
    LET paused  == [ss EXCEPT ![s].state = "paused"]
        stopped == [ss EXCEPT ![s].state = "idle", ![s].url = None,
                              ![s].pos = FALSE, ![s].resumeAfter = FALSE]
        after   == IF b.kind = "pause" THEN paused ELSE stopped
    IN  \/ /\ b.kind = "pause" \/ b.was
           /\ sess' = after
           /\ PushState(after, cur')
           /\ op' = [op EXCEPT ![c] = [b EXCEPT !.pc = "push"]]
           /\ UNCHANGED feed
        \/ /\ b.kind = "stop" /\ ~b.was
           /\ sess' = stopped
           /\ Return(c, b)
           /\ UNCHANGED <<feed, told>>
        \/ /\ b.kind = "play" /\ ~b.was
           /\ PlayUrl(stopped, c, b, s)

\* A _halt that only knows feeds that have come as far as streaming.
StreamsStill(t) == t # None /\ feed[t].pc = "stream"

\* The task _halt has to tear down.
ToHalt(t) == t # None /\ feed[t].pc # "free"

(* An operation on a session up to its first await.  _halt takes the task  *)
(* away and, if it lives, sends the flush before it cancels.               *)
Perform(ss, c, base, s, k, u) ==
    LET t == ss[s].task
        b == [base EXCEPT !.s = s, !.kind = k, !.url = u, !.victim = t,
                          !.was = ss[s].state # "idle"]
        taken == [ss EXCEPT ![s].task = None]
    IN  \/ k = "resume" /\ Resume(ss, c, b, s)
        \/ /\ k = "pause" /\ ss[s].state # "playing"
           /\ sess' = ss
           /\ Return(c, b)
           /\ UNCHANGED <<feed, told>>
        \/ /\ k # "resume"
           /\ k = "pause" => ss[s].state = "playing"
           /\ IF ToHalt(t)
              THEN /\ sess' = taken
                   /\ op' = [op EXCEPT ![c] = [b EXCEPT !.pc = "flush"]]
                   /\ UNCHANGED <<feed, told>>
              ELSE AfterHalt(taken, c, [b EXCEPT !.victim = None], s)

(* CancelledError in the feed: bookmark the position, then the EOS unless  *)
(* it is out.  A task that never ran does neither.                         *)
Cancel(ss, t) ==
    LET f == feed[t] IN
    \/ /\ f.pc = "new"
       /\ feed' = [feed EXCEPT ![t] = NoFeed]
       /\ sess' = ss
    \/ /\ f.pc \in {"spawn", "seek", "start", "stream", "drain"}
       /\ feed' = [feed EXCEPT ![t].pc = IF f.eos THEN "exit" ELSE "eos"]
       /\ \E p \in BOOLEAN : sess' = [ss EXCEPT ![f.s].pos = p]
    \/ /\ f.pc \in {"eos", "exit", "free"}
       /\ sess' = ss
       /\ UNCHANGED feed

-----------------------------------------------------------------------------
(* The session of the device: the registered one, or a new object. *)
Fresh(s) == /\ sess[s] = NewSession
            /\ \A c \in Callers : op[c].s # s
            /\ \A t \in Feeds : feed[t].s # s

Session(s) ==
    IF cur # None THEN s = cur ELSE Fresh(s) /\ s = CHOOSE x \in Sessions : Fresh(x)

\* The two fields swapped.
RecordedSwapped(k, u) == [kind |-> u, url |-> k]

Recorded(k, u) == [kind |-> k, url |-> u]

\* Commands deferred only where interrupt() paused something.
DefersIfPaused(r) == r.owned /\ r.resumeAfter

Defers(r) == r.owned

(* POST media command.  While an owner speaks the command is recorded and  *)
(* its effect announced.                                                   *)
Defer(c, s, k, u) ==
    /\ sess' = [sess EXCEPT ![s].pending = Recorded(k, u)]
    /\ told' = CASE k \in {"play", "resume"} -> "playing"
                 [] k = "pause" -> "paused"
                 [] k = "stop" -> "idle"
    /\ UNCHANGED <<op, feed, raced>>

MediaCommand(c, k, u) ==
    /\ op[c].pc = "idle" /\ device.up
    /\ left.cmds > 0 /\ left' = [left EXCEPT !.cmds = @ - 1]
    /\ (k = "play") = (u # None)
    /\ want' = [kind |-> k, url |-> u]
    /\ UNCHANGED device
    /\ \E s \in Sessions :
        /\ Session(s)
        /\ cur' = s
        /\ \/ Defers(sess[s]) /\ Defer(c, s, k, u)
           \/ ~Defers(sess[s]) /\ raced' = Races(c) /\ Perform(sess, c, NoOp, s, k, u)

(* interrupt(): a turn, an announcement or an alarm takes the speaker.  A  *)
(* device that mixes ducks the music, another has it paused.               *)
Interrupt(o) ==
    /\ op[o].pc = "idle" /\ device.up
    /\ left.turns > 0 /\ left' = [left EXCEPT !.turns = @ - 1]
    /\ UNCHANGED <<device, want>>
    /\ raced' = (Races(o) \/ \E p \in Owners \ {o} : op[p].pc # "idle")
    /\ \E s \in Sessions :
        /\ Session(s)
        /\ cur' = s
        /\ LET taken == [sess EXCEPT ![s].owned = TRUE, ![s].pending = None]
           IN \/ /\ device.mixes
                 /\ sess' = [taken EXCEPT ![s].ducked = TRUE]
                 /\ op' = [op EXCEPT ![o] = Holding("duck", s)]
                 /\ UNCHANGED <<feed, told>>
              \/ /\ ~device.mixes /\ sess[s].state = "playing"
                 /\ Perform([taken EXCEPT ![s].resumeAfter = TRUE], o, NoOp, s, "pause", None)
              \/ /\ ~device.mixes /\ sess[s].state # "playing"
                 /\ sess' = taken
                 /\ op' = [op EXCEPT ![o] = Holding("hold", s)]
                 /\ UNCHANGED <<feed, told>>

DuckSent(o) ==
    /\ op[o].pc = "duck"
    /\ Return(o, op[o])
    /\ UNCHANGED <<sess, cur, device, feed, told, want, raced, left>>

\* A deferred pause taken for done, as if every device had paused.
StillToDoUnpaused(d, ducked) == d.kind # "pause"

(* Our own pause already did what a deferred pause asks for; ducking did not. *)
StillToDo(d, ducked) == d.kind # "pause" \/ ducked

(* The end of resume_interrupted(): the user's last command, or our own    *)
(* resume.                                                                *)
Settle(ss, o, b, s, ducked) ==
    LET nothing == sess' = ss /\ Return(o, b) /\ UNCHANGED <<feed, told>>
    IN  CASE b.deferred = None /\ b.was -> Resume(ss, o, b, s)
          [] b.deferred = None /\ ~b.was -> nothing
          [] b.deferred # None ->
               IF StillToDo(b.deferred, ducked)
               THEN Perform(ss, o, b, s, b.deferred.kind, b.deferred.url)
               ELSE nothing

(* resume_interrupted(), up to the message that ends the ducking. *)
Release(o) ==
    /\ op[o].pc = "hold"
    /\ UNCHANGED <<cur, device, want, left>>
    /\ raced' = (Races(o) \/ cur \notin {op[o].s, None})
    /\ \/ /\ cur = None
          /\ op' = [op EXCEPT ![o] = NoOp]
          /\ UNCHANGED <<sess, feed, told>>
       \/ /\ cur # None
          /\ LET r == sess[cur]
                 freed == [sess EXCEPT ![cur] = [r EXCEPT !.owned = FALSE,
                     !.pending = None, !.resumeAfter = FALSE, !.ducked = FALSE]]
                 b == [NoOp EXCEPT !.s = cur, !.release = TRUE,
                                   !.deferred = r.pending, !.was = r.resumeAfter]
             IN IF r.ducked /\ device.up
                THEN /\ sess' = freed
                     /\ op' = [op EXCEPT ![o] = [b EXCEPT !.pc = "unduck"]]
                     /\ UNCHANGED <<feed, told>>
                ELSE Settle(freed, o, b, cur, r.ducked)

UnduckSent(o) ==
    /\ op[o].pc = "unduck"
    /\ raced' = Races(o)
    /\ UNCHANGED <<cur, device, want, left>>
    /\ Settle(sess, o, op[o], op[o].s, TRUE)

(* The rest of _halt: the flush is out, the feed is cancelled and awaited. *)
FlushSent(c) ==
    /\ op[c].pc = "flush"
    /\ Cancel(sess, op[c].victim)
    /\ op' = [op EXCEPT ![c].pc = "join"]
    /\ UNCHANGED <<cur, device, told, want, raced, left>>

Joined(c) ==
    /\ op[c].pc = "join" /\ ~Alive(op[c].victim)
    /\ UNCHANGED <<cur, device, want, raced, left>>
    /\ AfterHalt(sess, c, [op[c] EXCEPT !.victim = None], op[c].s)

Pushed(c) ==
    /\ op[c].pc = "push"
    /\ \/ op[c].kind = "play" /\ PlayUrl(sess, c, op[c], op[c].s)
       \/ /\ op[c].kind # "play"
          /\ Return(c, op[c])
          /\ UNCHANGED <<sess, feed, told>>
    /\ UNCHANGED <<cur, device, want, raced, left>>
-----------------------------------------------------------------------------
(* The feed task.  Goes(t, p) moves it on. *)
Goes(t, p) == feed' = [feed EXCEPT ![t].pc = p]

\* The session ends by its own feed, and Home Assistant is told.
Finish(t, r) ==
    LET ss == [sess EXCEPT ![feed[t].s] = r] IN sess' = ss /\ PushState(ss, cur)

FeedBegins(t) ==
    LET s == feed[t].s IN
    /\ feed[t].pc = "new"
    /\ \/ /\ ~device.up
          /\ Finish(t, [sess[s] EXCEPT !.state = "idle"])
          /\ Goes(t, "exit")
       \/ /\ device.up
          /\ sess' = [sess EXCEPT ![s].pos = @ /\ sess[s].seekable]
          /\ Goes(t, "spawn")
          /\ UNCHANGED told

(* The decoder runs; a resume first waits for the seek to give audio. *)
DecoderSpawned(t) ==
    /\ feed[t].pc = "spawn"
    /\ \/ sess[feed[t].s].pos /\ Goes(t, "seek") /\ UNCHANGED told
       \/ ~sess[feed[t].s].pos /\ Goes(t, "start") /\ PushState(sess, cur)
    /\ UNCHANGED sess

SeekGivesAudio(t) ==
    /\ feed[t].pc = "seek"
    /\ Goes(t, "start")
    /\ PushState(sess, cur)
    /\ UNCHANGED sess

(* No audio within SEEK_STALL_S: not seekable, rejoin the live edge. *)
SeekStalls(t) ==
    /\ feed[t].pc = "seek"
    /\ sess' = [sess EXCEPT ![feed[t].s].pos = FALSE, ![feed[t].s].seekable = FALSE]
    /\ Goes(t, "spawn")
    /\ UNCHANGED told

FirstFrame(t) == feed[t].pc = "start" /\ Goes(t, "stream") /\ UNCHANGED <<sess, told>>

(* End of the media, or a source silent for SOURCE_DEAD_S. *)
SourceEnds(t) ==
    /\ feed[t].pc = "stream"
    /\ feed' = [feed EXCEPT ![t].pc = "drain", ![t].eos = TRUE]
    /\ UNCHANGED <<sess, told>>

Drained(t) ==
    /\ feed[t].pc = "drain"
    /\ Finish(t, [sess[feed[t].s] EXCEPT !.state = "idle", !.url = None, !.pos = FALSE])
    /\ Goes(t, "exit")

FeedFails(t) ==
    /\ feed[t].pc \in {"spawn", "stream"}
    /\ Finish(t, [sess[feed[t].s] EXCEPT !.state = "idle"])
    /\ Goes(t, "eos")

\* An EOS that waits for the data socket for as long as it takes.
EosWhenConnected(t) ==
    /\ feed[t].pc = "eos" /\ device.up
    /\ feed' = [feed EXCEPT ![t].pc = "exit", ![t].eos = TRUE]
    /\ UNCHANGED <<sess, told>>

(* The finally block: the EOS that ends the device's discarding. *)
EosSent(t) ==
    /\ feed[t].pc = "eos"
    /\ feed' = [feed EXCEPT ![t].pc = "exit", ![t].eos = TRUE]
    /\ UNCHANGED <<sess, told>>

FeedReturns(t) ==
    /\ feed[t].pc = "exit"
    /\ feed' = [feed EXCEPT ![t] = NoFeed]
    /\ UNCHANGED <<sess, told>>

FeedStep(t) ==
    /\ \/ FeedBegins(t) \/ DecoderSpawned(t) \/ SeekGivesAudio(t) \/ SeekStalls(t)
       \/ FirstFrame(t) \/ SourceEnds(t) \/ Drained(t) \/ FeedFails(t)
       \/ EosSent(t) \/ FeedReturns(t)
    /\ UNCHANGED <<cur, device, op, want, raced, left>>
-----------------------------------------------------------------------------
(* device_gone(): the session is dropped and its feed cancelled without a  *)
(* word on the wire.  Home Assistant shows the device as unavailable.      *)
DeviceGone ==
    /\ device.up
    /\ left.gone > 0 /\ left' = [left EXCEPT !.gone = @ - 1]
    /\ device' = [device EXCEPT !.up = FALSE]
    /\ cur' = None
    /\ told' = "idle"
    /\ want' = None
    /\ IF cur = None THEN UNCHANGED <<sess, feed>>
       ELSE LET ss == [sess EXCEPT ![cur].state = "idle", ![cur].task = None]
            IN IF sess[cur].task = None THEN sess' = ss /\ UNCHANGED feed
               ELSE Cancel(ss, sess[cur].task)
    /\ raced' = (raced \/ \E c \in Callers : Busy(c))
    /\ UNCHANGED op

Reconnect ==
    /\ ~device.up
    /\ \E m \in BOOLEAN : device' = [up |-> TRUE, mixes |-> m]
    /\ UNCHANGED <<sess, cur, feed, op, told, want, raced, left>>

\* A feed that is past its stream has only its finally block to go through.
UnwindStep(t) == FeedStep(t) /\ feed[t].pc \in {"eos", "exit"}

OpStep(c) == FlushSent(c) \/ Joined(c) \/ Pushed(c)
OwnerStep(o) == DuckSent(o) \/ UnduckSent(o)

Next ==
    \/ \E c \in Cmds, k \in Kinds, u \in Urls \cup {None} : MediaCommand(c, k, u)
    \/ \E o \in Owners : Interrupt(o) \/ Release(o) \/ OwnerStep(o)
    \/ \E c \in Callers : OpStep(c)
    \/ \E t \in Feeds : FeedStep(t)
    \/ DeviceGone \/ Reconnect

Spec == Init /\ [][Next]_vars

(* The event loop runs every task whose await is over. *)
FairSpec ==
    /\ Spec
    /\ \A c \in Callers : WF_vars(OpStep(c))
    /\ \A o \in Owners : WF_vars(OwnerStep(o))
    /\ \A t \in Feeds : WF_vars(UnwindStep(t))
-----------------------------------------------------------------------------
SessionRecord ==
    [state : States, url : Urls \cup {None}, owned : BOOLEAN, pending : Command \cup {None},
     resumeAfter : BOOLEAN, ducked : BOOLEAN, pos : BOOLEAN, seekable : BOOLEAN,
     task : Feeds \cup {None}]

FeedRecord ==
    [pc : {"free", "new", "spawn", "seek", "start", "stream", "drain", "eos", "exit"},
     s : Sessions \cup {None}, eos : BOOLEAN]

OpRecord ==
    [pc : {"idle", "flush", "join", "push", "duck", "hold", "unduck"}, s : Sessions \cup {None},
     kind : Kinds \cup {None}, url : Urls \cup {None}, victim : Feeds \cup {None},
     was : BOOLEAN, release : BOOLEAN, deferred : Command \cup {None}]

TypeOK ==
    /\ left \in [cmds : 0..MaxCmds, turns : 0..MaxTurns, gone : 0..MaxGone]
    /\ sess \in [Sessions -> SessionRecord]
    /\ cur \in Sessions \cup {None}
    /\ device \in [up : BOOLEAN, mixes : BOOLEAN]
    /\ feed \in [Feeds -> FeedRecord]
    /\ op \in [Callers -> OpRecord]
    /\ told \in States
    /\ want \in Command \cup {None}
    /\ raced \in BOOLEAN

\* The feed is on its way to put music on the wire, or does.
Audible(t) == feed[t].pc \in {"new", "spawn", "seek", "start", "stream", "drain"}

\* Nobody operates on the session or owns the speaker.
Quiet == \A c \in Callers : op[c].pc = "idle"

(* The user's last command decides what plays once speech is over: after a *)
(* pause or stop, given before, during or after a turn, no feed of music   *)
(* is left, and after a play nothing but that URL plays (em_player #53,    *)
(* #62) - unless two operations overlapped in the awaits of _halt.         *)
LastCommandWins ==
    Quiet /\ ~raced /\ want # None =>
        /\ want.kind \in {"pause", "stop"} =>
             /\ sess[cur].state # "playing"
             /\ \A t \in Feeds : ~Audible(t)
        /\ want.kind = "play" /\ sess[cur].state = "playing" => sess[cur].url = want.url

(* One feed at a time puts music on the wire, unless operations overlapped.*)
OneFeed ==
    ~raced => Cardinality({t \in Feeds : Audible(t)}) <= 1

(* On a device that cannot mix, no music is sent while an owner speaks:    *)
(* not by a feed that was under way, nor by a command that came meanwhile. *)
SpeechIsAlone ==
    ~device.mixes /\ ~raced /\ (\E o \in Owners : op[o].pc = "hold" /\ op[o].s = cur) =>
        \A t \in Feeds : ~Audible(t)

(* Every operation on a session ends, so that no turn hangs on the music   *)
(* it interrupted: a cancelled feed always gets through its finally block. *)
OperationsEnd == \A c \in Callers : Busy(c) ~> ~Busy(c)
-----------------------------------------------------------------------------
(* What the code does not keep.                                            *)

(* "A command issued during the turn wins over our auto-resume"            *)
(* (em_player.py:306), for commands given at any time: a pause that is     *)
(* still awaiting its flush leaves the state at playing, the interrupt of  *)
(* a turn takes that for its own to resume, and the turn's end resumes.    *)
PauseSurvivesTurn ==
    Quiet /\ want # None /\ want.kind \in {"pause", "stop"} => \A t \in Feeds : ~Audible(t)

(* play() stops what plays before it starts (em_player.py:438): two plays  *)
(* that overlap in stop() leave two feeds on the wire, one out of reach.   *)
OneFeedAlways == Cardinality({t \in Feeds : Audible(t)}) <= 1

(* push_intent tells Home Assistant "what WILL be true once the turn       *)
(* releases the speaker" (em_player.py:524): a resume or pause of nothing  *)
(* is announced and never taken back.                                      *)
AnnouncedIsTrue ==
    Quiet /\ cur # None /\ (\A t \in Feeds : feed[t].pc \in {"free", "stream", "drain"}) =>
        told = ReportedState(sess[cur])

=============================================================================
