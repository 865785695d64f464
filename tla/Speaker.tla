------------------------------ MODULE Speaker ------------------------------
(* The voice stream from the controller to the speaker of a device           *)
(* (em_controller.py: stream_speaker, the post-turn playback functions; the  *)
(* device's bindings/speaker/stream.go).                                     *)
(*                                                                           *)
(* A playback holds the speaker lease, sends its periods and one EOS on the  *)
(* data connection, and waits for the device's playback_stats, for a         *)
(* cancellation or for a timeout.  A cancellation also sends speaker_flush   *)
(* on the control connection: nothing orders the two.  The device drops what *)
(* it has queued and discards what still arrives until the EOS.              *)
EXTENDS Naturals, Sequences, FiniteSets

CONSTANTS Periods,      \* periods of a response
          Prime,        \* periods queued before the device starts to play
          Depth,        \* bound: periods the device queues
          MaxStreams,   \* bound: playbacks
          MaxCancels,   \* bound: cancellations and stops
          MaxDrops      \* bound: losses of the data connection

VARIABLES
    waiting, started,   \* playbacks that wait for the lease; how many had it
    play,               \* the playback that holds the lease
    cancel,             \* device.cancel_event
    playback_done,      \* device.playback_done
    speaking,           \* device.speaking
    late,               \* EOS that were left to a task of their own
    link, data,         \* the data connection and what is in it
    flushes, stats,     \* speaker_flush and playback_stats under way
    ch, pumping,        \* the queue of the device, the period about to enter it
    active, discarding, eosPending, playing,
    flush,              \* where the flush of the device is
    cancels, drops,
    cur, flushed,       \* history: the stream on the device, those that were flushed
    swallowed, leaked,  \* streams that lost a period to a flush, periods played after it
    lost                \* streams whose EOS was lost or came late

controller == <<waiting, started, play, cancel, speaking, late>>
device == <<ch, pumping, active, discarding, eosPending, playing, flush>>
history == <<cur, flushed, swallowed, leaked, lost>>
wire == <<link, data>>
vars == <<controller, playback_done, wire, flushes, stats, device, cancels, drops, history>>

Streams == 1..MaxStreams
Kinds == {"answer", "alarm"}
Idle == [k |-> 0, kind |-> "answer", pc |-> "idle", sent |-> 0, cancelled |-> FALSE, stopped |-> FALSE]
Frames == [type : {"pcm", "eos"}, k : Streams]

TypeOK ==
    /\ waiting \in Seq(Kinds) /\ started \in 0..MaxStreams
    /\ play.k \in 0..MaxStreams /\ play.pc \in {"idle", "prep", "stream", "eos", "drain", "closing"}
    /\ play.sent \in 0..Periods
    /\ late \subseteq Streams /\ data \in Seq(Frames)
    /\ ch \in Seq(Streams) /\ Len(ch) <= Depth /\ pumping \in 0..MaxStreams
    /\ flush \in {"none", "drain"}
    /\ leaked \in [Streams -> 0..Periods]

Init ==
    /\ waiting = <<>> /\ started = 0 /\ play = Idle
    /\ cancel = FALSE /\ playback_done = FALSE /\ speaking = FALSE /\ late = {}
    /\ link = TRUE /\ data = <<>> /\ flushes = 0 /\ stats = <<>>
    /\ ch = <<>> /\ pumping = 0 /\ active = FALSE /\ discarding = FALSE /\ eosPending = FALSE /\ playing = FALSE
    /\ flush = "none" /\ cancels = 0 /\ drops = 0
    /\ cur = 0 /\ flushed = {} /\ swallowed = {} /\ leaked = [k \in Streams |-> 0] /\ lost = {}

----------------------------------------------------------------------------
(* The controller. *)

Sent(type, k) ==
    IF link THEN data' = Append(data, [type |-> type, k |-> k]) /\ UNCHANGED lost
    ELSE /\ UNCHANGED data
         /\ lost' = IF type = "eos" THEN lost \cup {k} ELSE lost

Quiet == UNCHANGED <<flushes, stats, device, cancels, drops, link, cur, flushed, swallowed, leaked>>
End == play' = Idle /\ speaking' = FALSE

\* an announcement forgets the cancellation before it has the lease
Request(kind) ==
    /\ started + Len(waiting) < MaxStreams
    /\ waiting' = Append(waiting, kind)
    /\ cancel' = IF kind = "answer" THEN FALSE ELSE cancel
    /\ UNCHANGED <<started, play, speaking, late, playback_done, data, lost>> /\ Quiet

\* the response of a turn streams at once; a buffered one goes through the EQ
Acquire ==
    /\ waiting # <<>> /\ play.pc = "idle"
    /\ waiting' = Tail(waiting) /\ started' = started + 1
    /\ play' = [Idle EXCEPT !.k = started + 1, !.kind = Head(waiting),
                   !.pc = IF Head(waiting) = "alarm" THEN "prep" ELSE "stream",
                   !.cancelled = Head(waiting) = "answer" /\ cancel]
    /\ playback_done' = IF Head(waiting) = "alarm" THEN playback_done ELSE FALSE
    /\ UNCHANGED <<cancel, speaking, late, data, lost>> /\ Quiet

Prepared ==
    /\ play.pc = "prep"
    /\ play' = [play EXCEPT !.pc = "stream"]
    /\ playback_done' = FALSE /\ speaking' = TRUE
    /\ UNCHANGED <<waiting, started, cancel, late, data, lost>> /\ Quiet

\* the loop looks at the event of the device, whatever cancels the playback
SendPeriod ==
    /\ play.pc = "stream" /\ play.sent < Periods /\ ~cancel
    /\ Sent("pcm", play.k)
    /\ play' = [play EXCEPT !.sent = @ + 1]
    /\ speaking' = TRUE
    /\ UNCHANGED <<waiting, started, cancel, late, playback_done>> /\ Quiet

SentAll ==
    /\ play.pc = "stream" /\ (play.sent = Periods \/ cancel)
    /\ play' = [play EXCEPT !.pc = "eos"]
    /\ UNCHANGED <<waiting, started, cancel, speaking, late, playback_done, data, lost>> /\ Quiet

\* the stream is cancelled; its EOS is sent all the same
Cut ==
    /\ play.pc \in {"stream", "eos"} /\ play.cancelled
    /\ play' = [play EXCEPT !.pc = "closing"]
    /\ speaking' = IF play.kind = "answer" THEN FALSE ELSE speaking
    /\ UNCHANGED <<waiting, started, cancel, late, playback_done, data, lost>> /\ Quiet

\* mutant for DiscardsItsOwn: a stream that is cut ends without an EOS
EosUnlessCut(k) == IF play.pc = "closing" THEN UNCHANGED <<data, lost>> ELSE Sent("eos", k)
Eos(k) == Sent("eos", k)

\* while the link is away the EOS waits for it, for the grace there is
SendEos ==
    /\ play.pc \in {"eos", "closing"}
    /\ Eos(play.k)
    /\ IF play.pc = "closing" \/ (play.kind = "answer" /\ play.sent = 0) THEN End
       ELSE play' = [play EXCEPT !.pc = "drain"] /\ UNCHANGED speaking
    /\ UNCHANGED <<waiting, started, cancel, late, playback_done>> /\ Quiet

Drained ==
    /\ play.pc = "drain" /\ (playback_done \/ play.cancelled)
    /\ End
    /\ UNCHANGED <<waiting, started, cancel, late, playback_done, data, lost>> /\ Quiet

\* mutant for LeaseEnds: the wait has no backstop
NoBackstop == FALSE
Backstop == play.pc = "drain"

DrainTimeout ==
    /\ Backstop /\ End
    /\ UNCHANGED <<waiting, started, cancel, late, playback_done, data, lost>> /\ Quiet

Stopping == cancels < MaxCancels /\ cancels' = cancels + 1 /\ flushes' = flushes + 1
Undisturbed == UNCHANGED <<stats, device, drops, link, history, started, speaking, late, playback_done, data>>

\* a button, a mute or a barge: always with a speaker_flush
CancelTurn ==
    /\ Stopping /\ Undisturbed
    /\ cancel' = TRUE
    /\ play' = IF play.kind = "answer" /\ play.pc # "idle" THEN [play EXCEPT !.cancelled = TRUE] ELSE play
    /\ UNCHANGED waiting

\* the alarm has a cancellation of its own, whoever has the lease
StopAlarm ==
    /\ Stopping /\ Undisturbed
    /\ \/ /\ play.kind = "alarm" /\ play.pc # "idle" /\ ~play.stopped
          /\ play' = [play EXCEPT !.cancelled = TRUE, !.stopped = TRUE]
          /\ UNCHANGED waiting
       \/ /\ waiting # <<>> /\ Head(waiting) = "alarm"
          /\ waiting' = Tail(waiting) /\ UNCHANGED play
    /\ UNCHANGED cancel

\* then its task is cancelled: outside of the try nothing is cleaned up, and in
\* the finally it interrupts the wait for the EOS and skips what comes after
KillAlarm ==
    /\ play.kind = "alarm" /\ play.stopped
    /\ \/ play.pc = "prep" /\ play' = Idle /\ UNCHANGED <<speaking, late, lost>>
       \/ /\ play.pc \in {"stream", "eos"}
          /\ play' = [play EXCEPT !.pc = "closing", !.stopped = FALSE] /\ UNCHANGED <<speaking, late, lost>>
       \/ play.pc = "drain" /\ End /\ UNCHANGED <<late, lost>>
       \/ /\ play.pc = "closing"
          /\ play' = Idle /\ late' = late \cup {play.k} /\ lost' = lost \cup {play.k} /\ UNCHANGED speaking
    /\ UNCHANGED <<waiting, started, cancel, playback_done, data>> /\ Quiet

\* the EOS of an alarm that was killed while it waited for the link
LateEos(k) ==
    /\ k \in late
    /\ late' = late \ {k}
    /\ Sent("eos", k)
    /\ UNCHANGED <<waiting, started, play, cancel, speaking, playback_done>> /\ Quiet

PlaybackStats ==
    /\ stats # <<>>
    /\ stats' = Tail(stats) /\ playback_done' = TRUE
    /\ UNCHANGED <<controller, wire, flushes, device, cancels, drops, history>>

----------------------------------------------------------------------------
(* The connection. *)

DropData ==
    /\ link /\ drops < MaxDrops
    /\ link' = FALSE /\ drops' = drops + 1
    /\ data' = <<>>
    /\ lost' = lost \cup {data[i].k : i \in {j \in DOMAIN data : data[j].type = "eos"}}
    /\ UNCHANGED <<controller, playback_done, flushes, stats, device, cancels, cur, flushed, swallowed, leaked>>

Reconnect ==
    /\ ~link /\ link' = TRUE
    /\ UNCHANGED <<controller, playback_done, data, flushes, stats, device, cancels, drops, history>>

----------------------------------------------------------------------------
(* The device. *)

Received == pumping = 0 /\ data # <<>> /\ data' = Tail(data)
Other == UNCHANGED <<controller, playback_done, link, cancels, drops, lost>>

\* mutant for FlushIsSilent: what is under way is not discarded
QueueAnyway == FALSE
Discards == discarding

\* pump decides under the lock and queues after it
Pump ==
    /\ Received /\ Head(data).type = "pcm"
    /\ cur' = Head(data).k
    /\ IF Discards
       THEN swallowed' = swallowed \cup {Head(data).k} /\ UNCHANGED <<pumping, active>>
       ELSE pumping' = Head(data).k /\ active' = TRUE /\ UNCHANGED swallowed
    /\ UNCHANGED <<ch, discarding, eosPending, playing, flush, flushes, stats, flushed, leaked>> /\ Other

Queue ==
    /\ pumping # 0 /\ Len(ch) < Depth
    /\ ch' = Append(ch, pumping) /\ pumping' = 0
    /\ UNCHANGED <<data, active, discarding, eosPending, playing, flush, flushes, stats, cur, flushed, swallowed, leaked>> /\ Other

EndStream ==
    /\ Received /\ Head(data).type = "eos"
    /\ active' = FALSE /\ discarding' = FALSE
    /\ eosPending' = (eosPending \/ ~discarding)
    /\ UNCHANGED <<ch, pumping, playing, flush, flushes, stats, cur, flushed, swallowed, leaked>> /\ Other

\* arm under the lock, then the flag and the queue
FlushArm ==
    /\ flushes > 0 /\ flush = "none"
    /\ flushes' = flushes - 1 /\ flush' = "drain"
    /\ discarding' = (discarding \/ active)
    /\ flushed' = IF active THEN flushed \cup {cur} ELSE flushed
    /\ UNCHANGED <<data, ch, pumping, active, eosPending, playing, stats, cur, swallowed, leaked>> /\ Other

FlushDrain ==
    /\ flush = "drain"
    /\ flush' = "none" /\ eosPending' = TRUE /\ ch' = <<>>
    /\ UNCHANGED <<data, pumping, active, discarding, playing, flushes, stats, cur, flushed, swallowed, leaked>> /\ Other

Ready == ch # <<>> /\ (playing \/ Len(ch) >= Prime \/ eosPending)

Take ==
    /\ Ready
    /\ ch' = Tail(ch) /\ playing' = TRUE
    /\ leaked' = IF Head(ch) \in flushed /\ flush = "none" THEN [leaked EXCEPT ![Head(ch)] = @ + 1] ELSE leaked
    /\ UNCHANGED <<data, pumping, active, discarding, eosPending, flush, flushes, stats, cur, flushed, swallowed>> /\ Other

\* a drain is the end of a stream when the flag is up, and an underrun if not
ChannelDrained ==
    /\ playing /\ ch = <<>>
    /\ playing' = FALSE /\ eosPending' = FALSE
    /\ stats' = IF eosPending THEN Append(stats, cur) ELSE stats
    /\ UNCHANGED <<data, ch, pumping, active, discarding, flush, flushes, cur, flushed, swallowed, leaked>> /\ Other

----------------------------------------------------------------------------

Playback == Acquire \/ Prepared \/ SendPeriod \/ SentAll \/ Cut \/ SendEos \/ Drained \/ DrainTimeout \/ KillAlarm
Device == Pump \/ Queue \/ EndStream \/ FlushArm \/ FlushDrain \/ Take \/ ChannelDrained

Next ==
    \/ Playback \/ Device
    \/ \E kind \in Kinds : Request(kind)
    \/ CancelTurn \/ StopAlarm
    \/ \E k \in Streams : LateEos(k)
    \/ PlaybackStats \/ DropData \/ Reconnect

Spec == Init /\ [][Next]_vars

\* the event loop runs what is ready; the user and the network owe nothing
FairSteps == WF_vars(Playback)

FairSpec == Spec /\ FairSteps

----------------------------------------------------------------------------
(* Properties. *)

\* Discard is only ever armed with a stream behind it, and as long as no EOS was
\* lost it swallows periods of no stream but those that were flushed: stream.go,
\* "discard-until-EOS consumes exactly the remainder of the cancelled stream".
DiscardsItsOwn ==
    /\ discarding => active
    /\ lost = {} => swallowed \subseteq flushed

\* Once a flush is through, at most the period that was about to be queued is
\* still played of the stream it cut.
FlushIsSilent == lost = {} => \A k \in Streams : leaked[k] <= 1

\* Every playback gives the lease back, whatever the device reports.
LeaseEnds == (play.pc # "idle") ~> (play.pc = "idle")

\* em_controller.py, _set_speaking: "False is device truth."  A playback that
\* ends on the report of the device has been played.
FalseIsDeviceTruth ==
    [][play.pc = "drain" /\ playback_done /\ ~play.cancelled /\ play'.pc = "idle"
         => \A i \in DOMAIN ch : ch[i] # play.k]_vars

\* em_controller.py, stream_speaker: "WS gone / re-cancelled — device flush
\* self-heals on reconnect".  A stream is swallowed only if it was flushed.
SelfHeals == swallowed \subseteq flushed

\* em_controller.py, playback: "it must also retire the dashboard state".
SpeakingRetired == play.pc = "idle" => ~speaking
=============================================================================
