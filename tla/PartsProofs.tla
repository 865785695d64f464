----------------------------- MODULE PartsProofs -----------------------------
(***************************************************************************)
(* Theorems about the parts that the runs Live and Parts put side by side, *)
(* each for every value of its constants.  The turns of the integration    *)
(* (HaTurns): the turn engine implements the safety part of TurnLife, and, *)
(* without announcements, a pipeline runs only for the turn the satellite  *)
(* holds.  The speaker (Speaker): a flush is silent and discards only what *)
(* was cut.  The captures (Captures): what is acknowledged is kept, once,  *)
(* and an opt-out is honoured.  The trainer (Forge): what it trains on is  *)
(* there and whole.  The migrations (Schema): a database is copied before  *)
(* it is touched.  The parts do not interact: nothing below relates a      *)
(* variable of one to one of another.                                      *)
(***************************************************************************)
EXTENDS MCLive, MCParts, WellFoundedInduction, TLAPS

-----------------------------------------------------------------------------
(***************************************************************************)
(* The speaker (Speaker).  A flush is silent because the frames on the way *)
(* are in the order of their streams and the device discards until the EOS *)
(* of what was cut: SilentInv says where that EOS is.                      *)
(***************************************************************************)
Pcs == {"idle", "prep", "stream", "eos", "drain", "closing"}
Fields == {"k", "kind", "pc", "sent", "cancelled", "stopped"}

\* A playback: what the argument reads of it.
Playing(p) == DOMAIN p = Fields /\ p.k \in 0..MaxStreams /\ p.pc \in Pcs /\ p.sent \in 0..Periods

\* The types of what the argument reads; a playback under way is the last one started.
SpeakerTypes ==
    /\ waiting \in Seq(S!Kinds) /\ started \in 0..MaxStreams /\ Playing(play)
    /\ started + Len(waiting) <= MaxStreams
    /\ (play.pc # "idle" => play.k = started /\ play.k \in S!Streams)
    /\ late \subseteq S!Streams /\ data \in Seq(S!Frames)
    /\ ch \in Seq(S!Streams) /\ pumping \in 0..MaxStreams /\ cur \in 0..MaxStreams
    /\ speakerActive \in BOOLEAN /\ discarding \in BOOLEAN /\ flush \in {"none", "drain"}
    /\ flushed \subseteq 0..MaxStreams /\ leaked \in [S!Streams -> Nat]
    /\ (late # {} => lost # {})

\* The playback that may still put a frame on the data connection.
Sending == play.pc \in {"stream", "eos", "closing"}

\* The EOS of stream k is under way.
EosComes(k) == \E j \in DOMAIN data : data[j].type = "eos" /\ data[j].k = k

\* The frames under way are in the order of the streams, the EOS of each after
\* its periods, and none is older than the stream on the device.
InOrder ==
    /\ \A i, j \in DOMAIN data : i < j =>
          data[i].k <= data[j].k /\ (data[i].type = "eos" => data[i].k < data[j].k)
    /\ \A i \in DOMAIN data : cur <= data[i].k /\ (~speakerActive => cur < data[i].k)

\* The frames are of streams that were started; the playback that still sends
\* has no EOS among them, the one that is prepared no frame at all.
OfStarted ==
    /\ cur <= started
    /\ \A i \in DOMAIN data : data[i].k <= started
    /\ Sending => /\ ~speakerActive => cur < started
                  /\ \A i \in DOMAIN data : data[i].type = "eos" => data[i].k < started
    /\ play.pc = "prep" => cur < started /\ \A i \in DOMAIN data : data[i].k < started

\* Every stream of which a period is under way or on the device is still sent,
\* or its EOS is under way.
WillEnd ==
    /\ \A i \in DOMAIN data : data[i].type = "pcm" =>
          (Sending /\ play.k = data[i].k) \/ EosComes(data[i].k)
    /\ speakerActive => (Sending /\ play.k = cur) \/ EosComes(cur)

\* What was flushed is over, or is the stream that is being discarded.
CutIsOver ==
    /\ \A k \in flushed : k <= cur /\ (speakerActive /\ k = cur => discarding)
    /\ discarding => cur \in flushed
    /\ swallowed \subseteq flushed

\* Of a stream that was flushed at most one period is left: played, in the
\* queue, or about to be queued.
OneLeft ==
    \A k \in flushed \cap S!Streams :
        /\ leaked[k] <= 1
        /\ leaked[k] = 1 => pumping # k /\ (flush = "none" => \A i \in DOMAIN ch : ch[i] # k)
        /\ pumping = k => (flush = "none" => \A i \in DOMAIN ch : ch[i] # k)
        /\ flush = "none" => \A i, j \in DOMAIN ch : ch[i] = k /\ ch[j] = k => i = j

SilentInv ==
    /\ SpeakerTypes
    /\ discarding => speakerActive
    /\ \A k \in S!Streams : k \notin flushed => leaked[k] = 0
    /\ lost = {} => InOrder /\ OfStarted /\ WillEnd /\ CutIsOver /\ OneLeft

---------------------------------------------------------------------------
LEMMA SilentInit == S!Init => SilentInv
  <1> SUFFICES ASSUME S!Init PROVE SilentInv OBVIOUS
  <1>1. SpeakerTypes
    <2>1. Playing(S!Idle) /\ S!Idle.pc = "idle" BY SpeakerBounds DEF S!Idle, Playing, Fields, Pcs
    <2>2. leaked \in [S!Streams -> Nat] BY DEF S!Init
    <2>3. waiting \in Seq(S!Kinds) /\ Len(waiting) = 0 /\ data \in Seq(S!Frames) /\ ch \in Seq(S!Streams)
      BY DEF S!Init
    <2>4. speakerActive \in BOOLEAN /\ discarding \in BOOLEAN BY DEF S!Init
    <2> QED BY <2>1, <2>2, <2>3, <2>4, SpeakerBounds DEF S!Init, SpeakerTypes
  <1>2. InOrder /\ OfStarted /\ WillEnd
    BY SpeakerBounds DEF S!Init, InOrder, OfStarted, WillEnd, Sending, S!Idle
  <1>3. CutIsOver /\ OneLeft
    BY DEF S!Init, CutIsOver, OneLeft
  <1> QED BY <1>1, <1>2, <1>3 DEF S!Init, SilentInv

---------------------------------------------------------------------------
(* The types. *)

PlayTypes ==
    /\ waiting \in Seq(S!Kinds) /\ started \in 0..MaxStreams /\ Playing(play)
    /\ started + Len(waiting) <= MaxStreams
    /\ (play.pc # "idle" => play.k = started /\ play.k \in S!Streams)
    /\ late \subseteq S!Streams
    /\ (late # {} => lost # {})

StreamTypes ==
    /\ data \in Seq(S!Frames)
    /\ ch \in Seq(S!Streams) /\ pumping \in 0..MaxStreams /\ cur \in 0..MaxStreams
    /\ speakerActive \in BOOLEAN /\ discarding \in BOOLEAN /\ flush \in {"none", "drain"}
    /\ flushed \subseteq 0..MaxStreams /\ leaked \in [S!Streams -> Nat]

LEMMA SentTypes ==
  ASSUME data \in Seq(S!Frames), NEW type \in {"pcm", "eos"}, NEW k \in S!Streams, S!Sent(type, k)
  PROVE  data' \in Seq(S!Frames) /\ lost \subseteq lost'
  <1>1. [type |-> type, k |-> k] \in S!Frames BY DEF S!Frames
  <1>2. Append(data, [type |-> type, k |-> k]) \in Seq(S!Frames) BY <1>1
  <1> QED BY <1>2 DEF S!Sent

LEMMA PlayStep == SpeakerTypes /\ [S!Next]_S!vars => PlayTypes'
  <1> SUFFICES ASSUME SpeakerTypes, [S!Next]_S!vars PROVE PlayTypes' OBVIOUS
  <1> USE SpeakerBounds DEF SpeakerTypes, PlayTypes, S!Quiet, S!End
  <1>0. Playing(S!Idle) /\ S!Idle.pc = "idle" BY DEF S!Idle, Playing, Fields, Pcs
  <1>1. ASSUME NEW kind \in S!Kinds, S!Request(kind) PROVE PlayTypes'
    <2>1. waiting' \in Seq(S!Kinds) /\ Len(waiting') = Len(waiting) + 1 BY <1>1 DEF S!Request
    <2> QED BY <1>1, <2>1 DEF S!Request
  <1>2. CASE S!Acquire
    <2>1. Head(waiting) \in S!Kinds /\ Tail(waiting) \in Seq(S!Kinds) /\ Len(waiting) >= 1
          /\ Len(Tail(waiting)) = Len(waiting) - 1
      BY <1>2 DEF S!Acquire
    <2>2. started' \in 0..MaxStreams /\ started' \in S!Streams /\ started' + Len(waiting') <= MaxStreams
      BY <1>2, <2>1 DEF S!Acquire, S!Streams
    <2>3. Playing(play') /\ play'.k = started'
      BY <1>2, <2>1 DEF S!Acquire, Playing, Fields, S!Idle, Pcs
    <2> QED BY <1>2, <2>1, <2>2, <2>3 DEF S!Acquire
  <1>3. CASE S!Prepared BY <1>3 DEF S!Prepared, Playing, Fields, Pcs
  <1>4. CASE S!SendPeriod
    <2>1. play.k \in S!Streams BY <1>4 DEF S!SendPeriod
    <2> QED BY <1>4, <2>1, SentTypes DEF S!SendPeriod, Playing, Fields, Pcs
  <1>5. CASE S!SentAll BY <1>5 DEF S!SentAll, Playing, Fields, Pcs
  <1>6. CASE S!Cut BY <1>6 DEF S!Cut, Playing, Fields, Pcs
  <1>7. CASE S!SendEos BY <1>7, <1>0 DEF S!SendEos, Playing, Fields, Pcs, S!Eos, S!Sent
  <1>8. CASE S!Drained \/ S!DrainTimeout BY <1>8, <1>0 DEF S!Drained, S!DrainTimeout
  <1>9. CASE S!KillAlarm BY <1>9, <1>0 DEF S!KillAlarm, Playing, Fields, Pcs
  <1>10. CASE S!CancelTurn BY <1>10 DEF S!CancelTurn, S!Stopping, S!Undisturbed, Playing, Fields, S!history
  <1>11. CASE S!StopAlarm
    <2>1. waiting' = waiting \/ (waiting # <<>> /\ waiting' = Tail(waiting)) BY <1>11 DEF S!StopAlarm
    <2>a. waiting # <<>> => Tail(waiting) \in Seq(S!Kinds) /\ Len(Tail(waiting)) <= Len(waiting)
      <3>1. waiting # <<>> => Len(waiting) >= 1 /\ Len(Tail(waiting)) = Len(waiting) - 1
                              /\ Tail(waiting) \in Seq(S!Kinds) OBVIOUS
      <3> QED BY <3>1
    <2>2. waiting' \in Seq(S!Kinds) /\ Len(waiting') <= Len(waiting)
      <3>1. CASE waiting' = waiting BY <3>1
      <3>2. CASE waiting # <<>> /\ waiting' = Tail(waiting) BY <3>2, <2>a
      <3> QED BY <2>1, <3>1, <3>2
    <2>3. Playing(play') /\ play'.k = play.k /\ play'.pc = play.pc
      BY <1>11 DEF S!StopAlarm, Playing, Fields
    <2> QED BY <1>11, <2>2, <2>3 DEF S!StopAlarm, S!Undisturbed, S!history
  <1>12. ASSUME NEW k \in S!Streams, S!LateEos(k) PROVE PlayTypes' BY <1>12 DEF S!LateEos, S!Sent
  <1>13. CASE S!PlaybackStats \/ S!Reconnect
    BY <1>13 DEF S!PlaybackStats, S!Reconnect, S!controller, S!history
  <1>14. CASE S!DropData BY <1>14 DEF S!DropData, S!controller
  <1>15. CASE S!Device
    BY <1>15 DEF S!Device, S!Pump, S!Queue, S!EndStream, S!FlushArm, S!FlushDrain, S!Take, S!ChannelDrained,
                 S!Received, S!Other, S!controller
  <1>16. CASE UNCHANGED S!vars BY <1>16 DEF S!vars, S!controller, S!history
  <1> QED BY <1>1, <1>2, <1>3, <1>4, <1>5, <1>6, <1>7, <1>8, <1>9, <1>10, <1>11, <1>12, <1>13,
             <1>14, <1>15, <1>16 DEF S!Next, S!Playback

LEMMA StreamStep == SpeakerTypes /\ [S!Next]_S!vars => StreamTypes'
  <1> SUFFICES ASSUME SpeakerTypes, [S!Next]_S!vars PROVE StreamTypes' OBVIOUS
  <1> USE SpeakerBounds DEF SpeakerTypes, StreamTypes, S!Quiet, S!device
  <1>1. CASE UNCHANGED <<data, S!device, cur, flushed, leaked>> BY <1>1
  <1>2. ASSUME NEW type \in {"pcm", "eos"}, NEW k \in S!Streams, S!Sent(type, k), S!Quiet PROVE StreamTypes'
    BY <1>2, SentTypes
  <1>3. CASE S!SendPeriod
    <2>1. play.k \in S!Streams BY <1>3 DEF S!SendPeriod
    <2> QED BY <1>3, <2>1, <1>2 DEF S!SendPeriod
  <1>4. CASE S!SendEos
    <2>1. play.k \in S!Streams BY <1>4 DEF S!SendEos
    <2> QED BY <1>4, <2>1, <1>2 DEF S!SendEos, S!Eos
  <1>5. ASSUME NEW k \in S!Streams, S!LateEos(k) PROVE StreamTypes' BY <1>5, <1>2 DEF S!LateEos
  <1>6. CASE S!DropData BY <1>6 DEF S!DropData
  <1>7. CASE S!Pump \/ S!EndStream
    <2>1. data # <<>> /\ Head(data) \in S!Frames /\ Tail(data) \in Seq(S!Frames) /\ data' = Tail(data)
      BY <1>7 DEF S!Pump, S!EndStream, S!Received
    <2>2. Head(data).k \in S!Streams BY <2>1 DEF S!Frames
    <2>3. CASE S!Pump
      <3>1. pumping' \in {pumping, Head(data).k} /\ (speakerActive' = speakerActive \/ speakerActive' = TRUE)
        BY <2>3 DEF S!Pump
      <3>2. speakerActive' \in BOOLEAN BY <3>1
      <3>3. pumping' \in 0..MaxStreams /\ cur' \in 0..MaxStreams
        BY <2>1, <2>2, <2>3, <3>1 DEF S!Pump, S!Streams
      <3> QED BY <2>1, <2>3, <3>2, <3>3 DEF S!Pump, S!Other
    <2>4. CASE S!EndStream BY <2>1, <2>4 DEF S!EndStream, S!Other
    <2> QED BY <1>7, <2>3, <2>4
  <1>8. CASE S!Queue BY <1>8 DEF S!Queue, S!Other, S!Streams
  <1>9. CASE S!FlushArm
    <2>1. (discarding \/ speakerActive) \in BOOLEAN OBVIOUS
    <2> QED BY <1>9, <2>1 DEF S!FlushArm, S!Other
  <1>10. CASE S!FlushDrain BY <1>10 DEF S!FlushDrain, S!Other
  <1>11. CASE S!Take
    <2>1. Head(ch) \in S!Streams /\ Tail(ch) \in Seq(S!Streams) BY <1>11 DEF S!Take, S!Ready
    <2> QED BY <1>11, <2>1 DEF S!Take, S!Other
  <1>12. CASE S!ChannelDrained BY <1>12 DEF S!ChannelDrained, S!Other
  <1> QED
    BY <1>1, <1>3, <1>4, <1>5, <1>6, <1>7, <1>8, <1>9, <1>10, <1>11, <1>12
    DEF S!Next, S!Playback, S!Device, S!vars, S!wire, S!history, S!Request, S!Acquire, S!Prepared,
        S!SentAll, S!Cut,
        S!Drained, S!DrainTimeout, S!KillAlarm, S!CancelTurn, S!StopAlarm, S!Undisturbed, S!Stopping, S!PlaybackStats, S!Reconnect

LEMMA SpeakerTypesStep == SpeakerTypes /\ [S!Next]_S!vars => SpeakerTypes'
  BY PlayStep, StreamStep DEF SpeakerTypes, PlayTypes, StreamTypes

---------------------------------------------------------------------------
(* The order of what is on the data connection. *)

WireOK == InOrder /\ OfStarted /\ WillEnd

LEMMA Numbers ==
  ASSUME SpeakerTypes
  PROVE  /\ started \in Nat /\ cur \in Nat /\ \A i \in DOMAIN data : data[i] \in S!Frames /\ data[i].k \in Nat
         /\ Sending => play.k = started
  <1>1. \A i \in DOMAIN data : data[i] \in S!Frames BY DEF SpeakerTypes
  <1>2. \A f \in S!Frames : f.k \in Nat BY DEF S!Frames, S!Streams
  <1> QED BY <1>1, <1>2, SpeakerBounds DEF SpeakerTypes, Sending

\* A step that leaves the frames and the stream on the device alone, and does
\* not take the playback that sends out of sending.
LEMMA WireFrame ==
  ASSUME SpeakerTypes, WireOK, UNCHANGED <<data, cur, speakerActive, started>>,
         \/ play'.pc = play.pc /\ play'.k = play.k
         \/ ~Sending /\ play'.pc \in {"idle", "drain"}
         \/ Sending /\ Sending' /\ play'.k = play.k
         \/ play.pc = "prep" /\ play'.pc = "stream" /\ play'.k = play.k
  PROVE  WireOK'
  <1>1. InOrder' BY DEF WireOK, InOrder
  <1>2. OfStarted' BY DEF WireOK, OfStarted, Sending, SpeakerTypes
  <1>3. WillEnd' BY DEF WireOK, WillEnd, EosComes, Sending, SpeakerTypes
  <1> QED BY <1>1, <1>2, <1>3 DEF WireOK

\* The playback that sends puts a period at the end.
LEMMA WireSends ==
  ASSUME SpeakerTypes, WireOK, UNCHANGED <<cur, speakerActive, started>>, play.pc = "stream",
         play'.pc = play.pc, play'.k = play.k,
         data' = data \/ data' = Append(data, [type |-> "pcm", k |-> play.k])
  PROVE  WireOK'
  <1>1. CASE data' = data BY <1>1, WireFrame
  <1>2. CASE data' = Append(data, [type |-> "pcm", k |-> play.k])
    <2> DEFINE n == Len(data) + 1
    <2>1. /\ DOMAIN data = 1..Len(data) /\ DOMAIN data' = 1..n /\ n \in Nat
          /\ data'[n].type = "pcm" /\ data'[n].k = play.k
          /\ \A i \in DOMAIN data : data'[i] = data[i]
      BY <1>2 DEF SpeakerTypes
    <2>2. play.k = started /\ play'.k = started /\ started \in Nat /\ cur \in Nat
          /\ \A i \in DOMAIN data : data[i].k \in Nat
      BY Numbers DEF Sending
    <2> HIDE DEF n
    <2>3. InOrder' BY <2>1, <2>2 DEF WireOK, InOrder, OfStarted, Sending
    <2>4. OfStarted' BY <2>1, <2>2 DEF WireOK, OfStarted, Sending
    <2>5. WillEnd' BY <2>1, <2>2 DEF WireOK, WillEnd, EosComes, Sending
    <2> QED BY <2>3, <2>4, <2>5 DEF WireOK
  <1> QED BY <1>1, <1>2

\* The playback that sends puts its EOS at the end, and sends no more.
LEMMA WireEnds ==
  ASSUME SpeakerTypes, WireOK, UNCHANGED <<cur, speakerActive, started>>, Sending,
         play'.pc \in {"idle", "drain"}, data' = Append(data, [type |-> "eos", k |-> play.k])
  PROVE  WireOK'
  <1> DEFINE n == Len(data) + 1
  <1>1. /\ DOMAIN data = 1..Len(data) /\ DOMAIN data' = 1..n /\ n \in Nat /\ n \in 1..n
        /\ data'[n].type = "eos" /\ data'[n].k = play.k
        /\ \A i \in DOMAIN data : data'[i] = data[i] /\ i \in 1..n
    BY DEF SpeakerTypes
  <1>2. play.k = started /\ started \in Nat /\ cur \in Nat /\ \A i \in DOMAIN data : data[i].k \in Nat
    BY Numbers
  <1> HIDE DEF n
  <1>3. InOrder'
    <2>1. ASSUME NEW i \in DOMAIN data', NEW j \in DOMAIN data', i < j
          PROVE  data'[i].k <= data'[j].k /\ (data'[i].type = "eos" => data'[i].k < data'[j].k)
      <3>1. i \in DOMAIN data BY <1>1, <2>1
      <3>2. CASE j \in DOMAIN data BY <3>1, <3>2, <1>1, <2>1 DEF WireOK, InOrder
      <3>3. CASE j = n BY <3>1, <3>3, <1>1, <1>2 DEF WireOK, OfStarted
      <3> QED BY <1>1, <3>2, <3>3
    <2>2. \A i \in DOMAIN data' : cur <= data'[i].k /\ (~speakerActive => cur < data'[i].k)
      BY <1>1, <1>2 DEF WireOK, InOrder, OfStarted
    <2> QED BY <2>1, <2>2 DEF InOrder
  <1>4. OfStarted' BY <1>1, <1>2 DEF WireOK, OfStarted, Sending
  <1>5. \A k : (Sending /\ play.k = k) \/ EosComes(k) => \E j \in DOMAIN data' : data'[j].type = "eos" /\ data'[j].k = k
    BY <1>1 DEF EosComes
  <1>6. WillEnd' BY <1>1, <1>5 DEF WireOK, WillEnd, EosComes
  <1> QED BY <1>3, <1>4, <1>6 DEF WireOK

\* A playback is started: its frames will be newer than every one there is.
LEMMA WireStarts ==
  ASSUME SpeakerTypes, WireOK, UNCHANGED <<data, cur, speakerActive>>, play.pc = "idle",
         started' = started + 1, play'.k = started', play'.pc \in {"prep", "stream"}
  PROVE  WireOK'
  <1>1. InOrder' BY DEF WireOK, InOrder
  <1>2. started \in Nat /\ cur \in Nat /\ \A i \in DOMAIN data : data[i].k \in Nat
    BY Numbers
  <1>3. OfStarted' BY <1>2 DEF WireOK, OfStarted, Sending
  <1>4. WillEnd' BY DEF WireOK, WillEnd, EosComes, Sending
  <1> QED BY <1>1, <1>3, <1>4 DEF WireOK

\* The connection is lost without an EOS on it: the one that comes is still sent.
LEMMA WireDrops ==
  ASSUME SpeakerTypes, WireOK, data' = <<>>, UNCHANGED <<play, cur, speakerActive, started>>,
         \A i \in DOMAIN data : data[i].type # "eos"
  PROVE  WireOK'
  <1>1. DOMAIN data' = {} OBVIOUS
  <1>2. \A k : ~EosComes(k) BY DEF EosComes
  <1> QED BY <1>1, <1>2 DEF WireOK, InOrder, OfStarted, WillEnd, Sending

\* What is at the head of the connection while a stream is on the device is of
\* that stream.
LEMMA HeadIsCurrent ==
  ASSUME SpeakerTypes, WireOK, data # <<>>
  PROVE  /\ cur <= Head(data).k /\ (~speakerActive => cur < Head(data).k)
         /\ speakerActive => Head(data).k = cur
  <1>1. 1 \in DOMAIN data /\ Head(data) = data[1] /\ \A j \in DOMAIN data : j # 1 => 1 < j
    BY DEF SpeakerTypes
  <1>2. cur \in Nat /\ started \in Nat /\ \A i \in DOMAIN data : data[i].k \in Nat
    BY Numbers
  <1>3. ASSUME speakerActive PROVE data[1].k <= cur
    <2>1. CASE Sending /\ play.k = cur BY <1>1, <2>1 DEF WireOK, OfStarted, Sending, SpeakerTypes
    <2>2. CASE EosComes(cur)
      <3>1. PICK j \in DOMAIN data : data[j].type = "eos" /\ data[j].k = cur BY <2>2 DEF EosComes
      <3> QED BY <1>1, <1>2, <3>1 DEF WireOK, InOrder
    <2> QED BY <1>3, <2>1, <2>2 DEF WireOK, WillEnd
  <1> QED BY <1>1, <1>2, <1>3 DEF WireOK, InOrder

\* The device takes a frame off the connection.
LEMMA WireTakes ==
  ASSUME SpeakerTypes, WireOK, data # <<>>, data' = Tail(data), UNCHANGED <<play, started>>,
         \/ /\ Head(data).type = "pcm" /\ cur' = Head(data).k
            /\ speakerActive' = speakerActive \/ speakerActive'
            /\ speakerActive \/ speakerActive'
         \/ Head(data).type = "eos" /\ cur' = cur /\ ~speakerActive'
  PROVE  WireOK'
  <1>0. Len(data) \in Nat /\ Len(data) >= 1 /\ DOMAIN data = 1..Len(data) /\ DOMAIN data' = 1..(Len(data) - 1)
        /\ Head(data) = data[1] /\ \A j \in DOMAIN data' : data'[j] = data[j + 1]
    BY DEF SpeakerTypes
  <1>1. /\ 1 \in DOMAIN data /\ Head(data) = data[1]
        /\ \A j \in DOMAIN data : j # 1 => 1 < j
        /\ \A j \in DOMAIN data' : j + 1 \in DOMAIN data /\ data'[j] = data[j + 1] /\ j + 1 > 1 /\ j \in Nat
        /\ \A j \in DOMAIN data : j # 1 => j - 1 \in DOMAIN data' /\ data'[j - 1] = data[j]
    BY <1>0
  <1>2. cur \in Nat /\ started \in Nat /\ data[1].k \in Nat /\ \A i \in DOMAIN data : data[i].k \in Nat
    BY <1>1, Numbers
  <1>3. speakerActive => data[1].k = cur BY <1>1, HeadIsCurrent
  <1>4. CASE Head(data).type = "pcm" /\ cur' = Head(data).k
    <2>1. speakerActive' BY <1>4, <1>1
    <2>2. InOrder' BY <1>1, <1>2, <1>4, <2>1 DEF WireOK, InOrder
    <2>3. OfStarted' BY <1>1, <1>2, <1>4, <2>1 DEF WireOK, OfStarted, Sending
    <2>a. ASSUME NEW k, EosComes(k) PROVE EosComes(k)'
      <3>1. PICK j \in DOMAIN data : data[j].type = "eos" /\ data[j].k = k BY <2>a DEF EosComes
      <3>2. j # 1 BY <1>1, <1>4, <3>1
      <3> QED BY <1>1, <3>1, <3>2 DEF EosComes
    <2>b. \A k : (Sending /\ play.k = k) \/ EosComes(k) => (Sending' /\ play'.k = k) \/ EosComes(k)'
      BY <2>a DEF Sending
    <2>4. WillEnd' BY <1>1, <1>4, <2>b DEF WireOK, WillEnd
    <2> QED BY <2>2, <2>3, <2>4 DEF WireOK
  <1>5. CASE Head(data).type = "eos" /\ cur' = cur /\ ~speakerActive'
    <2>1. \A j \in DOMAIN data' : data[1].k < data'[j].k BY <1>1, <1>5 DEF WireOK, InOrder
    <2>2. cur <= data[1].k BY <1>1 DEF WireOK, InOrder
    <2>3. InOrder'
      <3>1. \A i, j \in DOMAIN data' : i < j =>
              data'[i].k <= data'[j].k /\ (data'[i].type = "eos" => data'[i].k < data'[j].k)
        BY <1>1 DEF WireOK, InOrder
      <3>2. \A i \in DOMAIN data' : data'[i].k \in Nat BY <1>1, <1>2
      <3>3. \A i \in DOMAIN data' : cur' < data'[i].k BY <1>2, <1>5, <2>1, <2>2, <3>2
      <3> QED BY <1>2, <1>5, <3>1, <3>2, <3>3 DEF InOrder
    <2>4. OfStarted' BY <1>1, <1>2, <1>5, <2>2 DEF WireOK, OfStarted, Sending
    <2>a. ASSUME NEW k, k # data[1].k, EosComes(k) PROVE EosComes(k)'
      <3>1. PICK j \in DOMAIN data : data[j].type = "eos" /\ data[j].k = k BY <2>a DEF EosComes
      <3>2. j # 1 BY <2>a, <3>1
      <3> QED BY <1>1, <3>1, <3>2 DEF EosComes
    <2>b. \A i \in DOMAIN data' : data'[i].k # data[1].k BY <1>1, <1>2, <2>1
    <2>5. WillEnd' BY <1>1, <1>5, <2>a, <2>b DEF WireOK, WillEnd, Sending
    <2> QED BY <2>3, <2>4, <2>5 DEF WireOK
  <1> QED BY <1>4, <1>5

---------------------------------------------------------------------------
(* What a flush leaves. *)

\* A step that leaves the device's side alone keeps what was cut over.
LEMMA CutFrame ==
  ASSUME CutIsOver, UNCHANGED <<cur, speakerActive, discarding, flushed, swallowed>>
  PROVE  CutIsOver'
  BY DEF CutIsOver

LEMMA LeftFrame ==
  ASSUME OneLeft, UNCHANGED <<leaked, pumping, flush, flushed, ch>>
  PROVE  OneLeft'
  BY DEF OneLeft

LEMMA PumpKeeps ==
  ASSUME SilentInv, lost = {}, S!Pump
  PROVE  CutIsOver' /\ OneLeft' /\ WireOK'
  <1> DEFINE k == Head(data).k
  <1>1. WireOK /\ SpeakerTypes /\ data # <<>> BY DEF SilentInv, WireOK, S!Pump, S!Received
  <1>2. cur <= k /\ (~speakerActive => cur < k) /\ (speakerActive => k = cur) BY <1>1, HeadIsCurrent
  <1>3. k \in Nat /\ cur \in Nat /\ \A j \in flushed : j \in Nat
    <2>1. Head(data) = data[1] /\ 1 \in DOMAIN data BY <1>1 DEF SpeakerTypes
    <2> QED BY <1>1, <2>1, Numbers DEF SpeakerTypes
  <1>4. CutIsOver /\ OneLeft /\ (discarding => speakerActive) BY DEF SilentInv
  <1>5. /\ cur' = k /\ UNCHANGED <<discarding, flushed, leaked, flush, ch, play, started>>
        /\ data' = Tail(data) /\ Head(data).type = "pcm" /\ pumping = 0
    BY DEF S!Pump, S!Received, S!Other, S!controller
  <1>6. CASE discarding
    <2>1. swallowed' = swallowed \cup {k} /\ UNCHANGED <<pumping, speakerActive>>
      BY <1>6 DEF S!Pump, S!Discards
    <2>2. CutIsOver' BY <1>2, <1>4, <1>5, <1>6, <2>1 DEF CutIsOver
    <2>3. OneLeft' BY <1>4, <1>5, <2>1, LeftFrame
    <2>4. WireOK' BY <1>1, <1>4, <1>5, <1>6, <2>1, WireTakes
    <2> QED BY <2>2, <2>3, <2>4
  <1>7. CASE ~discarding
    <2>1. pumping' = k /\ speakerActive' /\ UNCHANGED swallowed BY <1>7 DEF S!Pump, S!Discards
    \* The stream of this period was not flushed: it would be over.
    <2>2. k \notin flushed
      <3>1. CASE speakerActive BY <1>2, <1>4, <1>7, <3>1 DEF CutIsOver
      <3>2. CASE ~speakerActive BY <1>2, <1>3, <1>4, <3>2 DEF CutIsOver
      <3> QED BY <3>1, <3>2
    <2>3. CutIsOver' BY <1>2, <1>3, <1>4, <1>5, <1>7, <2>1, <2>2 DEF CutIsOver
    <2>4. OneLeft' BY <1>4, <1>5, <2>1, <2>2 DEF OneLeft
    <2>5. WireOK' BY <1>1, <1>5, <2>1, WireTakes
    <2> QED BY <2>3, <2>4, <2>5
  <1> QED BY <1>6, <1>7

LEMMA EndStreamKeeps ==
  ASSUME SilentInv, lost = {}, S!EndStream
  PROVE  CutIsOver' /\ OneLeft' /\ WireOK'
  <1>1. WireOK /\ SpeakerTypes /\ data # <<>> /\ CutIsOver /\ OneLeft
    BY DEF SilentInv, WireOK, S!EndStream, S!Received
  <1>2. /\ data' = Tail(data) /\ Head(data).type = "eos" /\ ~speakerActive' /\ ~discarding'
        /\ UNCHANGED <<cur, flushed, swallowed, leaked, pumping, flush, ch, play, started>>
    BY DEF S!EndStream, S!Received, S!Other, S!controller
  <1>3. WireOK' BY <1>1, <1>2, WireTakes
  <1>4. CutIsOver' BY <1>1, <1>2 DEF CutIsOver
  <1> QED BY <1>1, <1>2, <1>3, <1>4, LeftFrame

LEMMA FlushArmKeeps ==
  ASSUME SilentInv, lost = {}, S!FlushArm
  PROVE  CutIsOver' /\ OneLeft' /\ WireOK'
  <1>1. WireOK /\ SpeakerTypes /\ CutIsOver /\ OneLeft /\ (discarding => speakerActive)
        /\ \A k \in S!Streams : k \notin flushed => leaked[k] = 0
    BY DEF SilentInv, WireOK
  <1>2. /\ UNCHANGED <<data, cur, speakerActive, started, play, leaked, pumping, ch, swallowed>>
        /\ flush = "none" /\ flush' = "drain" /\ (discarding' <=> discarding \/ speakerActive)
        /\ flushed' = IF speakerActive THEN flushed \cup {cur} ELSE flushed
    BY DEF S!FlushArm, S!Other, S!controller
  <1>3. WireOK' BY <1>1, <1>2, WireFrame
  <1>4. CutIsOver' BY <1>1, <1>2 DEF CutIsOver, SpeakerTypes
  <1>5. OneLeft' BY <1>1, <1>2 DEF OneLeft
  <1> QED BY <1>3, <1>4, <1>5

LEMMA QueueKeeps ==
  ASSUME SpeakerTypes, OneLeft, S!Queue
  PROVE  OneLeft'
  <1>1. /\ ch' = Append(ch, pumping) /\ pumping' = 0 /\ pumping # 0
        /\ UNCHANGED <<leaked, flush, flushed>>
    BY DEF S!Queue
  <1>2. /\ Len(ch) \in Nat /\ DOMAIN ch = 1..Len(ch) /\ DOMAIN ch' = 1..(Len(ch) + 1)
        /\ ch'[Len(ch) + 1] = pumping /\ \A i \in DOMAIN ch : ch'[i] = ch[i]
    BY <1>1 DEF SpeakerTypes
  <1>3. \A k \in S!Streams : k # 0 BY SpeakerBounds DEF S!Streams
  <1> QED BY <1>1, <1>2, <1>3 DEF OneLeft

LEMMA TakeKeeps ==
  ASSUME SpeakerTypes, OneLeft, S!Take
  PROVE  OneLeft'
  <1>1. /\ ch # <<>> /\ ch' = Tail(ch) /\ UNCHANGED <<pumping, flush, flushed>>
        /\ leaked' = IF Head(ch) \in flushed /\ flush = "none" THEN [leaked EXCEPT ![Head(ch)] = @ + 1] ELSE leaked
    BY DEF S!Take, S!Ready
  <1>a. /\ Len(ch) \in Nat /\ Len(ch) >= 1 /\ DOMAIN ch = 1..Len(ch) /\ DOMAIN ch' = 1..(Len(ch) - 1)
        /\ Head(ch) = ch[1] /\ \A i \in DOMAIN ch' : ch'[i] = ch[i + 1]
    BY <1>1 DEF SpeakerTypes
  <1>b. ch[1] \in S!Streams BY <1>a DEF SpeakerTypes
  <1>2. /\ 1 \in DOMAIN ch /\ Head(ch) = ch[1] /\ Head(ch) \in S!Streams
        /\ \A i \in DOMAIN ch' : i \in Nat /\ i + 1 \in DOMAIN ch /\ ch'[i] = ch[i + 1] /\ i + 1 # 1
    BY <1>a, <1>b
  <1>3. ASSUME NEW k \in flushed \cap S!Streams
        PROVE  /\ leaked'[k] <= 1
               /\ leaked'[k] = 1 => pumping # k /\ (flush = "none" => \A i \in DOMAIN ch' : ch'[i] # k)
               /\ pumping = k => (flush = "none" => \A i \in DOMAIN ch' : ch'[i] # k)
               /\ flush = "none" => \A i, j \in DOMAIN ch' : ch'[i] = k /\ ch'[j] = k => i = j
    <2>1. CASE flush = "none" /\ Head(ch) = k
      <3>0. leaked[k] \in Nat BY DEF SpeakerTypes
      <3>1. leaked[k] = 0 /\ pumping # k BY <1>2, <2>1, <3>0 DEF OneLeft
      <3>2. \A i \in DOMAIN ch' : ch'[i] # k BY <1>2, <2>1 DEF OneLeft
      <3>3. leaked'[k] = 1 BY <1>1, <2>1, <3>1 DEF SpeakerTypes
      <3> QED BY <3>1, <3>2, <3>3
    <2>2. CASE ~(flush = "none" /\ Head(ch) = k)
      <3>1. leaked'[k] = leaked[k] BY <1>1, <1>2, <2>2 DEF SpeakerTypes
      <3> QED BY <1>2, <3>1 DEF OneLeft
    <2> QED BY <2>1, <2>2
  <1> QED BY <1>1, <1>3 DEF OneLeft

LEMMA FlushDrainKeeps ==
  ASSUME OneLeft, S!FlushDrain
  PROVE  OneLeft'
  BY DEF OneLeft, S!FlushDrain

\* Only the device counts what it plays, and only of what was flushed.
LEMMA UnflushedStep ==
  ASSUME SilentInv, [S!Next]_S!vars
  PROVE  (discarding => speakerActive)' /\ (\A k \in S!Streams : k \notin flushed => leaked[k] = 0)'
  <1>1. SpeakerTypes /\ (discarding => speakerActive) /\ \A k \in S!Streams : k \notin flushed => leaked[k] = 0
    BY DEF SilentInv
  <1>2. CASE UNCHANGED <<discarding, speakerActive, flushed, leaked>> BY <1>1, <1>2
  <1>3. CASE S!Pump BY <1>1, <1>3 DEF S!Pump, S!Discards
  <1>4. CASE S!EndStream BY <1>1, <1>4 DEF S!EndStream
  <1>5. CASE S!FlushArm BY <1>1, <1>5 DEF S!FlushArm
  <1>6. CASE S!Take
    <2>1. Head(ch) \in S!Streams BY <1>1, <1>6 DEF S!Take, S!Ready, SpeakerTypes
    <2> QED BY <1>1, <1>6, <2>1 DEF S!Take, SpeakerTypes
  <1> QED
    BY <1>2, <1>3, <1>4, <1>5, <1>6
    DEF S!Next, S!Playback, S!Device, S!vars, S!device, S!history, S!Quiet, S!Request, S!Acquire,
        S!Prepared, S!SendPeriod, S!SendEos,
        S!SentAll, S!Cut, S!Drained, S!DrainTimeout, S!KillAlarm, S!CancelTurn, S!StopAlarm, S!Undisturbed, S!Stopping,
        S!PlaybackStats, S!Reconnect, S!LateEos, S!DropData, S!Queue, S!FlushDrain, S!ChannelDrained

\* The steps that leave the device to itself.
LEMMA ControllerKeeps ==
  ASSUME SilentInv, lost = {}, lost' = {},
         \/ S!Playback \/ S!CancelTurn \/ S!StopAlarm \/ S!PlaybackStats \/ S!DropData \/ S!Reconnect
         \/ \E kind \in S!Kinds : S!Request(kind)
         \/ \E k \in S!Streams : S!LateEos(k)
         \/ UNCHANGED S!vars
  PROVE  CutIsOver' /\ OneLeft' /\ WireOK'
  <1>1. WireOK /\ SpeakerTypes /\ CutIsOver /\ OneLeft /\ late = {}
    BY DEF SilentInv, WireOK, SpeakerTypes
  <1>2. UNCHANGED <<S!device, cur, flushed, swallowed, leaked>>
    BY DEF S!vars, S!history, S!Undisturbed, S!Quiet, S!Request, S!Playback, S!Acquire, S!Prepared,
           S!SendPeriod, S!SendEos,
           S!SentAll, S!Cut, S!Drained, S!DrainTimeout, S!KillAlarm, S!CancelTurn, S!StopAlarm, S!PlaybackStats, S!Reconnect,
           S!LateEos, S!DropData
  <1>3. CutIsOver' /\ OneLeft' BY <1>1, <1>2, CutFrame, LeftFrame DEF S!device
  <1>4. UNCHANGED <<cur, speakerActive>> BY <1>2 DEF S!device
  <1>5. WireOK'
    <2> HIDE DEF SilentInv
    <2> USE <1>1, <1>4
    <2>1. S!Idle.pc = "idle" BY DEF S!Idle
    <2>2. DOMAIN play = Fields /\ (play.pc # "idle" => play.k = started) BY DEF SpeakerTypes, Playing
    <2>3. CASE \E kind \in S!Kinds : S!Request(kind) BY <2>3, WireFrame DEF S!Request
    <2>4. CASE S!Acquire
      <3>1. play'.k = started' /\ play'.pc \in {"prep", "stream"} BY <2>4 DEF S!Acquire, S!Idle
      <3> QED BY <2>4, <3>1, WireStarts DEF S!Acquire
    <2>5. CASE S!Prepared BY <2>2, <2>5, WireFrame DEF S!Prepared, Fields
    <2>6. CASE S!SendPeriod
      <3>1. play'.pc = play.pc /\ play'.k = play.k BY <2>2, <2>6 DEF S!SendPeriod, Fields
      <3> QED BY <2>6, <3>1, WireSends DEF S!SendPeriod, S!Sent
    <2>7. CASE S!SentAll \/ S!Cut
      <3>1. Sending /\ play'.pc \in {"eos", "closing"} /\ play'.k = play.k
        BY <2>2, <2>7 DEF S!SentAll, S!Cut, Fields, Sending
      <3> QED BY <2>7, <3>1, WireFrame DEF S!SentAll, S!Cut, Sending
    <2>8. CASE S!SendEos
      <3>1. Sending /\ play'.pc \in {"idle", "drain"}
        BY <2>1, <2>2, <2>8 DEF S!SendEos, S!End, Fields, Sending
      <3>2. data' = Append(data, [type |-> "eos", k |-> play.k]) BY <2>8 DEF S!SendEos, S!Eos, S!Sent
      <3> QED BY <2>8, <3>1, <3>2, WireEnds DEF S!SendEos
    <2>9. CASE S!Drained \/ S!DrainTimeout
      <3>1. ~Sending /\ play'.pc = "idle"
        BY <2>1, <2>9 DEF S!Drained, S!DrainTimeout, S!Backstop, S!End, Sending
      <3> QED BY <2>9, <3>1, WireFrame DEF S!Drained, S!DrainTimeout
    <2>10. CASE S!KillAlarm
      <3>1. \/ ~Sending /\ play'.pc = "idle"
            \/ Sending /\ Sending' /\ play'.k = play.k
        BY <2>1, <2>2, <2>10 DEF S!KillAlarm, S!End, Fields, Sending
      <3> QED BY <2>10, <3>1, WireFrame DEF S!KillAlarm
    <2>11. CASE S!CancelTurn \/ S!StopAlarm
      <3>1. play'.pc = play.pc /\ play'.k = play.k /\ UNCHANGED <<data, started>>
        BY <2>2, <2>11 DEF S!CancelTurn, S!StopAlarm, S!Undisturbed, Fields
      <3> QED BY <3>1, WireFrame
    <2>12. CASE S!PlaybackStats \/ S!Reconnect \/ UNCHANGED S!vars
      BY <2>12, WireFrame DEF S!PlaybackStats, S!Reconnect, S!vars, S!controller, S!wire
    <2>13. CASE S!DropData
      <3>1. \A i \in DOMAIN data : data[i].type # "eos" BY <2>13 DEF S!DropData
      <3> QED BY <2>13, <3>1, WireDrops DEF S!DropData, S!controller
    <2> QED BY <2>3, <2>4, <2>5, <2>6, <2>7, <2>8, <2>9, <2>10, <2>11, <2>12, <2>13 DEF S!Playback, S!LateEos
  <1> QED BY <1>3, <1>5

\* A lost EOS is not found again.
LEMMA LostStays ==
  ASSUME [S!Next]_S!vars, lost' = {}
  PROVE  lost = {}
  BY DEF S!Next, S!Playback, S!Device, S!vars, S!history, S!Quiet, S!Sent, S!Eos, S!Other, S!Request,
         S!Acquire, S!Prepared, S!SendPeriod,
         S!SendEos, S!SentAll, S!Cut, S!Drained, S!DrainTimeout, S!KillAlarm, S!CancelTurn, S!StopAlarm, S!Undisturbed,
         S!Stopping, S!PlaybackStats, S!Reconnect, S!LateEos, S!DropData, S!Pump, S!Queue, S!EndStream, S!FlushArm,
         S!FlushDrain, S!Take, S!ChannelDrained

LEMMA SilentStep == SilentInv /\ [S!Next]_S!vars => SilentInv'
  <1> SUFFICES ASSUME SilentInv, [S!Next]_S!vars PROVE SilentInv' OBVIOUS
  <1>1. SpeakerTypes' BY SpeakerTypesStep DEF SilentInv
  <1>2. ASSUME lost' = {} PROVE CutIsOver' /\ OneLeft' /\ WireOK'
    <2>1. lost = {} BY <1>2, LostStays
    <2>2. WireOK /\ SpeakerTypes /\ CutIsOver /\ OneLeft BY <2>1 DEF SilentInv, WireOK
    <2>3. CASE S!Pump BY <2>1, <2>3, PumpKeeps
    <2>4. CASE S!EndStream BY <2>1, <2>4, EndStreamKeeps
    <2>5. CASE S!FlushArm BY <2>1, <2>5, FlushArmKeeps
    <2>6. CASE S!Queue
      <3>1. WireOK' BY <2>2, <2>6, WireFrame DEF S!Queue, S!Other, S!controller
      <3>2. CutIsOver' BY <2>2, <2>6, CutFrame DEF S!Queue
      <3> QED BY <2>2, <2>6, <3>1, <3>2, QueueKeeps
    <2>7. CASE S!Take
      <3>1. WireOK' BY <2>2, <2>7, WireFrame DEF S!Take, S!Other, S!controller
      <3>2. CutIsOver' BY <2>2, <2>7, CutFrame DEF S!Take
      <3> QED BY <2>2, <2>7, <3>1, <3>2, TakeKeeps
    <2>8. CASE S!FlushDrain
      <3>1. WireOK' BY <2>2, <2>8, WireFrame DEF S!FlushDrain, S!Other, S!controller
      <3>2. CutIsOver' BY <2>2, <2>8, CutFrame DEF S!FlushDrain
      <3> QED BY <2>2, <2>8, <3>1, <3>2, FlushDrainKeeps
    <2>9. CASE S!ChannelDrained
      <3>1. WireOK' BY <2>2, <2>9, WireFrame DEF S!ChannelDrained, S!Other, S!controller
      <3> QED BY <2>2, <2>9, <3>1, CutFrame, LeftFrame DEF S!ChannelDrained
    <2> QED BY <1>2, <2>1, <2>3, <2>4, <2>5, <2>6, <2>7, <2>8, <2>9, ControllerKeeps DEF S!Next, S!Device
  <1> QED BY <1>1, <1>2, UnflushedStep DEF SilentInv, WireOK

\* Once a flush is through (the device's audioStream.flush: discard until the EOS,
\* then drain the queue), at most the one period pump was about to queue is played
\* of the stream that stop, cancel or an alarm cut, whatever frames were still on
\* the way, as long as no EOS was lost.
THEOREM FlushesAreSilent == S!Spec => []FlushIsSilent
  <1>1. SilentInv => FlushIsSilent
    BY DEF SilentInv, FlushIsSilent, S!FlushIsSilent, OneLeft
  <1> QED BY <1>1, SilentInit, SilentStep, PTL DEF S!Spec

\* What pump discards after a flush is of the stream that was cut, never a period of
\* the next one: as long as no EOS was lost, the one that ends the discard is the
\* cut stream's own.
THEOREM DiscardsOnlyTheCut == S!Spec => []S!DiscardsItsOwn
  <1>1. SilentInv => S!DiscardsItsOwn BY DEF SilentInv, CutIsOver, S!DiscardsItsOwn
  <1> QED BY <1>1, SilentInit, SilentStep, PTL DEF S!Spec

-----------------------------------------------------------------------------
(***************************************************************************)
(* The captures (Captures).  KeptInv follows a capture from the search for *)
(* its duplicate to its acknowledgement and the admin's hand; CaptureTypes *)
(* types it on its way there, and OptOutInv says that a clip committed after *)
(* an opt-out is in the hands of an upload that will look at the opt-in.   *)
(***************************************************************************)
Saving(k) == h[k].pc \in {"meta", "wav"}
Saved(k) == h[k].pc \in {"prune", "recheck", "discard"}

\* What the argument reads of the disk, the handlers and the admin's request.
StoreShape ==
    /\ DOMAIN saved = Names /\ \A n \in Names : DOMAIN saved[n] = {"item", "wav", "meta"}
    /\ DOMAIN h = Conns /\ \A k \in Conns : DOMAIN h[k] = {"pc", "item", "name", "created"}
    /\ DOMAIN adm = {"pc", "name", "src", "dst", "zip"}
    /\ adm.pc \in {"wav", "meta"} => adm.src # None /\ adm.dst # None

\* A name without a capture has no file, and one save at a time holds the lock.
NamesAndLock ==
    /\ \A n \in Names : saved[n].item = C!NoItem => saved[n].wav = None
    /\ \A k \in Conns : h[k].pc \in {"meta", "wav", "prune"} => lock = k
    /\ \A k \in Conns : h[k].pc = "find" => h[k].item # C!NoItem

\* A save in progress has a name of its own, with no WAV yet; whoever else has a
\* WAV of its capture had its files apart when the save looked for them.
InProgress ==
    \A k \in Conns : Saving(k) =>
        /\ h[k].name \in Names /\ h[k].item # C!NoItem
        /\ saved[h[k].name].item = h[k].item /\ saved[h[k].name].wav = None
        /\ \A n \in Names : n # h[k].name /\ saved[n].wav # None /\ saved[n].item.id = h[k].item.id
                            => h[k].item.id \in torn

\* What a handler has saved, or found, is there until it is removed.
IsThere ==
    \A k \in Conns : Saved(k) =>
        /\ h[k].name \in Names /\ saved[h[k].name].item # C!NoItem
        /\ saved[h[k].name].item.id = h[k].item.id
        /\ saved[h[k].name].wav # None \/ h[k].item.id \in removed

KeptInv == StoreShape /\ NamesAndLock /\ InProgress /\ IsThere /\ C!AckedIsKept /\ C!StoredOnce

---------------------------------------------------------------------------
\* A set of numbers that is not empty has a least one.
LEMMA LeastNumber ==
  ASSUME NEW X \in SUBSET Nat, X # {}
  PROVE  \E x \in X : \A y \in X : x <= y
  <1>1. PICK x \in X : \A y \in X : <<y, x>> \notin OpToRel(<, Nat)
    BY NatLessThanWellFounded, WFMin
  <1>2. \A y \in X : ~(y < x) BY <1>1 DEF OpToRel
  <1> QED BY <1>2

LEMMA NewNameIsFree ==
  ASSUME \E n \in Names : saved[n].item = C!NoItem
  PROVE  C!NewName \in Names /\ saved[C!NewName].item = C!NoItem
  <1> DEFINE Unused == {n \in Names : saved[n].item = C!NoItem}
  <1>1. \E n \in Unused : \A o \in Unused : n <= o BY LeastNumber, CaptureNames
  <1>2. \E n \in Names : /\ saved[n].item = C!NoItem
                         /\ \A o \in Names : saved[o].item = C!NoItem => n <= o
    BY <1>1
  <1> QED BY <1>2 DEF C!NewName

---------------------------------------------------------------------------
(* What is stored, by the steps that change it.                            *)

LEMMA KeptInit == C!Init => KeptInv
  BY CaptureNames
  DEF C!Init, KeptInv, StoreShape, NamesAndLock, InProgress, IsThere, C!AckedIsKept, C!StoredOnce, Saving,
      Saved,
      C!NoFile, C!NoHandler, C!NoAdmin

\* A handler goes back to reading, or starts to look for a capture.
LEMMA KeptReturns ==
  ASSUME KeptInv, UNCHANGED <<saved, adm, removed, torn, acked>>, DOMAIN h' = Conns,
         \A k \in Conns : \/ h'[k] = h[k]
                           \/ /\ DOMAIN h'[k] = {"pc", "item", "name", "created"}
                              /\ h'[k].pc \in {"closed", "read", "find"}
                              /\ (h'[k].pc = "find" => h'[k].item # C!NoItem),
         lock' = lock
  PROVE  KeptInv'
  <1>0. \A k \in Conns : h'[k].pc \in {"meta", "wav", "prune"} => h'[k] = h[k] OBVIOUS
  <1>1. StoreShape' BY DEF KeptInv, StoreShape
  <1>a. NamesAndLock' BY <1>0 DEF KeptInv, NamesAndLock
  <1>2. \A k \in Conns : Saving(k)' \/ Saved(k)' => h'[k] = h[k]
    <2>1. \A k \in Conns : h'[k].pc \in {"closed", "read", "find"} => ~Saving(k)' /\ ~Saved(k)'
      BY DEF Saving, Saved
    <2> QED BY <2>1
  <1>3. InProgress' BY <1>2 DEF KeptInv, InProgress, Saving
  <1>4. IsThere' BY <1>2 DEF KeptInv, IsThere, Saved
  <1>5. C!AckedIsKept' /\ C!StoredOnce' BY DEF KeptInv, C!AckedIsKept, C!StoredOnce
  <1> QED BY <1>1, <1>a, <1>3, <1>4, <1>5 DEF KeptInv

\* Captures are removed: the handlers, or all of them but one whose save is done.
LEMMA KeptUnlinks ==
  ASSUME KeptInv, NEW ns, C!Unlink(ns), UNCHANGED <<h, lock, torn, acked>>,
         DOMAIN adm' = {"pc", "name", "src", "dst", "zip"},
         adm'.pc \in {"wav", "meta"} => adm'.src # None /\ adm'.dst # None
  PROVE  KeptInv'
  <1>1. /\ DOMAIN saved' = Names /\ removed \subseteq removed'
        /\ \A n \in Names : DOMAIN saved'[n] = {"item", "wav", "meta"} /\ saved'[n].item = saved[n].item
        /\ \A n \in Names : saved'[n].wav = saved[n].wav
                            \/ (saved'[n].wav = None /\ saved[n].item.id \in removed')
    BY DEF C!Unlink, KeptInv, StoreShape
  <1>2. StoreShape' /\ NamesAndLock' BY <1>1 DEF KeptInv, StoreShape, NamesAndLock
  <1>3. InProgress' BY <1>1 DEF KeptInv, InProgress, Saving
  <1>4. IsThere' BY <1>1 DEF KeptInv, IsThere, Saved
  <1>5. C!AckedIsKept' BY <1>1 DEF KeptInv, C!AckedIsKept
  <1>6. C!StoredOnce' BY <1>1 DEF KeptInv, C!StoredOnce
  <1> QED BY <1>2, <1>3, <1>4, <1>5, <1>6 DEF KeptInv

\* Files are moved between buckets: none appears and none goes.
LEMMA KeptMoves ==
  ASSUME KeptInv, UNCHANGED <<h, lock, removed, acked>>, torn \subseteq torn', DOMAIN saved' = Names,
         \A n \in Names : /\ DOMAIN saved'[n] = {"item", "wav", "meta"} /\ saved'[n].item = saved[n].item
                          /\ saved'[n].wav = None <=> saved[n].wav = None,
         DOMAIN adm' = {"pc", "name", "src", "dst", "zip"},
         adm'.pc \in {"wav", "meta"} => adm'.src # None /\ adm'.dst # None
  PROVE  KeptInv'
  <1>1. StoreShape' /\ NamesAndLock' BY DEF KeptInv, StoreShape, NamesAndLock
  <1>2. InProgress' BY DEF KeptInv, InProgress, Saving
  <1>3. IsThere' BY DEF KeptInv, IsThere, Saved
  <1>4. C!AckedIsKept' BY DEF KeptInv, C!AckedIsKept
  <1>5. C!StoredOnce' BY DEF KeptInv, C!StoredOnce
  <1> QED BY <1>1, <1>2, <1>3, <1>4, <1>5 DEF KeptInv

LEMMA KeptFind ==
  ASSUME KeptInv, NEW k \in Conns, C!SaveFind(k)
  PROVE  KeptInv'
  <1> DEFINE c == h[k].item
  <1>1. h[k].pc = "find" /\ lock = 0 /\ c # C!NoItem /\ UNCHANGED <<adm, removed, acked>>
    BY DEF C!SaveFind, KeptInv, NamesAndLock
  <1>2. \A j \in Conns : h[j].pc \notin {"meta", "wav", "prune"}
    BY <1>1, CaptureNames DEF KeptInv, NamesAndLock
  <1>3. DOMAIN h[k] = {"pc", "item", "name", "created"} /\ DOMAIN h = Conns BY DEF KeptInv, StoreShape
  <1>4. CASE /\ C!Found(c) # {} /\ UNCHANGED <<lock, saved, torn>>
             /\ h' = [h EXCEPT ![k].pc = "recheck", ![k].name = CHOOSE n \in C!Found(c) : TRUE]
    <2>1. /\ DOMAIN h' = Conns /\ \A j \in Conns : DOMAIN h'[j] = DOMAIN h[j] /\ (j # k => h'[j] = h[j])
          /\ h'[k].pc = "recheck" /\ h'[k].name \in C!Found(c) /\ h'[k].item = c
      BY <1>3, <1>4
    <2>2. /\ h'[k].name \in Names /\ saved[h'[k].name].wav # None /\ saved[h'[k].name].item.id = c.id
      BY <2>1 DEF C!Found
    <2>3. StoreShape' BY <1>1, <1>4, <2>1 DEF KeptInv, StoreShape
    <2>4. NamesAndLock' BY <1>4, <2>1 DEF KeptInv, NamesAndLock
    <2>5. InProgress'
      <3>1. \A j \in Conns : Saving(j)' => Saving(j) /\ h'[j] = h[j] BY <2>1 DEF Saving
      <3>2. UNCHANGED <<saved, torn>> BY <1>4
      <3> QED BY <3>1, <3>2 DEF KeptInv, InProgress
    <2>6. IsThere'
      <3>0. \A j \in Conns : j # k /\ Saved(j)' => Saved(j) /\ h'[j] = h[j] BY <2>1 DEF Saved
      <3>1. saved[h'[k].name].item # C!NoItem BY <2>2 DEF KeptInv, NamesAndLock
      <3>2. UNCHANGED <<saved, removed>> BY <1>1, <1>4
      <3>3. ASSUME NEW j \in Conns, Saved(j)'
            PROVE  /\ h'[j].name \in Names /\ saved'[h'[j].name].item # C!NoItem
                   /\ saved'[h'[j].name].item.id = h'[j].item.id
                   /\ saved'[h'[j].name].wav # None \/ h'[j].item.id \in removed'
        <4>1. CASE j = k BY <2>1, <2>2, <3>1, <3>2, <4>1
        <4>2. CASE j # k BY <3>0, <3>2, <3>3, <4>2 DEF KeptInv, IsThere
        <4> QED BY <4>1, <4>2
      <3> QED BY <3>3 DEF IsThere
    <2>7. C!AckedIsKept' /\ C!StoredOnce' BY <1>1, <1>4 DEF KeptInv, C!AckedIsKept, C!StoredOnce
    <2> QED BY <2>3, <2>4, <2>5, <2>6, <2>7 DEF KeptInv
  <1>5. CASE /\ C!Found(c) = {} /\ \E n \in Names : saved[n].item = C!NoItem
             /\ h' = [h EXCEPT ![k].pc = "meta", ![k].name = C!NewName]
             /\ lock' = k
             /\ saved' = [saved EXCEPT ![C!NewName].item = c]
             /\ torn' = IF \E n \in Names : saved[n].item.id = c.id /\ saved[n].wav \notin {None, saved[n].meta}
                        THEN torn \cup {c.id} ELSE torn
    <2>1. C!NewName \in Names /\ saved[C!NewName].item = C!NoItem BY <1>5, NewNameIsFree
    <2> HIDE DEF c
    <2> DEFINE w == C!NewName
    <2> HIDE DEF w
    <2>2. saved[w].wav = None BY <2>1 DEF w, KeptInv, NamesAndLock
    <2>3. /\ DOMAIN h' = Conns /\ \A j \in Conns : DOMAIN h'[j] = DOMAIN h[j] /\ (j # k => h'[j] = h[j])
          /\ h'[k].pc = "meta" /\ h'[k].name = w /\ h'[k].item = c
      BY <1>3, <1>5 DEF w, c
    <2>4. /\ DOMAIN saved' = Names /\ w \in Names
          /\ \A n \in Names : DOMAIN saved'[n] = {"item", "wav", "meta"} /\ saved'[n].wav = saved[n].wav
          /\ \A n \in Names : n # w => saved'[n].item = saved[n].item
          /\ saved'[w].item = c
      BY <1>5, <2>1 DEF w, KeptInv, StoreShape
    <2>5. saved[w].item = C!NoItem /\ torn \subseteq torn' BY <1>5, <2>1 DEF w
    <2>6. StoreShape' BY <1>1, <2>3, <2>4 DEF KeptInv, StoreShape
    <2>7. NamesAndLock' BY <1>1, <1>2, <1>5, <2>2, <2>3, <2>4 DEF KeptInv, NamesAndLock
    \* A WAV of this capture that was not found had its sidecar elsewhere.
    <2>8. ASSUME NEW n \in Names, saved[n].wav # None, saved[n].item.id = c.id
          PROVE  c.id \in torn'
      <3>1. n \notin C!Found(c) BY <1>5
      <3>2. saved[n].wav # saved[n].meta BY <2>8, <3>1 DEF C!Found
      <3> QED BY <1>5, <2>8, <3>2
    <2>9. InProgress'
      <3>1. \A j \in Conns : Saving(j)' => j = k BY <1>2, <2>3 DEF Saving
      <3>2. c # C!NoItem BY <1>1 DEF c
      <3>3. \A n \in Names : n # w /\ saved'[n].wav # None /\ saved'[n].item.id = c.id => c.id \in torn'
        BY <2>4, <2>8
      <3> QED BY <2>2, <2>3, <2>4, <3>1, <3>2, <3>3 DEF InProgress
    <2>10. IsThere'
      <3>1. ASSUME NEW j \in Conns, Saved(j)' PROVE j # k /\ Saved(j) /\ h[j].name # w
        BY <2>3, <2>5, <3>1 DEF Saved, KeptInv, IsThere
      <3> QED BY <1>1, <2>3, <2>4, <3>1 DEF KeptInv, IsThere
    <2>11. C!AckedIsKept' BY <1>1, <2>2, <2>4 DEF KeptInv, C!AckedIsKept
    <2>12. C!StoredOnce' BY <2>2, <2>4, <2>5 DEF KeptInv, C!StoredOnce
    <2> QED BY <2>6, <2>7, <2>9, <2>10, <2>11, <2>12 DEF KeptInv
  <1> QED BY <1>4, <1>5 DEF C!SaveFind

LEMMA KeptWav ==
  ASSUME KeptInv, NEW k \in Conns, C!SaveWav(k)
  PROVE  KeptInv'
  <1> DEFINE w == h[k].name
  <1>1. /\ h[k].pc = "wav" /\ UNCHANGED <<adm, removed, torn, acked, lock>>
        /\ h' = [h EXCEPT ![k].pc = "prune", ![k].created = TRUE]
        /\ saved' = [saved EXCEPT ![w].wav = "untriaged"]
    BY DEF C!SaveWav
  <1>2. /\ w \in Names /\ h[k].item # C!NoItem /\ saved[w].item = h[k].item /\ saved[w].wav = None
        /\ \A n \in Names : n # w /\ saved[n].wav # None /\ saved[n].item.id = h[k].item.id
                            => h[k].item.id \in torn
    BY <1>1 DEF KeptInv, InProgress, Saving
  <1>3. /\ DOMAIN h' = Conns /\ \A j \in Conns : DOMAIN h'[j] = DOMAIN h[j] /\ (j # k => h'[j] = h[j])
        /\ h'[k].pc = "prune" /\ h'[k].name = w /\ h'[k].item = h[k].item
    BY <1>1 DEF KeptInv, StoreShape
  <1>4. /\ DOMAIN saved' = Names /\ "untriaged" # None
        /\ \A n \in Names : DOMAIN saved'[n] = {"item", "wav", "meta"} /\ saved'[n].item = saved[n].item
        /\ \A n \in Names : n # w => saved'[n].wav = saved[n].wav
        /\ saved'[w].wav = "untriaged"
    BY <1>1, <1>2, CaptureNames DEF KeptInv, StoreShape, C!Buckets
  <1> HIDE DEF w
  <1>5. \A j \in Conns : j # k => h[j].pc \notin {"meta", "wav", "prune"}
    BY <1>1 DEF KeptInv, NamesAndLock
  <1>6. StoreShape' BY <1>1, <1>3, <1>4 DEF KeptInv, StoreShape
  <1>7. NamesAndLock' BY <1>1, <1>2, <1>3, <1>4 DEF KeptInv, NamesAndLock
  <1>8. InProgress' BY <1>3, <1>5 DEF InProgress, Saving
  <1>9. IsThere' BY <1>1, <1>2, <1>3, <1>4 DEF KeptInv, IsThere, Saved
  <1>10. C!AckedIsKept' BY <1>1, <1>4 DEF KeptInv, C!AckedIsKept
  <1>11. C!StoredOnce' BY <1>1, <1>2, <1>4 DEF KeptInv, C!StoredOnce
  <1> QED BY <1>6, <1>7, <1>8, <1>9, <1>10, <1>11 DEF KeptInv

LEMMA KeptMeta ==
  ASSUME KeptInv, NEW k \in Conns, C!SaveMeta(k) \/ C!SaveFails(k)
  PROVE  KeptInv'
  <1> DEFINE w == h[k].name
  <1>0. /\ Saving(k) /\ UNCHANGED <<adm, removed, torn, acked>>
        /\ DOMAIN h' = Conns /\ \A j \in Conns : j # k => h'[j] = h[j]
        /\ DOMAIN h'[k] = {"pc", "item", "name", "created"}
        /\ \/ lock' = lock /\ h'[k].pc = "wav" /\ h'[k].name = w /\ h'[k].item = h[k].item
           \/ h'[k].pc = "read"
    BY DEF C!SaveMeta, C!SaveFails, Saving, C!Return, C!NoHandler, KeptInv, StoreShape
  <1>1. w \in Names BY <1>0 DEF KeptInv, InProgress
  <1>2. /\ DOMAIN saved' = Names
        /\ \A n \in Names : DOMAIN saved'[n] = {"item", "wav", "meta"} /\ saved'[n].item = saved[n].item
                            /\ saved'[n].wav = saved[n].wav
    BY <1>1 DEF C!SaveMeta, C!SaveFails, KeptInv, StoreShape
  <1>3. \A j \in Conns : j # k => h[j].pc \notin {"meta", "wav", "prune"}
    BY <1>0 DEF KeptInv, NamesAndLock, Saving
  <1> HIDE DEF w
  <1>4. StoreShape' BY <1>0, <1>2 DEF KeptInv, StoreShape
  <1>5. NamesAndLock' BY <1>0, <1>2, <1>3 DEF KeptInv, NamesAndLock, Saving
  <1>6. InProgress'
    <2>1. \A j \in Conns : Saving(j)' => j = k /\ h'[k].name = w /\ h'[k].item = h[k].item
      BY <1>0, <1>3 DEF Saving
    <2> QED BY <1>0, <1>2, <2>1 DEF w, KeptInv, InProgress
  <1>7. IsThere'
    <2>1. \A j \in Conns : Saved(j)' => j # k /\ Saved(j) BY <1>0 DEF Saved
    <2> QED BY <1>0, <1>2, <2>1 DEF KeptInv, IsThere
  <1>8. C!AckedIsKept' /\ C!StoredOnce' BY <1>0, <1>2 DEF KeptInv, C!AckedIsKept, C!StoredOnce
  <1> QED BY <1>4, <1>5, <1>6, <1>7, <1>8 DEF KeptInv

\* The end of a save: what is there stays accounted for, and what is
\* acknowledged is what the handler has saved or found.
LEMMA KeptEnds ==
  ASSUME KeptInv, NEW k \in Conns, C!SavePrune(k) \/ C!Recheck(k) \/ C!DiscardUnwanted(k)
  PROVE  KeptInv'
  <1>1. /\ Saved(k) /\ UNCHANGED <<adm, torn>>
        /\ DOMAIN h' = Conns /\ \A j \in Conns : j # k => h'[j] = h[j]
        /\ DOMAIN h'[k] = {"pc", "item", "name", "created"}
        /\ \/ h'[k].pc \in {"recheck", "discard"} /\ h'[k].name = h[k].name /\ h'[k].item = h[k].item
           \/ h'[k].pc = "read"
    BY DEF C!SavePrune, C!Recheck, C!DiscardUnwanted, Saved, C!Return, C!NoHandler, KeptInv, StoreShape,
           C!store
  <1>2. /\ DOMAIN saved' = Names /\ removed \subseteq removed'
        /\ \A n \in Names : DOMAIN saved'[n] = {"item", "wav", "meta"} /\ saved'[n].item = saved[n].item
        /\ \A n \in Names : saved'[n].wav = saved[n].wav
                            \/ (saved'[n].wav = None /\ saved[n].item.id \in removed')
    <2>1. CASE UNCHANGED <<saved, removed>> BY <2>1 DEF KeptInv, StoreShape
    <2>2. ASSUME NEW ns, C!Unlink(ns)
          PROVE  /\ DOMAIN saved' = Names /\ removed \subseteq removed'
                 /\ \A n \in Names : DOMAIN saved'[n] = {"item", "wav", "meta"} /\ saved'[n].item = saved[n].item
                 /\ \A n \in Names : saved'[n].wav = saved[n].wav
                                     \/ (saved'[n].wav = None /\ saved[n].item.id \in removed')
      BY <2>2 DEF C!Unlink, KeptInv, StoreShape
    <2> QED BY <2>1, <2>2 DEF C!SavePrune, C!Recheck, C!DiscardUnwanted, C!store
  <1>3. \/ acked' = acked
        \/ acked' = acked \cup {h[k].item.id}
    BY DEF C!SavePrune, C!Recheck, C!DiscardUnwanted
  <1>4. \/ lock' = lock
        \/ h[k].pc = "prune"
    BY DEF C!SavePrune, C!Recheck, C!DiscardUnwanted
  <1>5. h[k].pc = "prune" => \A j \in Conns : j # k => h[j].pc \notin {"meta", "wav", "prune"}
    BY DEF KeptInv, NamesAndLock
  <1>6. StoreShape' BY <1>1, <1>2 DEF KeptInv, StoreShape
  <1>7. NamesAndLock' BY <1>1, <1>2, <1>4, <1>5 DEF KeptInv, NamesAndLock
  <1>8. InProgress'
    <2>1. \A j \in Conns : Saving(j)' => j # k /\ Saving(j) BY <1>1 DEF Saving
    <2> QED BY <1>1, <1>2, <2>1 DEF KeptInv, InProgress
  <1>9. IsThere' BY <1>1, <1>2 DEF KeptInv, IsThere, Saved
  <1>10. C!AckedIsKept' BY <1>1, <1>2, <1>3 DEF KeptInv, C!AckedIsKept, IsThere
  <1>11. C!StoredOnce' BY <1>1, <1>2 DEF KeptInv, C!StoredOnce
  <1> QED BY <1>6, <1>7, <1>8, <1>9, <1>10, <1>11 DEF KeptInv

LEMMA KeptCrash ==
  ASSUME KeptInv, C!Crash
  PROVE  KeptInv'
  <1>1. /\ h' = [k \in Conns |-> C!NoHandler] /\ adm' = C!NoAdmin /\ UNCHANGED <<saved, acked, removed>>
        /\ torn \subseteq torn'
    BY DEF C!Crash
  <1>2. \A k \in Conns : h'[k].pc = "closed" /\ DOMAIN h'[k] = {"pc", "item", "name", "created"}
    BY <1>1 DEF C!NoHandler
  <1>3. StoreShape' BY <1>1, <1>2 DEF KeptInv, StoreShape, C!NoAdmin
  <1>4. NamesAndLock' /\ InProgress' /\ IsThere'
    BY <1>1, <1>2 DEF KeptInv, NamesAndLock, InProgress, IsThere, Saving, Saved
  <1>5. C!AckedIsKept' /\ C!StoredOnce' BY <1>1 DEF KeptInv, C!AckedIsKept, C!StoredOnce
  <1> QED BY <1>3, <1>4, <1>5 DEF KeptInv

LEMMA KeptAdmin ==
  ASSUME KeptInv, C!LabelMoves \/ C!LabelFails
  PROVE  KeptInv'
  <1>1. /\ UNCHANGED <<h, lock, removed, acked, torn>> /\ adm.pc \in {"wav", "meta"}
        /\ adm.src # None /\ adm.dst # None
        /\ (adm' = C!NoAdmin \/ adm' = [adm EXCEPT !.pc = "meta"])
    BY DEF C!LabelMoves, C!LabelFails, C!AdminKeeps, KeptInv, StoreShape
  <1>2. \/ saved' = [saved EXCEPT ![adm.name].wav = IF @ = adm.src THEN adm.dst ELSE @]
        \/ saved' = [saved EXCEPT ![adm.name].meta = IF @ = adm.src THEN adm.dst ELSE @]
        \/ saved' = [saved EXCEPT ![adm.name].wav = IF @ = adm.dst THEN adm.src ELSE @]
    BY DEF C!LabelMoves, C!LabelFails
  <1>3. DOMAIN saved' = Names
        /\ \A n \in Names : /\ DOMAIN saved'[n] = {"item", "wav", "meta"} /\ saved'[n].item = saved[n].item
                            /\ saved'[n].wav = None <=> saved[n].wav = None
    BY <1>1, <1>2 DEF KeptInv, StoreShape
  <1>4. DOMAIN adm' = {"pc", "name", "src", "dst", "zip"}
        /\ (adm'.pc \in {"wav", "meta"} => adm'.src # None /\ adm'.dst # None)
    BY <1>1 DEF KeptInv, StoreShape, C!NoAdmin
  <1> QED BY <1>1, <1>3, <1>4, KeptMoves

LEMMA KeptStep == KeptInv /\ [C!Next]_C!vars => KeptInv'
  <1> SUFFICES ASSUME KeptInv, [C!Next]_C!vars PROVE KeptInv' OBVIOUS
  <1>0. DOMAIN h = Conns /\ DOMAIN adm = {"pc", "name", "src", "dst", "zip"} /\ DOMAIN saved = Names
        /\ (adm.pc \in {"wav", "meta"} => adm.src # None /\ adm.dst # None)
        /\ (\A k \in Conns : DOMAIN h[k] = {"pc", "item", "name", "created"})
        /\ \A n \in Names : DOMAIN saved[n] = {"item", "wav", "meta"}
    BY DEF KeptInv, StoreShape
  <1>1. CASE UNCHANGED <<saved, adm, removed, torn, acked, h, lock>> BY <1>0, <1>1, KeptReturns
  <1>2. ASSUME NEW k \in Conns, C!SaveFind(k) PROVE KeptInv' BY <1>2, KeptFind
  <1>3. ASSUME NEW k \in Conns, C!SaveWav(k) PROVE KeptInv' BY <1>3, KeptWav
  <1>4. ASSUME NEW k \in Conns, C!SaveMeta(k) \/ C!SaveFails(k) PROVE KeptInv' BY <1>4, KeptMeta
  <1>5. ASSUME NEW k \in Conns, C!SavePrune(k) \/ C!Recheck(k) \/ C!DiscardUnwanted(k) PROVE KeptInv'
    BY <1>5, KeptEnds
  <1>6. CASE C!Crash BY <1>6, KeptCrash
  <1>7. CASE C!LabelMoves \/ C!LabelFails BY <1>7, KeptAdmin
  <1>8. ASSUME NEW k \in Conns, C!HandlerEnds(k) \/ C!HandleFrame(k) PROVE KeptInv'
    <2>1. UNCHANGED <<saved, adm, removed, torn, acked, lock>>
      BY <1>8 DEF C!HandlerEnds, C!HandleFrame, C!store
    <2>2. /\ DOMAIN h' = Conns /\ \A j \in Conns : j # k => h'[j] = h[j]
          /\ DOMAIN h'[k] = {"pc", "item", "name", "created"}
          /\ h'[k] = h[k] \/ h'[k].pc = "closed" \/ (h'[k].pc = "find" /\ h'[k].item # C!NoItem)
      BY <1>0, <1>8 DEF C!HandlerEnds, C!HandleFrame, C!NoHandler
    <2> QED BY <2>1, <2>2, KeptReturns
  <1>9. CASE C!Connect
    <2>1. UNCHANGED <<saved, adm, removed, torn, acked, lock>> BY <1>9 DEF C!Connect, C!store
    <2>2. /\ DOMAIN h' = Conns
          /\ \A j \in Conns : h'[j] = h[j] \/ (h'[j].pc = "read" /\ DOMAIN h'[j] = DOMAIN h[j])
      BY <1>0, <1>9 DEF C!Connect
    <2> QED BY <1>0, <2>1, <2>2, KeptReturns
  <1>10. ASSUME NEW n \in Names, NEW b \in C!Buckets, C!LabelBegins(n, b) PROVE KeptInv'
    <2>1. UNCHANGED <<saved, h, lock, removed, torn, acked>>
          /\ adm' = [C!NoAdmin EXCEPT !.pc = "wav", !.name = n, !.src = saved[n].wav, !.dst = b]
          /\ saved[n].wav # None /\ b # None
      BY <1>10, CaptureNames DEF C!LabelBegins, C!AdminKeeps
    <2>2. DOMAIN adm' = {"pc", "name", "src", "dst", "zip"} /\ adm'.src # None /\ adm'.dst # None
      BY <2>1 DEF C!NoAdmin
    <2> QED BY <1>0, <2>1, <2>2, KeptMoves
  <1>11. CASE C!ExportReads
    <2>1. UNCHANGED <<saved, h, lock, removed, torn, acked>> /\ adm'.pc \in {"negative", "delete"}
          /\ DOMAIN adm' = {"pc", "name", "src", "dst", "zip"}
      BY <1>0, <1>11 DEF C!ExportReads, C!AdminKeeps, C!NoAdmin
    <2> QED BY <1>0, <2>1, KeptMoves
  <1>12. CASE C!ExportDeletes
    <2>1. UNCHANGED <<h, lock, torn, acked>> /\ adm' = C!NoAdmin
          /\ C!Unlink({n \in Names : <<n, saved[n].wav>> \in adm.zip})
      BY <1>12 DEF C!ExportDeletes, C!AdminKeeps
    <2>2. adm'.pc = "idle" /\ DOMAIN adm' = {"pc", "name", "src", "dst", "zip"} BY <2>1 DEF C!NoAdmin
    <2> QED BY <2>1, <2>2, KeptUnlinks
  <1>13. CASE C!DeleteDevice
    <2>1. UNCHANGED <<h, lock, torn, acked, adm>> /\ C!Unlink({n \in Names : saved[n].wav # None})
      BY <1>13 DEF C!DeleteDevice, C!AdminKeeps
    <2> QED BY <1>0, <2>1, KeptUnlinks
  <1>14. ASSUME NEW n \in Names, C!Discard(n) PROVE KeptInv'
    <2>1. UNCHANGED <<h, lock, torn, acked, adm>> /\ C!Unlink({n}) BY <1>14 DEF C!Discard, C!AdminKeeps
    <2> QED BY <1>0, <2>1, KeptUnlinks
  <1>15. ASSUME NEW c \in C!Caps, NEW m \in C!Managers, NEW x \in BOOLEAN, C!Observe(c, m, x) PROVE KeptInv'
    BY <1>1, <1>15 DEF C!Observe, C!store
  <1>16. ASSUME NEW i, NEW keep \in BOOLEAN, C!RequestEnds(i, keep) PROVE KeptInv'
    BY <1>1, <1>16 DEF C!RequestEnds, C!store
  <1>17. CASE C!UploadBegin \/ C!UploadNext \/ C!Control \/ C!Disconnect \/ C!ControlReconnect
    BY <1>1, <1>17 DEF C!UploadBegin, C!UploadNext, C!Control, C!Disconnect, C!ControlReconnect, C!store
  <1>18. ASSUME NEW m \in C!Managers, NEW s \in C!Settings, C!SetCaptures(m, s) PROVE KeptInv'
    BY <1>1, <1>18 DEF C!SetCaptures, C!store
  <1>19. CASE UNCHANGED C!vars BY <1>1, <1>19 DEF C!vars, C!store
  <1> QED BY <1>2, <1>3, <1>4, <1>5, <1>6, <1>7, <1>8, <1>9, <1>10, <1>11, <1>12, <1>13, <1>14, <1>15,
             <1>16, <1>17, <1>18, <1>19
          DEF C!Next, C!Upload

\* A capture the device has forgotten (Manager.Ack) is on the controller's disk until
\* it is removed there, and save_uploaded stores it once however often the device
\* uploads it again, unless its two files were apart when it was looked for.
THEOREM CapturesAreKept == C!Spec => []KeptOnce
  <1>1. KeptInv => KeptOnce BY DEF KeptInv, KeptOnce
  <1> QED BY <1>1, KeptInit, KeptStep, PTL DEF C!Spec

---------------------------------------------------------------------------
(* The captures under way, from the queue of the C!device to the handler.    *)

Messages == [t : {"config"}, mgr : C!Managers, s : C!Settings] \cup [t : {"ack"}, id : C!Caps]

DeviceTypes ==
    /\ queue \in [C!Managers -> Seq(C!Capture)] /\ dcfg \in [C!Managers -> C!Settings]
    /\ DOMAIN up = {"conn", "live", "item", "pc"} /\ (up.pc \in {"pcm", "end"} => up.item \in C!Capture)

WireTypes ==
    /\ wire \in [Conns -> Seq(C!Frame)] /\ ctl \in Seq(Messages) /\ cfg \in [C!Managers -> C!Settings]
    /\ DOMAIN rx = Conns
    /\ \A k \in Conns : DOMAIN rx[k] = {"item", "pcm"} /\ (rx[k].item # C!NoItem => rx[k].item \in C!Capture)
    /\ DOMAIN h = Conns
    /\ \A k \in Conns : /\ DOMAIN h[k] = {"pc", "item", "name", "created"}
                        /\ h[k].pc \notin {"closed", "read"} => h[k].item \in C!Capture

CaptureTypes == DeviceTypes /\ WireTypes

\* A step that sends nothing and receives nothing, as seen from the wire.
LEMMA WireTypesFrame ==
  ASSUME WireTypes, UNCHANGED <<wire, ctl, cfg, rx>>, DOMAIN h' = Conns,
         \A k \in Conns : /\ DOMAIN h'[k] = {"pc", "item", "name", "created"}
                          /\ \/ h'[k].pc \in {"closed", "read"}
                             \/ h[k].pc \notin {"closed", "read"} /\ h'[k].item = h[k].item
  PROVE  WireTypes'
  BY DEF WireTypes

LEMMA RemoveAtType ==
  ASSUME NEW X, NEW q \in Seq(X), NEW i \in 1..Len(q)
  PROVE  C!RemoveAt(q, i) \in Seq(X)
  BY DEF C!RemoveAt

LEMMA InsertAtType ==
  ASSUME NEW X, NEW q \in Seq(X), NEW i \in 1..Len(q), NEW e \in X
  PROVE  C!InsertAt(q, i, e) \in Seq(X)
  BY DEF C!InsertAt

\* The least index of a set of indices is one of them.
LEMMA LeastIndex ==
  ASSUME NEW n \in Nat, NEW I \in SUBSET (1..n), I # {}
  PROVE  C!Min(I) \in I
  <1>1. I \subseteq Nat BY SMT
  <1>2. \E x \in I : \A y \in I : x <= y BY <1>1, LeastNumber
  <1> QED BY <1>2 DEF C!Min

LEMMA EnqueueType ==
  ASSUME NEW q \in Seq(C!Capture), NEW c \in C!Capture
  PROVE  C!Enqueue(q, c) \in Seq(C!Capture)
  <1> DEFINE evict == C!SelectInSeq(q, C!Idle)
             full == Len(q) >= QueueCapacity
             room == IF full THEN C!RemoveAt(q, evict) ELSE q
             first == C!SelectInSeq(room, LAMBDA x : ~x.cross)
  <1>0. Len(q) \in Nat OBVIOUS
  <1>1. evict \in 0..Len(q)
    <2> DEFINE I == {i \in 1..Len(q) : C!Idle(q[i])}
    <2>1. evict = IF I # {} THEN C!Min(I) ELSE 0 BY DEF C!SelectInSeq
    <2>2. I # {} => C!Min(I) \in I BY <1>0, LeastIndex
    <2> HIDE DEF evict
    <2> QED BY <1>0, <2>1, <2>2
  <1>2. ASSUME ~(full /\ (~c.cross \/ evict = 0)) PROVE room \in Seq(C!Capture)
    BY <1>1, <1>2, RemoveAtType
  <1>3. ASSUME room \in Seq(C!Capture) PROVE first \in 0..Len(room)
    <2> HIDE DEF room
    <2>0. Len(room) \in Nat BY <1>3
    <2> DEFINE I == {i \in 1..Len(room) : ~room[i].cross}
    <2>1. first = IF I # {} THEN C!Min(I) ELSE 0 BY DEF C!SelectInSeq
    <2>2. I # {} => C!Min(I) \in I BY <2>0, LeastIndex
    <2> HIDE DEF first
    <2> QED BY <2>0, <2>1, <2>2
  <1>4. CASE full /\ (~c.cross \/ evict = 0) BY <1>4 DEF C!Enqueue
  <1>5. CASE ~(full /\ (~c.cross \/ evict = 0))
    <2>1. room \in Seq(C!Capture) /\ first \in 0..Len(room) BY <1>2, <1>3, <1>5
    <2>2. C!Enqueue(q, c) = IF c.cross /\ first > 0 THEN C!InsertAt(room, first, c) ELSE Append(room, c)
      BY <1>5 DEF C!Enqueue
    <2> HIDE DEF room, first
    <2> QED BY <2>1, <2>2, InsertAtType
  <1> QED BY <1>4, <1>5

LEMMA CaptureTypesInit == C!Init => CaptureTypes
  BY DEF C!Init, CaptureTypes, DeviceTypes, WireTypes, C!Settings, C!NoReceiver, C!NoHandler

\* Captures change where they stand in the queue, not otherwise.
LEMMA QueueMarks ==
  ASSUME NEW q \in Seq(C!Capture), NEW r, DOMAIN r = 1..Len(q), r = [i \in DOMAIN q |-> r[i]],
         \A i \in DOMAIN q : r[i] \in C!Capture
  PROVE  r \in Seq(C!Capture)
  OBVIOUS

LEMMA DeviceObserves ==
  ASSUME DeviceTypes,
         \/ \E c \in C!Caps, m \in C!Managers, x \in BOOLEAN : C!Observe(c, m, x)
         \/ \E i \in 1..QueueCapacity, keep \in BOOLEAN : C!RequestEnds(i, keep)
  PROVE  DeviceTypes'
  <1>1. ASSUME NEW c \in C!Caps, NEW m \in C!Managers, NEW x \in BOOLEAN, C!Observe(c, m, x)
        PROVE  DeviceTypes'
    <2> DEFINE new == [id |-> c, mgr |-> m, cross |-> x, ready |-> ~x \/ m = "stop",
                       inFlight |-> FALSE, ver |-> dcfg[m]]
    <2>1. queue' = [queue EXCEPT ![m] = C!Enqueue(@, new)] /\ UNCHANGED <<dcfg, up>> /\ dcfg[m] # 0
      BY <1>1 DEF C!Observe
    <2>2. (~x \/ m = "stop") \in BOOLEAN OBVIOUS
    <2>3. dcfg[m] \in C!Settings \ {0} BY <2>1 DEF DeviceTypes
    <2>4. new \in C!Capture BY <2>2, <2>3 DEF C!Capture
    <2> HIDE DEF new
    <2>5. C!Enqueue(queue[m], new) \in Seq(C!Capture) BY <2>4, EnqueueType DEF DeviceTypes
    <2> QED BY <2>1, <2>5 DEF DeviceTypes
  <1>2. ASSUME NEW i \in 1..QueueCapacity, NEW keep \in BOOLEAN, C!RequestEnds(i, keep)
        PROVE  DeviceTypes'
    <2> DEFINE q == queue["wake"]
    <2>1. q \in Seq(C!Capture) /\ "wake" \in C!Managers /\ UNCHANGED <<dcfg, up>> /\ i \in DOMAIN q
      BY <1>2 DEF C!RequestEnds, DeviceTypes, C!Managers
    <2>2. queue' = [queue EXCEPT !["wake"] = IF keep THEN [q EXCEPT ![i].ready = TRUE] ELSE C!RemoveAt(q, i)]
      BY <1>2 DEF C!RequestEnds
    <2>3. [q EXCEPT ![i].ready = TRUE] \in Seq(C!Capture)
      <3>1. q[i] \in C!Capture BY <2>1
      <3>2. [q[i] EXCEPT !.ready = TRUE] \in C!Capture BY <3>1 DEF C!Capture
      <3> QED BY <2>1, <3>2
    <2>4. C!RemoveAt(q, i) \in Seq(C!Capture) BY <2>1, RemoveAtType
    <2> HIDE DEF q
    <2> QED BY <2>1, <2>2, <2>3, <2>4 DEF DeviceTypes
  <1> QED BY <1>1, <1>2

\* What was sent is to be sent again.
LEMMA RetryTypes ==
  ASSUME NEW q \in [C!Managers -> Seq(C!Capture)]
  PROVE  C!RetryInFlight(q) \in [C!Managers -> Seq(C!Capture)]
  <1>1. ASSUME NEW m \in C!Managers
        PROVE  [i \in DOMAIN q[m] |-> [q[m][i] EXCEPT !.inFlight = FALSE]] \in Seq(C!Capture)
    <2>1. q[m] \in Seq(C!Capture) OBVIOUS
    <2>2. \A i \in DOMAIN q[m] : [q[m][i] EXCEPT !.inFlight = FALSE] \in C!Capture
      <3>1. \A c \in C!Capture : [c EXCEPT !.inFlight = FALSE] \in C!Capture BY DEF C!Capture
      <3> QED BY <2>1, <3>1
    <2> QED BY <2>1, <2>2
  <1> QED BY <1>1 DEF C!RetryInFlight

LEMMA UnpluggedTypes ==
  ASSUME DeviceTypes, NEW q \in [C!Managers -> Seq(C!Capture)], C!Unplugged(q), dcfg' \in [C!Managers -> C!Settings]
  PROVE  DeviceTypes'
  <1>1. queue' \in [C!Managers -> Seq(C!Capture)] BY RetryTypes DEF C!Unplugged
  <1>2. DOMAIN up' = {"conn", "live", "item", "pc"} /\ up'.pc = "idle" BY DEF C!Unplugged, C!Sent, DeviceTypes
  <1> QED BY <1>1, <1>2 DEF DeviceTypes

LEMMA DeviceControls ==
  ASSUME DeviceTypes, ctl \in Seq(Messages), C!Control
  PROVE  DeviceTypes' /\ ctl' \in Seq(Messages)
  <1>1. ctl # <<>> /\ Head(ctl) \in Messages /\ ctl' = Tail(ctl) /\ ctl' \in Seq(Messages) BY DEF C!Control
  <1>2. CASE Head(ctl).t = "config"
    <2> DEFINE m == Head(ctl).mgr
               s == Head(ctl).s
               q == [queue EXCEPT ![m] = IF s # dcfg[m] THEN <<>> ELSE @]
    <2>1. m \in C!Managers /\ s \in C!Settings BY <1>1, <1>2 DEF Messages
    <2>2. C!Configure(m, s) BY <1>2 DEF C!Control
    <2> HIDE DEF m, s
    <2>3. dcfg' \in [C!Managers -> C!Settings] BY <2>1, <2>2 DEF C!Configure, DeviceTypes
    <2>4. q \in [C!Managers -> Seq(C!Capture)] BY <2>1 DEF DeviceTypes
    <2>5. C!Unplugged(q) \/ (queue' = q /\ up' = up) BY <2>2 DEF C!Configure
    <2> HIDE DEF q
    <2> QED BY <1>1, <2>3, <2>4, <2>5, UnpluggedTypes DEF DeviceTypes
  <1>3. CASE Head(ctl).t # "config"
    <2> DEFINE q == queue["wake"]
               id == Head(ctl).id
               I == {i \in 1..Len(q) : q[i].id = id}
               a == C!SelectInSeq(q, LAMBDA c : c.id = id)
    <2>1. q \in Seq(C!Capture) /\ "wake" \in C!Managers /\ UNCHANGED <<dcfg, up>> /\ Len(q) \in Nat
      BY <1>3 DEF C!Control, DeviceTypes, C!Managers
    <2>2. queue' = IF a = 0 THEN queue ELSE [queue EXCEPT !["wake"] = C!RemoveAt(q, a)]
      BY <1>3 DEF C!Control, C!Ack
    <2>3. a = IF I # {} THEN C!Min(I) ELSE 0 BY DEF C!SelectInSeq
    <2>4. I # {} => C!Min(I) \in I BY <2>1, LeastIndex
    <2> HIDE DEF a
    <2>5. a # 0 => a \in 1..Len(q) BY <2>3, <2>4
    <2>6. a # 0 => C!RemoveAt(q, a) \in Seq(C!Capture) BY <2>1, <2>5, RemoveAtType
    <2> HIDE DEF q
    <2> QED BY <1>1, <2>1, <2>2, <2>6 DEF DeviceTypes
  <1> QED BY <1>2, <1>3

\* A frame goes out on the connection of the uploader.
LEMMA SendTypes ==
  ASSUME wire \in [Conns -> Seq(C!Frame)], NEW t \in {"begin", "pcm", "end"}, NEW c \in C!Capture, C!Send(t, c)
  PROVE  wire' \in [Conns -> Seq(C!Frame)]
  <1>1. [t |-> t, item |-> c] \in C!Frame BY DEF C!Frame
  <1>2. \A k \in Conns : Append(wire[k], [t |-> t, item |-> c]) \in Seq(C!Frame) BY <1>1
  <1>3. wire' = [wire EXCEPT ![up.conn] = Append(@, [t |-> t, item |-> c])] BY DEF C!Send
  <1> QED BY <1>2, <1>3

LEMMA DeviceUploads ==
  ASSUME DeviceTypes, wire \in [Conns -> Seq(C!Frame)], C!UploadBegin \/ C!UploadNext
  PROVE  DeviceTypes' /\ wire' \in [Conns -> Seq(C!Frame)]
  <1>1. CASE C!UploadBegin
    <2> DEFINE m == IF C!NextReady("wake") > 0 THEN "wake" ELSE "stop"
               I == {i \in 1..Len(queue[m]) : queue[m][i].ready /\ ~queue[m][i].inFlight}
               i == C!NextReady(m)
    <2>1. m \in C!Managers /\ queue[m] \in Seq(C!Capture) /\ Len(queue[m]) \in Nat
      BY DEF DeviceTypes, C!Managers
    <2>2. /\ i > 0 /\ queue' = [queue EXCEPT ![m][i].inFlight = TRUE]
          /\ up' = [up EXCEPT !.pc = "pcm", !.item = queue[m][i]]
          /\ C!Send("begin", queue[m][i]) /\ UNCHANGED dcfg
      BY <1>1 DEF C!UploadBegin
    <2> HIDE DEF m
    <2>3. i = IF I # {} THEN C!Min(I) ELSE 0 BY DEF C!NextReady, C!SelectInSeq
    <2>4. I # {} => C!Min(I) \in I BY <2>1, LeastIndex
    <2>4a. I \subseteq 1..Len(queue[m]) OBVIOUS
    <2>4b. i > 0 BY <2>2
    <2> HIDE DEF i, I
    <2>4c. I # {} BY <2>3, <2>4b
    <2>4d. i \in I BY <2>3, <2>4, <2>4c
    <2>5. i \in 1..Len(queue[m]) BY <2>4a, <2>4d
    <2>6. queue[m][i] \in C!Capture BY <2>1, <2>5
    <2>7. [queue[m][i] EXCEPT !.inFlight = TRUE] \in C!Capture BY <2>6 DEF C!Capture
    <2>8. [queue[m] EXCEPT ![i] = [queue[m][i] EXCEPT !.inFlight = TRUE]] \in Seq(C!Capture)
      BY <2>1, <2>5, <2>7
    <2>9. queue' \in [C!Managers -> Seq(C!Capture)] BY <2>1, <2>2, <2>8 DEF DeviceTypes
    <2>10. wire' \in [Conns -> Seq(C!Frame)] BY <2>2, <2>6, SendTypes
    <2> QED BY <2>2, <2>6, <2>9, <2>10 DEF DeviceTypes
  <1>2. CASE C!UploadNext
    <2> DEFINE c == up.item
    <2>1. c \in C!Capture /\ up.pc \in {"pcm", "end"} /\ UNCHANGED dcfg BY <1>2 DEF C!UploadNext, DeviceTypes
    <2>2. CASE C!Current(c)
      <3>1. C!Send(up.pc, c) /\ UNCHANGED queue /\ (up' = [up EXCEPT !.pc = "end"] \/ up' = C!Sent)
        BY <1>2, <2>2 DEF C!UploadNext
      <3>2. wire' \in [Conns -> Seq(C!Frame)] BY <2>1, <3>1, SendTypes
      <3>3. DOMAIN up' = {"conn", "live", "item", "pc"} /\ (up'.pc \in {"pcm", "end"} => up'.item \in C!Capture)
        BY <2>1, <3>1 DEF C!Sent, DeviceTypes
      <3> QED BY <2>1, <3>1, <3>2, <3>3 DEF DeviceTypes
    <2>3. CASE ~C!Current(c)
      <3>1. up' = C!Sent /\ UNCHANGED wire /\ queue' = [queue EXCEPT ![c.mgr] = C!Retried(@, c.id)]
        BY <1>2, <2>3 DEF C!UploadNext
      <3>2. DOMAIN up' = {"conn", "live", "item", "pc"} /\ up'.pc = "idle" BY <3>1 DEF C!Sent, DeviceTypes
      <3>3. \A x \in C!Capture : [x EXCEPT !.inFlight = FALSE] \in C!Capture BY DEF C!Capture
      <3>4. \A q \in Seq(C!Capture) : C!Retried(q, c.id) \in Seq(C!Capture)
        <4> SUFFICES ASSUME NEW q \in Seq(C!Capture) PROVE C!Retried(q, c.id) \in Seq(C!Capture) OBVIOUS
        <4>1. \A i \in DOMAIN q : q[i] \in C!Capture OBVIOUS
        <4>2. \A i \in DOMAIN q : (IF q[i].id = c.id THEN [q[i] EXCEPT !.inFlight = FALSE] ELSE q[i]) \in C!Capture
          BY <3>3, <4>1
        <4> QED BY <4>2 DEF C!Retried
      <3>5. queue' \in [C!Managers -> Seq(C!Capture)] BY <3>1, <3>4 DEF DeviceTypes
      <3> QED BY <2>1, <3>1, <3>2, <3>5 DEF DeviceTypes
    <2> QED BY <2>2, <2>3
  <1> QED BY <1>1, <1>2

\* The receiver completes a capture only as it was announced.
LEMMA FeedTypes ==
  ASSUME WireTypes, NEW k \in Conns, NEW f \in C!Frame
  PROVE  /\ DOMAIN C!Feed(rx[k], f).rx = {"item", "pcm"}
         /\ C!Feed(rx[k], f).rx.item # C!NoItem => C!Feed(rx[k], f).rx.item \in C!Capture
         /\ C!Feed(rx[k], f).done # C!NoItem => C!Feed(rx[k], f).done \in C!Capture
  <1> DEFINE r == rx[k]
  <1>1. DOMAIN r = {"item", "pcm"} /\ (r.item # C!NoItem => r.item \in C!Capture) /\ f.item \in C!Capture
    BY DEF WireTypes, C!Frame
  <1> HIDE DEF r
  <1>2. CASE f.t = "begin" /\ r.item = C!NoItem
    <2>1. C!Feed(r, f) = [rx |-> [r EXCEPT !.item = f.item], done |-> C!NoItem] BY <1>2 DEF C!Feed
    <2> QED BY <1>1, <2>1 DEF r
  <1>3. CASE f.t = "pcm" /\ r.item # C!NoItem /\ r.pcm = <<>>
    <2>1. C!Feed(r, f) = [rx |-> [r EXCEPT !.pcm = Append(@, f.item)], done |-> C!NoItem] BY <1>3 DEF C!Feed
    <2> QED BY <1>1, <2>1 DEF r
  <1>4. CASE f.t = "end" /\ r.item # C!NoItem /\ r.pcm = <<f.item>>
    <2>1. C!Feed(r, f) = [rx |-> C!NoReceiver, done |-> r.item] BY <1>4 DEF C!Feed
    <2> QED BY <1>1, <2>1 DEF r, C!NoReceiver
  <1>5. CASE /\ ~(f.t = "begin" /\ r.item = C!NoItem) /\ ~(f.t = "pcm" /\ r.item # C!NoItem /\ r.pcm = <<>>)
             /\ ~(f.t = "end" /\ r.item # C!NoItem /\ r.pcm = <<f.item>>)
    <2>1. C!Feed(r, f) = [rx |-> C!NoReceiver, done |-> C!NoItem] BY <1>5 DEF C!Feed
    <2> QED BY <1>1, <2>1 DEF r, C!NoReceiver
  <1> QED BY <1>2, <1>3, <1>4, <1>5

LEMMA HandleTypes ==
  ASSUME WireTypes, NEW k \in Conns, C!HandleFrame(k)
  PROVE  WireTypes'
  <1> DEFINE f == Head(wire[k])
             r == IF \A m \in C!Managers : cfg[m] = 0
                  THEN [rx |-> C!NoReceiver, done |-> C!NoItem]
                  ELSE C!Feed(rx[k], f)
  <1>1. /\ h[k].pc = "read" /\ wire[k] # <<>> /\ wire' = [wire EXCEPT ![k] = Tail(@)]
        /\ rx' = [rx EXCEPT ![k] = r.rx] /\ UNCHANGED <<ctl, cfg>>
        /\ h' = IF r.done # C!NoItem /\ C!Accepts(k, r.done)
                THEN [h EXCEPT ![k].pc = "find", ![k].item = r.done] ELSE h
    BY DEF C!HandleFrame
  <1>2. wire[k] \in Seq(C!Frame) BY DEF WireTypes
  <1>3. f \in C!Frame /\ Tail(wire[k]) \in Seq(C!Frame) BY <1>1, <1>2
  <1>4. /\ DOMAIN r.rx = {"item", "pcm"} /\ (r.rx.item # C!NoItem => r.rx.item \in C!Capture)
        /\ (r.done # C!NoItem => r.done \in C!Capture)
    BY <1>3, FeedTypes DEF C!NoReceiver
  <1> HIDE DEF r, f
  <1>5. wire' \in [Conns -> Seq(C!Frame)] BY <1>1, <1>3 DEF WireTypes
  <1>6. /\ DOMAIN rx' = Conns
        /\ \A j \in Conns : DOMAIN rx'[j] = {"item", "pcm"} /\ (rx'[j].item # C!NoItem => rx'[j].item \in C!Capture)
    BY <1>1, <1>4 DEF WireTypes
  <1>7. /\ DOMAIN h' = Conns /\ \A j \in Conns : DOMAIN h'[j] = DOMAIN h[j] /\ (j # k => h'[j] = h[j])
        /\ h'[k].pc \notin {"closed", "read"} => h'[k].item \in C!Capture
    BY <1>1, <1>4 DEF WireTypes
  <1> QED BY <1>1, <1>5, <1>6, <1>7 DEF WireTypes

LEMMA SettingsSent ==
  ASSUME cfg \in [C!Managers -> C!Settings]
  PROVE  C!AllSettings \in Seq(Messages)
  <1>1. \A m \in C!Managers : [t |-> "config", mgr |-> m, s |-> cfg[m]] \in Messages BY DEF Messages
  <1>2. "wake" \in C!Managers /\ "stop" \in C!Managers BY DEF C!Managers
  <1> QED BY <1>1, <1>2 DEF C!AllSettings

\* The save and its end, as seen from the wire.
LEMMA SaveTypes ==
  ASSUME WireTypes, NEW k \in Conns,
         C!SaveFind(k) \/ C!SaveMeta(k) \/ C!SaveWav(k) \/ C!SavePrune(k) \/ C!SaveFails(k) \/ C!DiscardUnwanted(k)
  PROVE  WireTypes' /\ UNCHANGED <<queue, dcfg, up>>
  <1>1. UNCHANGED <<wire, ctl, cfg, rx, queue, dcfg, up>>
    BY DEF C!SaveFind, C!SaveMeta, C!SaveWav, C!SavePrune, C!SaveFails, C!DiscardUnwanted, C!device
  <1>2. DOMAIN h = Conns /\ DOMAIN h[k] = {"pc", "item", "name", "created"} BY DEF WireTypes
  <1>3. /\ DOMAIN h' = Conns /\ \A j \in Conns : j # k => h'[j] = h[j]
        /\ DOMAIN h'[k] = {"pc", "item", "name", "created"}
        /\ \/ h'[k].pc = "read"
           \/ h[k].pc \notin {"closed", "read"} /\ h'[k].item = h[k].item
    <2>1. CASE C!SaveFind(k) BY <1>2, <2>1 DEF C!SaveFind
    <2>2. CASE C!SaveMeta(k) BY <1>2, <2>2 DEF C!SaveMeta
    <2>3. CASE C!SaveWav(k) BY <1>2, <2>3 DEF C!SaveWav
    <2>4. CASE C!SavePrune(k) BY <1>2, <2>4 DEF C!SavePrune
    <2>5. CASE C!SaveFails(k) \/ C!DiscardUnwanted(k)
      <3>1. h' = [h EXCEPT ![k] = [C!NoHandler EXCEPT !.pc = "read"]]
        BY <2>5 DEF C!SaveFails, C!DiscardUnwanted, C!Return
      <3> QED BY <1>2, <3>1 DEF C!NoHandler
    <2> QED BY <2>1, <2>2, <2>3, <2>4, <2>5
  <1>4. \A j \in Conns : \/ h[j].pc \in {"closed", "read"} \/ h[j].pc \notin {"closed", "read"} OBVIOUS
  <1> QED BY <1>1, <1>3, <1>4 DEF WireTypes

LEMMA RecheckTypes ==
  ASSUME WireTypes, NEW k \in Conns, C!Recheck(k)
  PROVE  WireTypes' /\ UNCHANGED <<queue, dcfg, up>>
  <1>1. UNCHANGED <<wire, cfg, rx, queue, dcfg, up>> /\ h[k].pc = "recheck" BY DEF C!Recheck, C!device
  <1>2. DOMAIN h = Conns /\ DOMAIN h[k] = {"pc", "item", "name", "created"} /\ h[k].item \in C!Capture
    BY <1>1 DEF WireTypes
  <1>3. ctl' = Append(ctl, [t |-> "ack", id |-> h[k].item.id]) \/ ctl' = ctl BY DEF C!Recheck
  <1>4. [t |-> "ack", id |-> h[k].item.id] \in Messages BY <1>2 DEF Messages, C!Capture
  <1>5. ctl' \in Seq(Messages)
    <2>1. ctl \in Seq(Messages) BY DEF WireTypes
    <2>2. Append(ctl, [t |-> "ack", id |-> h[k].item.id]) \in Seq(Messages) BY <1>4, <2>1
    <2> QED BY <1>3, <2>1, <2>2
  <1>6. h' = [h EXCEPT ![k].pc = "discard"] \/ h' = [h EXCEPT ![k] = [C!NoHandler EXCEPT !.pc = "read"]]
    BY DEF C!Recheck, C!Return
  <1>7. /\ DOMAIN h' = Conns /\ \A j \in Conns : j # k => h'[j] = h[j]
        /\ DOMAIN h'[k] = {"pc", "item", "name", "created"}
        /\ h'[k].pc \notin {"closed", "read"} => h'[k].item \in C!Capture
    BY <1>2, <1>6 DEF C!NoHandler
  <1> QED BY <1>1, <1>5, <1>7 DEF WireTypes

\* Connections come and go.
LEMMA LinkTypes ==
  ASSUME CaptureTypes, C!Connect \/ C!Disconnect \/ C!ControlReconnect \/ C!Crash
  PROVE  CaptureTypes'
  <1>0. /\ queue \in [C!Managers -> Seq(C!Capture)] /\ dcfg \in [C!Managers -> C!Settings]
        /\ DeviceTypes /\ WireTypes /\ cfg \in [C!Managers -> C!Settings]
    BY DEF CaptureTypes, DeviceTypes, WireTypes
  <1>1. CASE C!Connect
    <2>1. UNCHANGED <<queue, dcfg, wire, ctl, cfg, rx>> /\ h' = [h EXCEPT ![up.conn + 1].pc = "read"]
          /\ up' = [up EXCEPT !.conn = up.conn + 1, !.live = TRUE]
      BY <1>1 DEF C!Connect
    <2>2. DeviceTypes' BY <1>0, <2>1 DEF DeviceTypes
    <2>3. /\ DOMAIN h' = Conns
          /\ \A k \in Conns : h'[k] = h[k] \/ (h'[k].pc = "read" /\ DOMAIN h'[k] = DOMAIN h[k])
      BY <1>0, <2>1 DEF WireTypes
    <2>4. WireTypes' BY <1>0, <2>1, <2>3 DEF WireTypes
    <2> QED BY <2>2, <2>4 DEF CaptureTypes
  <1>2. CASE C!Disconnect
    <2>1. UNCHANGED <<dcfg, wire, ctl, cfg, rx, h>> /\ C!Unplugged(queue) BY <1>2 DEF C!Disconnect
    <2> QED BY <1>0, <2>1, UnpluggedTypes DEF CaptureTypes, WireTypes
  <1>3. CASE C!ControlReconnect
    <2>1. UNCHANGED <<dcfg, wire, cfg, rx, h>> /\ C!Unplugged(queue) /\ ctl' = C!AllSettings
      BY <1>3 DEF C!ControlReconnect
    <2>2. DeviceTypes' BY <1>0, <2>1, UnpluggedTypes
    <2> QED BY <1>0, <2>1, <2>2, SettingsSent DEF CaptureTypes, WireTypes
  <1>4. CASE C!Crash
    <2>1. /\ UNCHANGED <<dcfg, cfg>> /\ C!Unplugged(queue) /\ ctl' = C!AllSettings
          /\ h' = [k \in Conns |-> C!NoHandler] /\ rx' = [k \in Conns |-> C!NoReceiver]
          /\ wire' = [k \in Conns |-> <<>>]
      BY <1>4 DEF C!Crash
    <2>2. DeviceTypes' BY <1>0, <2>1, UnpluggedTypes
    <2>3. WireTypes' BY <1>0, <2>1, SettingsSent DEF WireTypes, C!NoReceiver, C!NoHandler
    <2> QED BY <2>2, <2>3 DEF CaptureTypes
  <1> QED BY <1>1, <1>2, <1>3, <1>4

LEMMA CaptureTypesStep == CaptureTypes /\ [C!Next]_C!vars => CaptureTypes'
  <1> SUFFICES ASSUME CaptureTypes, [C!Next]_C!vars PROVE CaptureTypes' OBVIOUS
  <1>0. DeviceTypes /\ WireTypes BY DEF CaptureTypes
  <1>1. ASSUME UNCHANGED <<queue, dcfg, up, wire, ctl, cfg, rx, h>> PROVE CaptureTypes'
    BY <1>0, <1>1 DEF CaptureTypes, DeviceTypes, WireTypes
  <1>2. CASE \/ \E c \in C!Caps, m \in C!Managers, x \in BOOLEAN : C!Observe(c, m, x)
             \/ \E i \in 1..QueueCapacity, keep \in BOOLEAN : C!RequestEnds(i, keep)
    <2>1. DeviceTypes' BY <1>0, <1>2, DeviceObserves
    <2>2. UNCHANGED <<wire, ctl, cfg, rx, h>> BY <1>2 DEF C!Observe, C!RequestEnds
    <2> QED BY <1>0, <2>1, <2>2 DEF CaptureTypes, WireTypes
  <1>3. CASE C!UploadBegin \/ C!UploadNext
    <2>1. DeviceTypes' /\ wire' \in [Conns -> Seq(C!Frame)] BY <1>0, <1>3, DeviceUploads DEF WireTypes
    <2>2. UNCHANGED <<ctl, cfg, rx, h>> BY <1>3 DEF C!UploadBegin, C!UploadNext
    <2> QED BY <1>0, <2>1, <2>2 DEF CaptureTypes, WireTypes
  <1>4. CASE C!Control
    <2>1. DeviceTypes' /\ ctl' \in Seq(Messages) BY <1>0, <1>4, DeviceControls DEF WireTypes
    <2>2. UNCHANGED <<wire, cfg, rx, h>> BY <1>4 DEF C!Control
    <2> QED BY <1>0, <2>1, <2>2 DEF CaptureTypes, WireTypes
  <1>5. CASE C!Connect \/ C!Disconnect \/ C!ControlReconnect \/ C!Crash BY <1>5, LinkTypes
  <1>6. ASSUME NEW m \in C!Managers, NEW s \in C!Settings, C!SetCaptures(m, s) PROVE CaptureTypes'
    <2>1. UNCHANGED <<queue, dcfg, up, wire, rx, h>> /\ cfg' = [cfg EXCEPT ![m] = s]
          /\ ctl' = Append(ctl, [t |-> "config", mgr |-> m, s |-> s])
      BY <1>6 DEF C!SetCaptures, C!device
    <2>2. [t |-> "config", mgr |-> m, s |-> s] \in Messages BY DEF Messages
    <2>3. ctl' \in Seq(Messages) BY <1>0, <2>1, <2>2 DEF WireTypes
    <2>4. cfg' \in [C!Managers -> C!Settings] BY <1>0, <2>1 DEF WireTypes
    <2> QED BY <1>0, <2>1, <2>3, <2>4 DEF CaptureTypes, DeviceTypes, WireTypes
  <1>7. ASSUME NEW k \in Conns, C!Upload(k) \/ C!SaveFails(k) PROVE CaptureTypes'
    <2>1. WireTypes' /\ UNCHANGED <<queue, dcfg, up>>
      <3>1. CASE C!HandleFrame(k) BY <1>0, <3>1, HandleTypes DEF C!HandleFrame, C!device
      <3>2. CASE C!Recheck(k) BY <1>0, <3>2, RecheckTypes
      <3>3. CASE C!SaveFind(k) \/ C!SaveMeta(k) \/ C!SaveWav(k) \/ C!SavePrune(k) \/ C!SaveFails(k) \/ C!DiscardUnwanted(k)
        BY <1>0, <3>3, SaveTypes
      <3> QED BY <1>7, <3>1, <3>2, <3>3 DEF C!Upload
    <2> QED BY <1>0, <2>1 DEF CaptureTypes, DeviceTypes
  <1>8. ASSUME NEW k \in Conns, C!HandlerEnds(k) PROVE CaptureTypes'
    <2>1. UNCHANGED <<queue, dcfg, up, ctl, cfg>> /\ h' = [h EXCEPT ![k] = C!NoHandler]
          /\ rx' = [rx EXCEPT ![k] = C!NoReceiver] /\ wire' = [wire EXCEPT ![k] = <<>>]
      BY <1>8 DEF C!HandlerEnds, C!device
    <2>2. wire' \in [Conns -> Seq(C!Frame)] BY <1>0, <2>1 DEF WireTypes
    <2>3. WireTypes' BY <1>0, <2>1, <2>2 DEF WireTypes, C!NoHandler, C!NoReceiver
    <2> QED BY <1>0, <2>1, <2>3 DEF CaptureTypes, DeviceTypes
  <1>9. CASE \/ \E n \in Names, b \in C!Buckets : C!LabelBegins(n, b)
             \/ C!LabelMoves \/ C!LabelFails \/ C!ExportReads \/ C!ExportDeletes \/ C!DeleteDevice
             \/ \E n \in Names : C!Discard(n)
    <2>1. C!AdminKeeps
      BY <1>9
         DEF C!LabelBegins, C!LabelMoves, C!LabelFails, C!ExportReads, C!ExportDeletes, C!DeleteDevice,
             C!Discard
    <2> QED BY <1>1, <2>1 DEF C!AdminKeeps, C!device
  <1>10. CASE UNCHANGED C!vars BY <1>1, <1>10 DEF C!vars
  <1> QED BY <1>2, <1>3, <1>4, <1>5, <1>6, <1>7, <1>8, <1>9, <1>10 DEF C!Next

---------------------------------------------------------------------------
(* What a C!device that opted out leaves behind.                             *)

\* A clip committed after the opt-out belongs to a manager that is still off, and
\* while its WAV is there the upload that committed it has not ended; a
\* connection that was not opened has no handler.
OptOutInv ==
    /\ \A k \in Conns : h[k].created =>
          /\ h[k].pc \in {"prune", "recheck", "discard"} /\ h[k].name \in Names
          /\ saved[h[k].name].item = h[k].item
    /\ \A n \in offSaved : n \in Names /\ saved[n].item \in C!Capture /\ cfg[saved[n].item.mgr] = 0
    /\ up.conn \in Nat /\ \A k \in Conns : k > up.conn => h[k].pc = "closed"
    /\ C!OptOutKeepsNothing

LEMMA OptOutInit == C!Init => OptOutInv
  BY DEF C!Init, OptOutInv, C!OptOutKeepsNothing, C!NoHandler

\* A step that commits nothing and under which no upload that committed ends.
LEMMA OptOutFrame ==
  ASSUME OptOutInv, UNCHANGED <<offSaved, cfg>>, up'.conn = up.conn,
         \A n \in Names : saved'[n].item = saved[n].item /\ (saved[n].wav = None => saved'[n].wav = None),
         \A k \in Conns : h[k].pc = "closed" => h'[k].pc = "closed",
         \A k \in Conns : \/ ~h[k].created /\ ~h'[k].created
                          \/ /\ h'[k].created = h[k].created /\ h'[k].name = h[k].name
                             /\ h'[k].item = h[k].item
                             /\ h[k].created => h'[k].pc \in {"prune", "recheck", "discard"}
  PROVE  OptOutInv'
  <1>1. C!OptOutKeepsNothing'
    <2> SUFFICES ASSUME NEW n \in offSaved, saved'[n].wav # None
                 PROVE  \E k \in Conns : h'[k].name = n /\ h'[k].created
      BY DEF C!OptOutKeepsNothing
    <2>1. n \in Names /\ saved[n].wav # None BY DEF OptOutInv
    <2>2. PICK k \in Conns : h[k].name = n /\ h[k].created BY <2>1 DEF OptOutInv, C!OptOutKeepsNothing
    <2> QED BY <2>2
  <1>2. \A k \in Conns : h'[k].created =>
          /\ h'[k].pc \in {"prune", "recheck", "discard"} /\ h'[k].name \in Names
          /\ saved'[h'[k].name].item = h'[k].item
    BY DEF OptOutInv
  <1>3. \A n \in offSaved' : n \in Names /\ saved'[n].item \in C!Capture /\ cfg'[saved'[n].item.mgr] = 0
    BY DEF OptOutInv
  <1>4. up'.conn \in Nat /\ \A k \in Conns : k > up'.conn => h'[k].pc = "closed" BY DEF OptOutInv
  <1> QED BY <1>1, <1>2, <1>3, <1>4 DEF OptOutInv

\* The handlers and the disk of a step that leaves the device, the settings and
\* the history of opt-outs alone.
LEMMA OptOutFind ==
  ASSUME KeptInv, CaptureTypes, OptOutInv, NEW k \in Conns, C!SaveFind(k)
  PROVE  OptOutInv'
  <1> DEFINE c == h[k].item
  <1>1. h[k].pc = "find" /\ UNCHANGED <<up, cfg, offSaved>> /\ c \in C!Capture
    BY DEF C!SaveFind, C!device, CaptureTypes, WireTypes
  <1>2. ~h[k].created BY <1>1 DEF OptOutInv
  <1>3. DOMAIN h[k] = {"pc", "item", "name", "created"} /\ DOMAIN h = Conns BY DEF KeptInv, StoreShape
  <1>4. CASE UNCHANGED saved /\ h' = [h EXCEPT ![k].pc = "recheck", ![k].name = CHOOSE n \in C!Found(c) : TRUE]
    <2>1. ~h'[k].created /\ h'[k].pc = "recheck" /\ \A j \in Conns : j # k => h'[j] = h[j]
      BY <1>2, <1>3, <1>4
    <2>2. \A j \in Conns : h[j].pc = "closed" => h'[j].pc = "closed" BY <1>1, <2>1
    <2>3. \A j \in Conns : \/ ~h[j].created /\ ~h'[j].created
                          \/ /\ h'[j].created = h[j].created /\ h'[j].name = h[j].name
                             /\ h'[j].item = h[j].item
                             /\ h[j].created => h'[j].pc \in {"prune", "recheck", "discard"}
      BY <1>2, <2>1 DEF OptOutInv
    <2> QED BY <1>1, <1>4, <2>2, <2>3, OptOutFrame
  <1>5. CASE /\ \E n \in Names : saved[n].item = C!NoItem
             /\ h' = [h EXCEPT ![k].pc = "meta", ![k].name = C!NewName]
             /\ saved' = [saved EXCEPT ![C!NewName].item = c]
    <2> DEFINE w == C!NewName
    <2>1. w \in Names /\ saved[w].item = C!NoItem BY <1>5, NewNameIsFree
    <2>2. h' = [h EXCEPT ![k].pc = "meta", ![k].name = w] /\ saved' = [saved EXCEPT ![w].item = c] BY <1>5
    <2> HIDE DEF w, c
    <2>3. ~h'[k].created /\ h'[k].pc = "meta" /\ \A j \in Conns : j # k => h'[j] = h[j]
      BY <1>2, <1>3, <2>2
    <2>4. /\ \A n \in Names : n # w => saved'[n].item = saved[n].item
          /\ \A n \in Names : saved'[n].wav = saved[n].wav
      BY <2>1, <2>2 DEF KeptInv, StoreShape
    \* The name is new: no clip was committed under it.
    <2>5. w \notin offSaved
      <3>1. \A x \in C!Capture : x.id \in C!Caps /\ DOMAIN x = {"id", "mgr", "cross", "ready", "inFlight", "ver"}
        BY DEF C!Capture
      <3>2. DOMAIN C!NoItem = {"id"} BY DEF C!NoItem
      <3>3. C!NoItem \notin C!Capture BY <3>1, <3>2
      <3> QED BY <2>1, <3>3 DEF OptOutInv
    <2>6. \A j \in Conns : h[j].created => h[j].name # w
      <3> SUFFICES ASSUME NEW j \in Conns, h[j].created, h[j].name = w PROVE FALSE OBVIOUS
      <3>1. h[j].pc \in {"prune", "recheck", "discard"} BY DEF OptOutInv
      <3> QED BY <2>1, <3>1 DEF KeptInv, IsThere, Saved
    <2>7. \A j \in Conns : h'[j].created =>
            /\ h'[j].pc \in {"prune", "recheck", "discard"} /\ h'[j].name \in Names
            /\ saved'[h'[j].name].item = h'[j].item
      BY <2>3, <2>4, <2>6 DEF OptOutInv
    <2>8. \A n \in offSaved : n \in Names /\ saved'[n].item \in C!Capture /\ cfg[saved'[n].item.mgr] = 0
      BY <2>4, <2>5 DEF OptOutInv
    <2>9. \A j \in Conns : j > up.conn => h'[j].pc = "closed" BY <1>1, <2>3 DEF OptOutInv
    <2>10. \A n \in offSaved : saved'[n].wav = None \/ \E j \in Conns : h'[j].name = n /\ h'[j].created
      <3> SUFFICES ASSUME NEW n \in offSaved, saved'[n].wav # None
                   PROVE  \E j \in Conns : h'[j].name = n /\ h'[j].created
        OBVIOUS
      <3>1. saved[n].wav # None BY <2>4 DEF OptOutInv
      <3>2. PICK j \in Conns : h[j].name = n /\ h[j].created BY <3>1 DEF OptOutInv, C!OptOutKeepsNothing
      <3> QED BY <1>2, <2>3, <3>2
    <2>11. up.conn \in Nat BY DEF OptOutInv
    <2> QED BY <1>1, <2>7, <2>8, <2>9, <2>10, <2>11 DEF OptOutInv, C!OptOutKeepsNothing
  <1> QED BY <1>4, <1>5 DEF C!SaveFind

LEMMA OptOutWav ==
  ASSUME KeptInv, CaptureTypes, OptOutInv, NEW k \in Conns, C!SaveWav(k)
  PROVE  OptOutInv'
  <1> DEFINE w == h[k].name
             c == h[k].item
  <1>1. /\ h[k].pc = "wav" /\ UNCHANGED <<up, cfg>>
        /\ h' = [h EXCEPT ![k].pc = "prune", ![k].created = TRUE]
        /\ saved' = [saved EXCEPT ![w].wav = "untriaged"]
        /\ offSaved' = IF C!Enabled(c) THEN offSaved ELSE offSaved \cup {w}
    BY DEF C!SaveWav, C!device
  <1>2. c \in C!Capture /\ w \in Names /\ saved[w].item = c
    BY <1>1 DEF CaptureTypes, WireTypes, KeptInv, InProgress, Saving
  <1>3. /\ h'[k].created /\ h'[k].pc = "prune" /\ h'[k].name = w /\ h'[k].item = c
        /\ \A j \in Conns : j # k => h'[j] = h[j]
    BY <1>1 DEF KeptInv, StoreShape
  <1>4. /\ \A n \in Names : saved'[n].item = saved[n].item
        /\ \A n \in Names : n # w => saved'[n].wav = saved[n].wav
    BY <1>1, <1>2 DEF KeptInv, StoreShape
  <1>5. C!Enabled(c) \/ cfg[c.mgr] = 0 BY DEF C!Enabled
  <1> HIDE DEF w, c
  <1>6. ~h[k].created BY <1>1 DEF OptOutInv
  <1>7. \A j \in Conns : h'[j].created =>
          /\ h'[j].pc \in {"prune", "recheck", "discard"} /\ h'[j].name \in Names
          /\ saved'[h'[j].name].item = h'[j].item
    BY <1>2, <1>3, <1>4 DEF OptOutInv
  <1>8. \A n \in offSaved' : n \in Names /\ saved'[n].item \in C!Capture /\ cfg'[saved'[n].item.mgr] = 0
    BY <1>1, <1>2, <1>4, <1>5 DEF OptOutInv
  <1>9. up'.conn \in Nat /\ \A j \in Conns : j > up'.conn => h'[j].pc = "closed" BY <1>1, <1>3 DEF OptOutInv
  <1>10. C!OptOutKeepsNothing'
    <2> SUFFICES ASSUME NEW n \in offSaved', saved'[n].wav # None
                 PROVE  \E j \in Conns : h'[j].name = n /\ h'[j].created
      BY DEF C!OptOutKeepsNothing
    <2>1. CASE n = w BY <1>3, <2>1
    <2>2. CASE n # w
      <3>1. n \in offSaved /\ saved[n].wav # None BY <1>1, <1>4, <2>2 DEF OptOutInv
      <3>2. PICK j \in Conns : h[j].name = n /\ h[j].created BY <3>1 DEF OptOutInv, C!OptOutKeepsNothing
      <3> QED BY <1>3, <1>6, <3>2
    <2> QED BY <2>1, <2>2
  <1> QED BY <1>7, <1>8, <1>9, <1>10 DEF OptOutInv

\* An upload that committed returns without discarding only if its manager is on,
\* and then the clip was not one of an opted-out device, or was discarded.
LEMMA OptOutReturns ==
  ASSUME KeptInv, CaptureTypes, OptOutInv, NEW k \in Conns, C!Recheck(k) \/ C!DiscardUnwanted(k), C!Return(k)
  PROVE  OptOutInv'
  <1> DEFINE w == h[k].name
  <1>1. /\ h[k].pc \in {"recheck", "discard"} /\ UNCHANGED <<up, cfg, offSaved>>
    BY DEF C!Recheck, C!DiscardUnwanted, C!device
  <1>2. w \in Names BY <1>1 DEF KeptInv, IsThere, Saved
  <1>3. ~h'[k].created /\ h'[k].pc = "read" /\ \A j \in Conns : j # k => h'[j] = h[j]
    <2>1. h' = [h EXCEPT ![k] = [C!NoHandler EXCEPT !.pc = "read"]] BY DEF C!Return
    <2> QED BY <2>1 DEF C!NoHandler, KeptInv, StoreShape
  <1>4. \A n \in Names : saved'[n].item = saved[n].item /\ (saved[n].wav = None => saved'[n].wav = None)
    <2>1. CASE C!Recheck(k) BY <2>1 DEF C!Recheck, C!store
    <2>2. CASE C!DiscardUnwanted(k)
      <3>1. C!Unlink({n \in {w} : saved[n].wav # None}) BY <2>2 DEF C!DiscardUnwanted
      <3> HIDE DEF w
      <3> QED BY <3>1 DEF C!Unlink, KeptInv, StoreShape
    <2> QED BY <2>1, <2>2
  <1>5. h[k].created => w \notin offSaved \/ saved'[w].wav = None
    <2>1. CASE C!DiscardUnwanted(k)
      <3>1. C!Unlink({n \in {w} : saved[n].wav # None}) BY <2>1 DEF C!DiscardUnwanted
      <3> QED BY <1>2, <3>1 DEF C!Unlink, KeptInv, StoreShape
    <2>2. CASE C!Recheck(k)
      <3>1. C!Enabled(h[k].item) \/ ~h[k].created
        <4>1. h'[k].pc # "discard" BY <1>3
        <4>2. h' # [h EXCEPT ![k].pc = "discard"] BY <4>1 DEF KeptInv, StoreShape
        <4> QED BY <2>2, <4>2 DEF C!Recheck
      <3>2. h[k].created => saved[w].item = h[k].item BY DEF OptOutInv
      <3>3. w \in offSaved => cfg[saved[w].item.mgr] = 0 BY DEF OptOutInv
      <3> QED BY <3>1, <3>2, <3>3 DEF C!Enabled
    <2> QED BY <2>1, <2>2
  <1> HIDE DEF w
  <1>6. \A j \in Conns : h'[j].created =>
          /\ h'[j].pc \in {"prune", "recheck", "discard"} /\ h'[j].name \in Names
          /\ saved'[h'[j].name].item = h'[j].item
    BY <1>3, <1>4 DEF OptOutInv
  <1>7. \A n \in offSaved' : n \in Names /\ saved'[n].item \in C!Capture /\ cfg'[saved'[n].item.mgr] = 0
    BY <1>1, <1>4 DEF OptOutInv
  <1>8. up'.conn \in Nat /\ \A j \in Conns : j > up'.conn => h'[j].pc = "closed" BY <1>1, <1>3 DEF OptOutInv
  <1>9. C!OptOutKeepsNothing'
    <2> SUFFICES ASSUME NEW n \in offSaved, saved'[n].wav # None
                 PROVE  \E j \in Conns : h'[j].name = n /\ h'[j].created
      BY <1>1 DEF C!OptOutKeepsNothing
    <2>1. saved[n].wav # None BY <1>4 DEF OptOutInv
    <2>2. PICK j \in Conns : h[j].name = n /\ h[j].created BY <2>1 DEF OptOutInv, C!OptOutKeepsNothing
    <2>3. j # k BY <1>5, <2>2 DEF w
    <2> QED BY <1>3, <2>2, <2>3
  <1> QED BY <1>6, <1>7, <1>8, <1>9 DEF OptOutInv

\* Opting in again ends the promise for what was committed; opting out keeps it.
LEMMA OptOutSettings ==
  ASSUME KeptInv, CaptureTypes, OptOutInv, NEW m \in C!Managers, NEW s \in C!Settings, C!SetCaptures(m, s)
  PROVE  OptOutInv'
  <1>1. /\ UNCHANGED <<up, h, saved>> /\ cfg' = [cfg EXCEPT ![m] = s]
        /\ offSaved' = IF s = 0 THEN offSaved ELSE {n \in offSaved : saved[n].item.mgr # m}
    BY DEF C!SetCaptures, C!device, C!store
  <1>2. DOMAIN cfg = C!Managers BY DEF CaptureTypes, WireTypes
  <1>3. \A x \in C!Capture : x.mgr \in C!Managers BY DEF C!Capture
  <1>4. \A n \in offSaved' : n \in Names /\ saved[n].item \in C!Capture /\ cfg'[saved[n].item.mgr] = 0
    <2> SUFFICES ASSUME NEW n \in offSaved' PROVE n \in Names /\ saved[n].item \in C!Capture /\ cfg'[saved[n].item.mgr] = 0
      OBVIOUS
    <2>1. n \in offSaved /\ (s = 0 \/ saved[n].item.mgr # m) BY <1>1
    <2>2. n \in Names /\ saved[n].item \in C!Capture /\ cfg[saved[n].item.mgr] = 0 BY <2>1 DEF OptOutInv
    <2>3. saved[n].item.mgr \in C!Managers BY <1>3, <2>2
    <2>4. cfg'[saved[n].item.mgr] = 0 BY <1>1, <1>2, <2>1, <2>2, <2>3
    <2> QED BY <2>2, <2>4
  <1>5. C!OptOutKeepsNothing' BY <1>1 DEF OptOutInv, C!OptOutKeepsNothing
  <1> QED BY <1>1, <1>4, <1>5 DEF OptOutInv

LEMMA OptOutStep == KeptInv /\ CaptureTypes /\ OptOutInv /\ [C!Next]_C!vars => OptOutInv'
  <1> SUFFICES ASSUME KeptInv, CaptureTypes, OptOutInv, [C!Next]_C!vars PROVE OptOutInv' OBVIOUS
  <1>0. /\ DOMAIN h = Conns /\ DOMAIN up = {"conn", "live", "item", "pc"} /\ DOMAIN saved = Names
        /\ \A k \in Conns : DOMAIN h[k] = {"pc", "item", "name", "created"}
        /\ \A k \in Conns : h[k].created => h[k].pc \in {"prune", "recheck", "discard"}
        /\ \A n \in Names : DOMAIN saved[n] = {"item", "wav", "meta"}
    BY DEF KeptInv, StoreShape, CaptureTypes, DeviceTypes, OptOutInv
  <1>1. ASSUME UNCHANGED <<offSaved, cfg, saved, h>>, up'.conn = up.conn PROVE OptOutInv'
    BY <1>0, <1>1, OptOutFrame
  <1>2. ASSUME UNCHANGED <<offSaved, cfg, up, saved>>, NEW k \in Conns, \A j \in Conns : j # k => h'[j] = h[j],
               ~h[k].created, ~h'[k].created, h[k].pc # "closed"
        PROVE  OptOutInv'
    BY <1>0, <1>2, OptOutFrame
  <1>3. ASSUME NEW k \in Conns, C!SaveFind(k) PROVE OptOutInv' BY <1>3, OptOutFind
  <1>4. ASSUME NEW k \in Conns, C!SaveWav(k) PROVE OptOutInv' BY <1>4, OptOutWav
  <1>5. ASSUME NEW m \in C!Managers, NEW s \in C!Settings, C!SetCaptures(m, s) PROVE OptOutInv'
    BY <1>5, OptOutSettings
  <1>6. ASSUME NEW k \in Conns, C!Recheck(k) \/ C!DiscardUnwanted(k) PROVE OptOutInv'
    <2>1. CASE C!Return(k) BY <1>6, <2>1, OptOutReturns
    <2>2. CASE C!Recheck(k) /\ h' = [h EXCEPT ![k].pc = "discard"]
      <3>1. UNCHANGED <<offSaved, cfg, up, saved>> /\ h[k].pc = "recheck"
        BY <2>2 DEF C!Recheck, C!device, C!store
      <3>2. /\ \A j \in Conns : j # k => h'[j] = h[j]
            /\ h'[k].created = h[k].created /\ h'[k].name = h[k].name /\ h'[k].item = h[k].item
            /\ h'[k].pc = "discard"
        BY <1>0, <2>2
      <3> QED BY <1>0, <3>1, <3>2, OptOutFrame
    <2> QED BY <1>6, <2>1, <2>2 DEF C!Recheck, C!DiscardUnwanted
  <1>7. ASSUME NEW k \in Conns, C!SavePrune(k) PROVE OptOutInv'
    <2>1. UNCHANGED <<offSaved, cfg, up>> /\ h[k].pc = "prune" /\ C!Unlink(C!Pruned)
          /\ h' = [h EXCEPT ![k].pc = "recheck"]
      BY <1>7 DEF C!SavePrune, C!device
    <2>2. \A n \in Names : saved'[n].item = saved[n].item /\ (saved[n].wav = None => saved'[n].wav = None)
      BY <1>0, <2>1 DEF C!Unlink
    <2>3. /\ \A j \in Conns : j # k => h'[j] = h[j]
          /\ h'[k].created = h[k].created /\ h'[k].name = h[k].name /\ h'[k].item = h[k].item
          /\ h'[k].pc = "recheck"
      BY <1>0, <2>1
    <2> QED BY <1>0, <2>1, <2>2, <2>3, OptOutFrame
  <1>8. ASSUME NEW k \in Conns, C!HandleFrame(k) \/ C!HandlerEnds(k) PROVE OptOutInv'
    <2>1. UNCHANGED <<offSaved, cfg, up, saved>> /\ h[k].pc = "read"
          /\ \/ h' = h \/ \E c : h' = [h EXCEPT ![k].pc = "find", ![k].item = c]
             \/ h' = [h EXCEPT ![k] = C!NoHandler]
      BY <1>8 DEF C!HandleFrame, C!HandlerEnds, C!device, C!store
    <2>2. ~h[k].created BY <1>0, <2>1
    <2>3. (\A j \in Conns : j # k => h'[j] = h[j]) /\ ~h'[k].created
      BY <1>0, <2>1, <2>2 DEF C!NoHandler
    <2> QED BY <1>2, <2>1, <2>2, <2>3
  <1>9. ASSUME NEW k \in Conns, C!SaveMeta(k) \/ C!SaveFails(k) PROVE OptOutInv'
    <2>1. UNCHANGED <<offSaved, cfg, up>> /\ h[k].pc \in {"meta", "wav"}
          /\ (h' = [h EXCEPT ![k].pc = "wav"] \/ h' = [h EXCEPT ![k] = [C!NoHandler EXCEPT !.pc = "read"]])
          /\ (saved' = [saved EXCEPT ![h[k].name].meta = "untriaged"] \/ saved' = [saved EXCEPT ![h[k].name].meta = None])
      BY <1>9 DEF C!SaveMeta, C!SaveFails, C!Return, C!device
    <2>2. ~h[k].created BY <1>0, <2>1
    <2>3. (\A j \in Conns : j # k => h'[j] = h[j]) /\ ~h'[k].created
      BY <1>0, <2>1, <2>2 DEF C!NoHandler
    <2>4. \A n \in Names : saved'[n].item = saved[n].item /\ saved'[n].wav = saved[n].wav BY <1>0, <2>1
    <2>5. h[k].pc # "closed" BY <2>1
    <2> QED BY <1>0, <2>1, <2>2, <2>3, <2>4, <2>5, OptOutFrame
  <1>10. CASE C!Connect
    <2> DEFINE k == up.conn + 1
    <2>1. /\ k \in Conns /\ UNCHANGED <<offSaved, cfg, saved>> /\ h' = [h EXCEPT ![k].pc = "read"]
          /\ up' = [up EXCEPT !.conn = k, !.live = TRUE]
      BY <1>10 DEF C!Connect, C!store
    <2>2. up.conn \in Nat /\ up'.conn = up.conn + 1 /\ h[k].pc = "closed"
      BY <1>0, <2>1 DEF OptOutInv
    <2>3. ~h[k].created BY <1>0, <2>1, <2>2
    <2> HIDE DEF k
    <2>4. (\A j \in Conns : j # k => h'[j] = h[j]) /\ ~h'[k].created BY <1>0, <2>1, <2>3
    <2>5. \A j \in Conns : j > up'.conn => h'[j].pc = "closed"
      <3> SUFFICES ASSUME NEW j \in Conns, j > up'.conn PROVE h'[j].pc = "closed" OBVIOUS
      <3>0. j \in Nat BY CaptureNames
      <3>1. j > up.conn /\ j # k BY <2>2, <3>0 DEF k
      <3> QED BY <2>4, <3>1 DEF OptOutInv
    <2>6. C!OptOutKeepsNothing'
      <3> SUFFICES ASSUME NEW n \in offSaved, saved[n].wav # None
                   PROVE  \E j \in Conns : h'[j].name = n /\ h'[j].created
        BY <2>1 DEF C!OptOutKeepsNothing
      <3>1. PICK j \in Conns : h[j].name = n /\ h[j].created BY DEF OptOutInv, C!OptOutKeepsNothing
      <3> QED BY <2>3, <2>4, <3>1
    <2>7. \A j \in Conns : h'[j].created =>
            /\ h'[j].pc \in {"prune", "recheck", "discard"} /\ h'[j].name \in Names
            /\ saved[h'[j].name].item = h'[j].item
      BY <2>4 DEF OptOutInv
    <2> QED BY <2>1, <2>2, <2>5, <2>6, <2>7 DEF OptOutInv
  <1>11. CASE C!Crash
    <2>1. UNCHANGED <<cfg, saved>> /\ offSaved' = {} /\ h' = [k \in Conns |-> C!NoHandler] /\ up'.conn = up.conn
      BY <1>0, <1>11 DEF C!Crash, C!Unplugged, C!Sent
    <2>2. up.conn \in Nat BY DEF OptOutInv
    <2> QED BY <2>1, <2>2 DEF OptOutInv, C!OptOutKeepsNothing, C!NoHandler
  <1>12. CASE \/ \E c \in C!Caps, m \in C!Managers, x \in BOOLEAN : C!Observe(c, m, x)
              \/ \E i \in 1..QueueCapacity, keep \in BOOLEAN : C!RequestEnds(i, keep)
              \/ C!UploadBegin \/ C!UploadNext \/ C!Disconnect \/ C!ControlReconnect
    <2>1. UNCHANGED <<offSaved, cfg, saved, h>>
      BY <1>12
         DEF C!Observe, C!RequestEnds, C!UploadBegin, C!UploadNext, C!Disconnect, C!ControlReconnect, C!store
    <2>2. up'.conn = up.conn
      BY <1>0, <1>12
      DEF C!Observe, C!RequestEnds, C!UploadBegin, C!UploadNext, C!Disconnect, C!ControlReconnect,
          C!Unplugged, C!Sent
    <2> QED BY <1>1, <2>1, <2>2
  <1>13. CASE C!Control
    <2>1. UNCHANGED <<offSaved, cfg, saved, h>> BY <1>13 DEF C!Control, C!store
    <2>2. up'.conn = up.conn BY <1>0, <1>13 DEF C!Control, C!Configure, C!Unplugged, C!Sent
    <2> QED BY <1>1, <2>1, <2>2
  <1>14. CASE C!LabelMoves \/ C!LabelFails
    <2>1. /\ UNCHANGED <<h, up, cfg, offSaved>> /\ adm.pc \in {"wav", "meta"}
          /\ adm.src # None /\ adm.dst # None
      BY <1>14 DEF C!LabelMoves, C!LabelFails, C!AdminKeeps, C!device, KeptInv, StoreShape
    <2>2. \/ saved' = [saved EXCEPT ![adm.name].wav = IF @ = adm.src THEN adm.dst ELSE @]
          \/ saved' = [saved EXCEPT ![adm.name].meta = IF @ = adm.src THEN adm.dst ELSE @]
          \/ saved' = [saved EXCEPT ![adm.name].wav = IF @ = adm.dst THEN adm.src ELSE @]
      BY <1>14 DEF C!LabelMoves, C!LabelFails
    <2>3. \A n \in Names : saved'[n].item = saved[n].item /\ (saved[n].wav = None => saved'[n].wav = None)
      BY <1>0, <2>1, <2>2
    <2> QED BY <1>0, <2>1, <2>3, OptOutFrame
  <1>15. ASSUME NEW ns, C!Unlink(ns), C!AdminKeeps PROVE OptOutInv'
    <2>1. \A n \in Names : saved'[n].item = saved[n].item /\ (saved[n].wav = None => saved'[n].wav = None)
      BY <1>0, <1>15 DEF C!Unlink
    <2> QED BY <1>0, <1>15, <2>1, OptOutFrame DEF C!AdminKeeps, C!device
  <1>16. CASE C!ExportDeletes BY <1>15, <1>16 DEF C!ExportDeletes
  <1>17. CASE C!DeleteDevice BY <1>15, <1>17 DEF C!DeleteDevice
  <1>18. ASSUME NEW n \in Names, C!Discard(n) PROVE OptOutInv' BY <1>15, <1>18 DEF C!Discard
  <1>19. CASE C!ExportReads \/ \E n \in Names, b \in C!Buckets : C!LabelBegins(n, b)
    <2>1. UNCHANGED saved /\ C!AdminKeeps BY <1>19 DEF C!ExportReads, C!LabelBegins
    <2> QED BY <1>1, <2>1 DEF C!AdminKeeps, C!device
  <1>20. CASE UNCHANGED C!vars BY <1>1, <1>20 DEF C!vars, C!store
  <1> QED BY <1>3, <1>4, <1>5, <1>6, <1>7, <1>8, <1>9, <1>10, <1>11, <1>12, <1>13, <1>14, <1>16, <1>17,
             <1>18, <1>19, <1>20
          DEF C!Next, C!Upload

\* Once the upload that committed a clip for an opted-out device is over, the clip
\* is gone: _accept_capture_upload checks the setting again after save_uploaded and
\* discards what it no longer may keep.
THEOREM OptOutIsHonoured == C!Spec => []OptOutKeepsNothing
  <1>1. OptOutInv => OptOutKeepsNothing BY DEF OptOutInv, OptOutKeepsNothing
  <1> QED
    BY <1>1, KeptInit, KeptStep, CaptureTypesInit, CaptureTypesStep, OptOutInit, OptOutStep, PTL DEF C!Spec

-----------------------------------------------------------------------------
(***************************************************************************)
(* The wake-word trainer (Forge).  FreshInv says what the arrays of a build *)
(* were made of, CorpusInv what of the corpus a job has counted.           *)
(***************************************************************************)
JobFields == {"kind", "pc", "asset", "written", "mix", "arrays", "made"}

\* The build works on its linked view of the feature arrays.
InView == work.kind = "build" /\ work.pc \in {"run", "copy", "copying", "manifest"}
\* The arrays are being replaced: the old manifest stands beside new arrays.
Replacing == work.kind = "build" /\ work.pc \in {"copying", "manifest"}

Current == [clips |-> clips, mix |-> work.mix, whole |-> TRUE]

\* The arrays in the view were made of the clips there are, unless an edit came
\* between; arrays that were taken over are only as good as those they copy.
ViewIsFresh ==
    InView =>
        /\ (work.made /\ "overlap" \notin taint) \/ (~work.made /\ taint = {}) => work.arrays = Current
        /\ work.made => work.arrays = [clips |-> work.arrays.clips, mix |-> work.mix, whole |-> TRUE]
        /\ work.pc = "manifest" => feats = work.arrays

\* The manifest says what the arrays beside it were made of.
ManifestIsTrue ==
    taint = {} /\ feats # None /\ manifest # None /\ ~Replacing =>
        feats = [clips |-> manifest.clips, mix |-> manifest.mix, whole |-> TRUE]

FreshInv ==
    /\ DOMAIN work = JobFields
    /\ work.made \in BOOLEAN
    /\ ViewIsFresh /\ ManifestIsTrue

\* The corpus: what is appended is there before it is counted, and a job that
\* appends knows of no more than there is.
CorpusTypes ==
    /\ DOMAIN work = JobFields /\ work.written \in Nat /\ unreadable \in 0..1
    /\ cv.rows \subseteq 1..Rows /\ cv.written \in Nat
    /\ DOMAIN cv = {"rows", "written", "part", "checkpoint", "done"}

Writing == work.kind = "corpus" /\ work.pc \in {"create", "append", "checkpoint"}

CorpusInv ==
    /\ CorpusTypes
    /\ F!CorpusIsFull
    /\ Writing => ~cv.done
    /\ work.kind = "corpus" /\ work.pc = "create" => ~cv.checkpoint
    /\ work.kind = "corpus" /\ work.pc \in {"open", "create"} => work.written = 0
    /\ work.kind = "corpus" /\ work.pc \in {"append", "checkpoint"} => 1..work.written \subseteq cv.rows

---------------------------------------------------------------------------
(* The feature arrays of a build. *)

LEMMA FreshInit == F!Init => FreshInv
  BY DEF F!Init, F!Idle, FreshInv, JobFields, ViewIsFresh, ManifestIsTrue, InView, Replacing

\* The steps of the jobs that touch no feature array, and the start of a job.
LEMMA FreshElsewhere ==
  ASSUME FreshInv, UNCHANGED <<feats, manifest>>, taint' = taint,
         DOMAIN work' = JobFields /\ work'.made \in BOOLEAN,
         ~InView, ~InView'
  PROVE  FreshInv'
  <1>1. ~Replacing' /\ ~Replacing BY DEF Replacing, InView
  <1> QED BY <1>1 DEF FreshInv, ViewIsFresh, ManifestIsTrue

\* A change of the clips by a request that had found no job.
LEMMA FreshEffect ==
  ASSUME FreshInv, NEW new, F!Effect(new)
  PROVE  FreshInv'
  <1>1. UNCHANGED <<work, feats, manifest>> /\ (InView' <=> InView) /\ (Replacing' <=> Replacing)
    BY DEF F!Effect, InView, Replacing
  <1>2. CASE InView /\ new # clips
    <2>1. "overlap" \in taint' BY <1>2 DEF F!Effect, F!Touches, InView
    <2> QED BY <1>1, <2>1 DEF FreshInv, ViewIsFresh, ManifestIsTrue
  <1>3. CASE ~(InView /\ new # clips)
    <2>1. taint' = taint /\ (InView => clips' = clips) BY <1>3 DEF F!Effect, F!Touches, InView
    <2> QED BY <1>1, <2>1 DEF FreshInv, ViewIsFresh, ManifestIsTrue, Current
  <1> QED BY <1>2, <1>3

\* Whoever ends a job while the arrays are being replaced leaves them torn.
LEMMA FreshKill ==
  ASSUME FreshInv, F!Kill
  PROVE  FreshInv'
  <1>1. work' = F!Idle /\ UNCHANGED <<feats, manifest>> /\ taint \subseteq taint' BY DEF F!Kill, F!Exit
  <1>2. ~InView' /\ ~Replacing' /\ DOMAIN work' = JobFields /\ work'.made \in BOOLEAN
    BY <1>1 DEF F!Idle, InView, Replacing, JobFields
  <1>3. CASE Replacing
    <2>1. taint' # {} BY <1>3 DEF F!Kill, Replacing
    <2> QED BY <1>2, <2>1 DEF FreshInv, ViewIsFresh, ManifestIsTrue
  <1>4. CASE ~Replacing
    <2>1. taint' = {} => taint = {} BY <1>1
    <2> QED BY <1>1, <1>2, <1>4, <2>1 DEF FreshInv, ViewIsFresh, ManifestIsTrue
  <1> QED BY <1>3, <1>4

LEMMA FreshAugment ==
  ASSUME FreshInv, F!Augment
  PROVE  FreshInv'
  <1>1. /\ work.kind = "build" /\ work.pc = "augment" /\ UNCHANGED <<clips, feats, manifest, taint>>
        /\ work' = [work EXCEPT !.pc = "run", !.made = F!Rebuilds,
                     !.arrays = IF F!Rebuilds THEN [clips |-> clips, mix |-> work.mix, whole |-> TRUE] ELSE feats]
    BY DEF F!Augment, F!InBuild, F!At, F!workspace
  <1>2. DOMAIN work = JobFields BY DEF FreshInv
  <1>3. /\ DOMAIN work' = JobFields /\ work'.pc = "run" /\ work'.mix = work.mix /\ work'.made = F!Rebuilds
        /\ work'.arrays = IF F!Rebuilds THEN [clips |-> clips, mix |-> work.mix, whole |-> TRUE] ELSE feats
    BY <1>1, <1>2 DEF JobFields
  <1>4. work'.made \in BOOLEAN
    <2>1. F!Rebuilds \in BOOLEAN BY Zenon DEF F!Rebuilds, F!Stale
    <2> QED BY <1>3, <2>1
  <1>5. ~Replacing /\ ~Replacing' BY <1>1, <1>3 DEF Replacing
  <1>6. ManifestIsTrue' BY <1>1, <1>5 DEF FreshInv, ManifestIsTrue
  <1>7. ViewIsFresh'
    <2>1. CASE F!Rebuilds
      <3>1. work'.arrays = Current' BY <1>1, <1>3, <2>1 DEF Current
      <3>2. work'.arrays.clips = clips' /\ work'.pc # "manifest" BY <1>3, <3>1 DEF Current
      <3> QED BY <3>1, <3>2 DEF ViewIsFresh, Current
    <2>2. CASE ~F!Rebuilds
      <3>1. ~work'.made /\ work'.arrays = feats BY <1>3, <2>2
      <3>2. feats # None /\ manifest # None /\ manifest = [clips |-> clips, mix |-> work.mix]
        BY <2>2 DEF F!Rebuilds, F!Stale
      <3>3. taint = {} => feats = Current
        BY <1>5, <3>2 DEF FreshInv, ManifestIsTrue, Current
      <3> QED BY <1>1, <1>3, <3>1, <3>3 DEF ViewIsFresh, Current
    <2> QED BY <2>1, <2>2
  <1> QED BY <1>3, <1>4, <1>6, <1>7 DEF FreshInv

\* The view is copied back: the arrays of the wake word are those of the view.
LEMMA FreshCopy ==
  ASSUME FreshInv, F!RunAugment \/ F!CopyArrays \/ F!CopiedArrays
  PROVE  FreshInv'
  <1>1. DOMAIN work = JobFields /\ work.made \in BOOLEAN BY DEF FreshInv
  <1>2. /\ InView /\ InView' /\ UNCHANGED <<clips, manifest, taint>> /\ DOMAIN work' = JobFields
        /\ work'.made = work.made /\ work'.arrays = work.arrays /\ work'.mix = work.mix
    BY <1>1
       DEF F!RunAugment, F!CopyArrays, F!CopiedArrays, F!InBuild, F!At, F!Step, InView, JobFields, F!workspace
  <1>3. work'.pc = "manifest" => feats' = work'.arrays
    BY <1>1, <1>2 DEF F!RunAugment, F!CopyArrays, F!CopiedArrays, F!InBuild, F!Step, JobFields
  <1>4. ViewIsFresh' BY <1>2, <1>3 DEF FreshInv, ViewIsFresh, Current
  <1>5. ManifestIsTrue'
    <2>1. CASE F!RunAugment
      <3>1. UNCHANGED feats /\ ~Replacing BY <2>1 DEF F!RunAugment, F!InBuild, F!At, F!workspace, Replacing
      <3> QED BY <1>2, <3>1 DEF FreshInv, ManifestIsTrue
    <2>2. CASE F!CopyArrays \/ F!CopiedArrays
      <3>1. Replacing'
        BY <1>1, <2>2 DEF F!CopyArrays, F!CopiedArrays, F!InBuild, F!At, F!Step, Replacing, JobFields
      <3> QED BY <3>1 DEF ManifestIsTrue
    <2> QED BY <2>1, <2>2
  <1> QED BY <1>1, <1>2, <1>4, <1>5 DEF FreshInv

\* The manifest lists the clips there are; when it clears the taint they are
\* the clips the arrays were made of.
LEMMA FreshManifest ==
  ASSUME FreshInv, F!WriteManifest
  PROVE  FreshInv'
  <1>1. /\ InView /\ work.pc = "manifest" /\ UNCHANGED <<clips, feats>> /\ work' = [work EXCEPT !.pc = "check"]
        /\ manifest' = [clips |-> clips, mix |-> work.mix]
        /\ taint' = IF work.made THEN (IF clips = work.arrays.clips THEN {} ELSE taint \ {"torn"}) ELSE taint
    BY DEF F!WriteManifest, F!InBuild, F!At, F!Step, InView
  <1>2. DOMAIN work' = JobFields /\ work'.made \in BOOLEAN /\ ~InView' /\ ~Replacing'
    BY <1>1 DEF FreshInv, JobFields, InView, Replacing
  <1>3. ASSUME taint' = {} PROVE work.arrays = Current
    <2>1. CASE work.made /\ clips = work.arrays.clips
      BY <1>1, <2>1 DEF FreshInv, ViewIsFresh, Current
    <2>2. CASE work.made /\ clips # work.arrays.clips
      <3>1. "overlap" \notin taint BY <1>1, <1>3, <2>2
      <3> QED BY <1>1, <2>2, <3>1 DEF FreshInv, ViewIsFresh
    <2>3. CASE ~work.made
      <3>1. taint = {} BY <1>1, <1>3, <2>3
      <3> QED BY <1>1, <2>3, <3>1 DEF FreshInv, ViewIsFresh
    <2> QED BY <2>1, <2>2, <2>3
  <1>4. feats = work.arrays BY <1>1 DEF FreshInv, ViewIsFresh
  <1>5. ManifestIsTrue' BY <1>1, <1>3, <1>4 DEF ManifestIsTrue, Current
  <1> QED BY <1>2, <1>5 DEF FreshInv, ViewIsFresh

LEMMA FreshStep == FreshInv /\ [F!Next]_F!vars => FreshInv'
  <1> SUFFICES ASSUME FreshInv, [F!Next]_F!vars PROVE FreshInv' OBVIOUS
  <1>0. DOMAIN work = JobFields /\ work.made \in BOOLEAN BY DEF FreshInv
  <1>1. DOMAIN F!Idle = JobFields /\ F!Idle.made \in BOOLEAN /\ F!Idle.kind = "none" BY DEF F!Idle, JobFields
  <1>2. CASE F!Kill BY <1>2, FreshKill
  <1>3. CASE F!Augment BY <1>3, FreshAugment
  <1>4. CASE F!RunAugment \/ F!CopyArrays \/ F!CopiedArrays BY <1>4, FreshCopy
  <1>5. CASE F!WriteManifest BY <1>5, FreshManifest
  <1>6. ASSUME NEW new, F!Effect(new) PROVE FreshInv' BY <1>6, FreshEffect
  <1>7. ASSUME NEW kind \in {"assets", "corpus", "build", "synth"},
               NEW p \in {"open", "read", "evaluate", "synth"}, NEW a, F!Start(kind, p, a)
        PROVE  FreshInv'
    <2>1. work' = [F!Idle EXCEPT !.kind = kind, !.pc = p, !.asset = a] /\ ~F!Running /\ UNCHANGED F!workspace
      BY <1>7 DEF F!Start
    <2>2. DOMAIN work' = JobFields /\ work'.made \in BOOLEAN /\ work'.pc = p
      BY <1>1, <2>1 DEF F!Idle, JobFields
    <2>3. ~InView /\ ~InView' BY <2>1, <2>2 DEF InView, F!Running
    <2> QED BY <2>1, <2>2, <2>3, FreshElsewhere DEF F!workspace
  <1>8. CASE F!Fetch \/ F!Embed \/ F!Fetched \/ F!FetchFails \/ F!Synthesized
    <2>1. ~InView /\ UNCHANGED F!workspace /\ (work' = F!Idle \/ work' = [work EXCEPT !.pc = "part"])
      BY <1>8 DEF F!Fetch, F!Embed, F!Fetched, F!FetchFails, F!Synthesized, InView, F!Exit, F!Step
    <2>2. DOMAIN work' = JobFields /\ work'.made \in BOOLEAN /\ ~InView'
      BY <1>0, <1>1, <2>1 DEF InView, JobFields
    <2> QED BY <2>1, <2>2, FreshElsewhere DEF F!workspace
  <1>9. CASE F!CorpusStep
    <2>1. work.kind = "corpus" /\ UNCHANGED F!workspace
      BY <1>9
         DEF F!CorpusStep, F!InCorpus, F!OpenWriter, F!CreatePart, F!AppendRow, F!Append,
             F!WriteCheckpoint, F!Complete, F!Unlink
    <2>2. DOMAIN work' = JobFields /\ work'.made \in BOOLEAN /\ work'.kind # "build"
      BY <1>0, <1>1, <1>9, <2>1
      DEF F!CorpusStep, F!InCorpus, F!OpenWriter, F!CreatePart, F!AppendRow, F!Append, F!WriteCheckpoint,
          F!Complete, F!Unlink,
          F!Step, F!Exit, JobFields
    <2> QED BY <2>1, <2>2, FreshElsewhere DEF F!workspace, InView
  <1>10. ASSUME NEW c \in F!Clips, F!Synthesize(c) PROVE FreshInv'
    <2>1. ~InView /\ UNCHANGED <<work, feats, manifest, taint>> BY <1>10 DEF F!Synthesize, InView
    <2>2. ~InView' BY <2>1 DEF InView
    <2> QED BY <1>0, <2>1, <2>2, FreshElsewhere
  <1>11. CASE F!ReadConfig \/ F!WriteConfig \/ F!Generate \/ F!CheckFeatures \/ F!Train \/ F!Publish \/ F!Evaluate
    <2>1. ~InView /\ UNCHANGED <<feats, manifest, taint>> /\ work.kind = "build"
      BY <1>11
         DEF F!ReadConfig, F!WriteConfig, F!Generate, F!CheckFeatures, F!Train, F!Publish, F!Evaluate,
             F!InBuild, F!At,
                   InView, F!workspace
    <2>2. DOMAIN work' = JobFields /\ work'.made \in BOOLEAN /\ ~InView'
      BY <1>0, <1>1, <1>11, <2>1
      DEF F!ReadConfig, F!WriteConfig, F!Generate, F!CheckFeatures, F!Train, F!Publish, F!Evaluate,
          F!InBuild, F!At, F!Step, F!Exit,
          InView, JobFields
    <2> QED BY <2>1, <2>2, FreshElsewhere
  <1>12. CASE F!AugmentFails
    <2>1. InView /\ ~Replacing /\ work' = F!Idle /\ UNCHANGED <<feats, manifest, taint>>
      BY <1>12 DEF F!AugmentFails, F!InBuild, F!At, F!Exit, InView, Replacing, F!workspace
    <2>2. ~InView' /\ ~Replacing' BY <1>1, <2>1 DEF InView, Replacing
    <2> QED BY <1>1, <2>1, <2>2 DEF FreshInv, ViewIsFresh, ManifestIsTrue
  <1>13. ASSUME NEW r, F!Request(r) PROVE FreshInv'
    <2>1. ~InView /\ UNCHANGED <<work, feats, manifest, taint>>
      BY <1>13 DEF F!Request, F!workspace, F!Running, InView
    <2>2. ~InView' BY <2>1 DEF InView
    <2> QED BY <1>0, <2>1, <2>2, FreshElsewhere
  <1>14. ASSUME NEW m \in Mixes, F!SetMix(m) PROVE FreshInv'
    <2>1. UNCHANGED <<work, clips, feats, manifest, taint>> BY <1>14 DEF F!SetMix
    <2> QED BY <2>1 DEF FreshInv, ViewIsFresh, ManifestIsTrue, InView, Replacing, Current
  <1>15. CASE F!Delete
    <2>1. ~F!Running /\ UNCHANGED work /\ manifest' = None BY <1>15 DEF F!Delete
    <2>2. ~InView' BY <2>1 DEF F!Running, InView
    <2> QED BY <1>0, <2>1, <2>2 DEF FreshInv, ViewIsFresh, ManifestIsTrue
  <1>16. CASE UNCHANGED F!vars
    BY <1>16 DEF F!vars, F!workspace, FreshInv, ViewIsFresh, ManifestIsTrue, InView, Replacing, Current
  <1>17. CASE F!StartBuild \/ F!StartEvaluate \/ F!StartCorpus \/ (\E a \in F!Assets : F!StartAssets(a))
              \/ (\E source \in {"google", "piper"} : F!StartSynth(source))
    BY <1>7, <1>17 DEF F!StartBuild, F!StartEvaluate, F!StartCorpus, F!StartAssets, F!StartSynth
  <1> QED
    BY <1>2, <1>3, <1>4, <1>5, <1>6, <1>8, <1>9, <1>10, <1>11, <1>12, <1>13, <1>14, <1>15, <1>16, <1>17
    DEF F!Next, F!JobStep, F!BuildStep, F!Import, F!Prune, F!DeletePiper

---------------------------------------------------------------------------
(* The corpus. *)

LEMMA CorpusInit == F!Init => CorpusInv
  <1> SUFFICES ASSUME F!Init PROVE CorpusInv OBVIOUS
  <1>1. work.kind = "none" /\ work.written = 0 /\ DOMAIN work = JobFields BY DEF F!Init, F!Idle, JobFields
  <1>2. CorpusTypes BY <1>1, RowsBound DEF F!Init, CorpusTypes
  <1>3. F!CorpusIsFull BY DEF F!Init, F!CorpusIsFull
  <1> QED BY <1>1, <1>2, <1>3 DEF CorpusInv, Writing

\* A job that does not write the corpus leaves it as it was.
LEMMA CorpusElsewhere ==
  ASSUME CorpusInv, UNCHANGED <<cv, unreadable>>, DOMAIN work' = JobFields, work'.written \in Nat,
         work' = work \/ work'.kind # "corpus" \/ (work'.pc = "open" /\ work'.written = 0)
  PROVE  CorpusInv'
  <1>1. CorpusTypes' /\ F!CorpusIsFull' BY DEF CorpusInv, CorpusTypes, F!CorpusIsFull
  <1>2. CASE work' = work BY <1>1, <1>2 DEF CorpusInv, Writing
  <1>3. CASE work'.kind # "corpus" \/ (work'.pc = "open" /\ work'.written = 0)
    BY <1>1, <1>3 DEF CorpusInv, Writing
  <1> QED BY <1>2, <1>3

LEMMA CorpusWrites ==
  ASSUME CorpusInv, F!CorpusStep
  PROVE  CorpusInv'
  <1> USE DEF CorpusInv, CorpusTypes, F!CorpusIsFull, Writing, F!InCorpus, F!At
  <1>0. DOMAIN F!Idle = JobFields /\ F!Idle.kind = "none" /\ F!Idle.written = 0 BY DEF F!Idle, JobFields
  <1>1. CASE F!OpenWriter
    <2>1. CASE work' = F!Idle BY <1>0, <1>1, <2>1 DEF F!OpenWriter
    <2>2. CASE work' = [work EXCEPT !.pc = "append", !.written = cv.written] /\ cv.part /\ cv.checkpoint /\ ~cv.done
      <3>1. DOMAIN work' = JobFields /\ work'.kind = "corpus" /\ work'.pc = "append" /\ work'.written = cv.written
        BY <1>1, <2>2 DEF F!OpenWriter, JobFields
      <3> QED BY <1>1, <2>2, <3>1 DEF F!OpenWriter
    <2>3. CASE work' = [work EXCEPT !.pc = "create"] /\ ~cv.part /\ ~cv.checkpoint /\ ~cv.done
      <3>1. DOMAIN work' = JobFields /\ work'.kind = "corpus" /\ work'.pc = "create" /\ work'.written = work.written
        BY <1>1, <2>3 DEF F!OpenWriter, JobFields
      <3> QED BY <1>1, <2>3, <3>1 DEF F!OpenWriter
    <2> QED BY <1>1, <2>1, <2>2, <2>3 DEF F!OpenWriter, F!Exit, F!Step
  <1>2. CASE F!CreatePart
    <2>1. CASE cv.part
      <3>1. DOMAIN work' = JobFields /\ work'.kind = "corpus" /\ work'.pc = "append" /\ work'.written = 0
        BY <1>2, <2>1 DEF F!CreatePart, F!Step, JobFields
      <3>2. cv' = [cv EXCEPT !.checkpoint = TRUE, !.written = 0] BY <1>2, <2>1 DEF F!CreatePart
      <3>3. cv'.rows = cv.rows /\ cv'.written = 0 /\ cv'.done = cv.done /\ DOMAIN cv' = DOMAIN cv BY <3>2
      <3>4. 1..0 \subseteq cv.rows OBVIOUS
      <3> QED BY <1>2, <3>1, <3>3, <3>4 DEF F!CreatePart
    <2>2. CASE ~cv.part
      <3>1. work' = work /\ cv' = [cv EXCEPT !.part = TRUE, !.rows = {}] BY <1>2, <2>2 DEF F!CreatePart
      <3>2. cv'.rows = {} /\ cv'.written = cv.written /\ cv'.done = cv.done /\ cv'.checkpoint = cv.checkpoint
            /\ DOMAIN cv' = DOMAIN cv
        BY <3>1
      <3> QED BY <1>2, <3>1, <3>2 DEF F!CreatePart
    <2> QED BY <2>1, <2>2
  <1>3. CASE F!AppendRow
    <2>1. /\ work.kind = "corpus" /\ work.pc = "append" /\ work.written < F!Readable /\ unreadable' = unreadable
          /\ cv' = [cv EXCEPT !.rows = @ \cup {work.written + 1}]
          /\ work' = [work EXCEPT !.pc = "checkpoint", !.written = @ + 1]
      BY <1>3 DEF F!AppendRow, F!Append
    <2>2. DOMAIN work' = JobFields /\ work'.kind = "corpus" /\ work'.pc = "checkpoint" /\ work'.written = work.written + 1
      BY <2>1 DEF JobFields
    <2>3. cv'.rows = cv.rows \cup {work.written + 1} /\ cv'.written = cv.written /\ cv'.done = cv.done
          /\ cv'.checkpoint = cv.checkpoint /\ DOMAIN cv' = DOMAIN cv
      BY <2>1
    <2>4. work.written + 1 \in 1..Rows BY <2>1, RowsBound DEF F!Readable
    <2>5. 1..(work.written + 1) \subseteq cv.rows \cup {work.written + 1} BY <2>1
    <2> QED BY <2>1, <2>2, <2>3, <2>4, <2>5
  <1>4. CASE F!WriteCheckpoint
    <2>1. /\ work.kind = "corpus" /\ work.pc = "checkpoint" /\ unreadable' = unreadable
          /\ cv' = [cv EXCEPT !.written = work.written] /\ work' = [work EXCEPT !.pc = "append"]
      BY <1>4 DEF F!WriteCheckpoint, F!Step
    <2>2. DOMAIN work' = JobFields /\ work'.kind = "corpus" /\ work'.pc = "append" /\ work'.written = work.written
      BY <2>1 DEF JobFields
    <2>3. cv'.rows = cv.rows /\ cv'.written = work.written /\ cv'.done = cv.done /\ DOMAIN cv' = DOMAIN cv
      BY <2>1
    <2> QED BY <2>1, <2>2, <2>3
  <1>5. CASE F!Complete
    <2>1. CASE work.written = Rows
      <3>1. /\ work.kind = "corpus" /\ work.pc = "append" /\ unreadable' = unreadable
            /\ cv' = [cv EXCEPT !.part = FALSE, !.done = TRUE] /\ work' = [work EXCEPT !.pc = "unlink"]
        BY <1>5, <2>1 DEF F!Complete, F!Step
      <3>2. DOMAIN work' = JobFields /\ work'.kind = "corpus" /\ work'.pc = "unlink" /\ work'.written = work.written
        BY <3>1 DEF JobFields
      <3>3. cv'.rows = cv.rows /\ cv'.written = cv.written /\ cv'.checkpoint = cv.checkpoint /\ DOMAIN cv' = DOMAIN cv
        BY <3>1
      <3>4. cv.rows = 1..Rows BY <2>1, <3>1
      <3> QED BY <3>1, <3>2, <3>3, <3>4
    <2>2. CASE work.written # Rows
      <3>1. work' = F!Idle /\ UNCHANGED <<cv, unreadable>> BY <1>5, <2>2 DEF F!Complete, F!Exit
      <3> QED BY <1>0, <3>1, CorpusElsewhere
    <2> QED BY <2>1, <2>2
  <1>6. CASE F!Unlink
    <2>1. cv' = [cv EXCEPT !.checkpoint = FALSE, !.written = 0] /\ work' = F!Idle /\ unreadable' = unreadable
      BY <1>6 DEF F!Unlink, F!Exit
    <2>2. cv'.rows = cv.rows /\ cv'.written = 0 /\ ~cv'.checkpoint /\ cv'.done = cv.done /\ DOMAIN cv' = DOMAIN cv
      BY <2>1
    <2> QED BY <1>0, <2>1, <2>2
  <1> QED BY <1>1, <1>2, <1>3, <1>4, <1>5, <1>6 DEF F!CorpusStep

LEMMA CorpusKeeps == CorpusInv /\ [F!Next]_F!vars => CorpusInv'
  <1> SUFFICES ASSUME CorpusInv, [F!Next]_F!vars PROVE CorpusInv' OBVIOUS
  <1>0. DOMAIN work = JobFields /\ work.written \in Nat BY DEF CorpusInv, CorpusTypes
  <1>1. DOMAIN F!Idle = JobFields /\ F!Idle.kind = "none" /\ F!Idle.written = 0 BY DEF F!Idle, JobFields
  <1>2. CASE F!CorpusStep BY <1>2, CorpusWrites
  <1>3. CASE work' = F!Idle /\ UNCHANGED <<cv, unreadable>> BY <1>1, <1>3, CorpusElsewhere
  <1>4. CASE UNCHANGED <<work, cv, unreadable>> BY <1>0, <1>4, CorpusElsewhere
  <1>5. ASSUME NEW kind \in {"assets", "corpus", "build", "synth"},
               NEW p \in {"open", "read", "evaluate", "synth"}, NEW a, F!Start(kind, p, a),
               kind = "corpus" => p = "open"
        PROVE  CorpusInv'
    <2>1. work' = [F!Idle EXCEPT !.kind = kind, !.pc = p, !.asset = a] /\ UNCHANGED <<cv, unreadable>>
      BY <1>5 DEF F!Start
    <2>2. DOMAIN work' = JobFields /\ work'.kind = kind /\ work'.pc = p /\ work'.written = 0
      BY <1>1, <2>1 DEF F!Idle, JobFields
    <2> QED BY <1>5, <2>1, <2>2, CorpusElsewhere
  <1>6. CASE F!StartBuild \/ F!StartEvaluate \/ F!StartCorpus \/ (\E a \in F!Assets : F!StartAssets(a))
             \/ (\E source \in {"google", "piper"} : F!StartSynth(source))
    BY <1>5, <1>6 DEF F!StartBuild, F!StartEvaluate, F!StartCorpus, F!StartAssets, F!StartSynth
  <1>7. CASE F!BuildStep
    <2>1. work.kind = "build" /\ UNCHANGED <<cv, unreadable>>
      BY <1>7
         DEF F!BuildStep, F!ReadConfig, F!WriteConfig, F!Generate, F!Augment, F!RunAugment, F!AugmentFails,
             F!CopyArrays,
                  F!CopiedArrays, F!WriteManifest, F!CheckFeatures, F!Train, F!Publish, F!Evaluate, F!InBuild, F!At
    <2>2. work' = F!Idle \/ (DOMAIN work' = JobFields /\ work'.kind = "build" /\ work'.written = work.written)
      BY <1>0, <1>7, <2>1
      DEF F!BuildStep, F!ReadConfig, F!WriteConfig, F!Generate, F!Augment, F!RunAugment, F!AugmentFails,
          F!CopyArrays,
          F!CopiedArrays, F!WriteManifest, F!CheckFeatures, F!Train, F!Publish, F!Evaluate, F!InBuild, F!Step, F!Exit, JobFields
    <2> QED BY <1>0, <1>3, <2>1, <2>2, CorpusElsewhere
  <1>8. CASE F!Fetch \/ F!Embed
    <2>1. work.kind = "assets" /\ UNCHANGED <<cv, unreadable>> /\ (work' = F!Idle \/ work' = [work EXCEPT !.pc = "part"])
      BY <1>8 DEF F!Fetch, F!Embed, F!At, F!Exit, F!Step
    <2>2. CASE work' = [work EXCEPT !.pc = "part"]
      <3>1. DOMAIN work' = JobFields /\ work'.kind = "assets" /\ work'.written = work.written
        BY <1>0, <2>1, <2>2 DEF JobFields
      <3> QED BY <1>0, <2>1, <3>1, CorpusElsewhere
    <2> QED BY <1>3, <2>1, <2>2
  <1>9. CASE F!Fetched \/ F!FetchFails \/ F!Synthesized \/ F!Kill
    BY <1>3, <1>9 DEF F!Fetched, F!FetchFails, F!Synthesized, F!Kill, F!At, F!Exit
  <1>10. CASE (\E c \in F!Clips : F!Synthesize(c)) \/ (\E r \in {"import", "prune", "mix"} : F!Request(r))
              \/ F!Import \/ F!Prune \/ F!DeletePiper \/ (\E m \in Mixes : F!SetMix(m)) \/ F!Delete
    BY <1>4, <1>10
       DEF F!Synthesize, F!At, F!Request, F!Import, F!Prune, F!DeletePiper, F!Effect, F!SetMix, F!Delete
  <1>11. CASE UNCHANGED F!vars BY <1>4, <1>11 DEF F!vars
  <1> QED BY <1>2, <1>6, <1>7, <1>8, <1>9, <1>10, <1>11 DEF F!Next, F!JobStep

---------------------------------------------------------------------------

\* What cmd_build trains on is there, through kills at any point and edits during a
\* build: feature arrays that count as current (features_stale) are whole and made of
\* the clips and the mix there are, but for an edit that takes effect while a build
\* works on its linked view and a kill from the copy of the arrays to the manifest;
\* and a corpus that ResumableFeatureWriter finished holds every row.
THEOREM TrainingReadsWhatIsThere == F!Spec => []TrainsOnWhatIsThere
  <1>1. FreshInv => F!FreshFeatures
    <2> SUFFICES ASSUME FreshInv, ~F!Stale(mix), ~F!Running, taint = {} PROVE feats = F!Made
      BY DEF F!FreshFeatures
    <2>1. feats # None /\ manifest # None /\ manifest = [clips |-> clips, mix |-> mix] BY DEF F!Stale
    <2>2. ~Replacing BY DEF F!Running, Replacing
    <2> QED BY <2>1, <2>2 DEF FreshInv, ManifestIsTrue, F!Made
  <1>2. CorpusInv => F!CorpusIsFull BY DEF CorpusInv
  <1>3. F!FreshFeatures /\ F!CorpusIsFull => TrainsOnWhatIsThere BY DEF TrainsOnWhatIsThere
  <1> QED BY <1>1, <1>2, <1>3, FreshInit, FreshStep, CorpusInit, CorpusKeeps, PTL DEF F!Spec

-----------------------------------------------------------------------------
(***************************************************************************)
(* The migrations (Schema).  A start that finds a database to migrate goes *)
(* through its backup; that it has a version to name the backup after rests *)
(* on the scripts, which set nothing else.                                 *)
(***************************************************************************)
\* A script: a sequence of statements that may set the version to a number.
IsScript(q) == \E X : q \in Seq(X) /\ \A s \in X : s.op = "version" => s.ver \in Nat

\* A list of scripts.
Listed(l) == \E T : l \in Seq(T) /\ \A q \in T : IsScript(q)

LEMMA ScriptOf ==
  ASSUME NEW q, NEW X, q \in Seq(X), \A s \in X : s.op = "version" => s.ver \in Nat
  PROVE  IsScript(q)
  BY DEF IsScript

LEMMA ListOf ==
  ASSUME NEW l, NEW T, l \in Seq(T), \A q \in T : IsScript(q)
  PROVE  Listed(l)
  BY DEF Listed

LEMMA StatementTypes ==
  /\ \A t, cs : IsScript(M!Create(t, cs)) /\ IsScript(M!Uses(t, cs))
  /\ \A t, cs : Len(cs) \in Nat => IsScript(M!Add(t, cs))
  /\ \A v \in Nat : IsScript(<<M!Version(v)>>)
  <1>1. ASSUME NEW t, NEW cs PROVE  IsScript(M!Create(t, cs)) /\ IsScript(M!Uses(t, cs))
    <2> DEFINE a == [op |-> "create", t |-> t, cs |-> M!Cols(t, cs)]
               b == [op |-> "use", t |-> t, cs |-> M!Cols(t, cs)]
    <2>1. a.op # "version" /\ b.op # "version" OBVIOUS
    <2>2. M!Create(t, cs) = <<a>> /\ M!Uses(t, cs) = <<b>> BY DEF M!Create, M!Uses
    <2> HIDE DEF a, b
    <2>3. <<a>> \in Seq({a}) /\ <<b>> \in Seq({b}) OBVIOUS
    <2>4. \A s \in {a} \cup {b} : s.op = "version" => s.ver \in Nat BY <2>1
    <2>5. IsScript(<<a>>) BY <2>3, <2>4 DEF IsScript
    <2>6. IsScript(<<b>>) BY <2>3, <2>4 DEF IsScript
    <2> QED BY <2>2, <2>5, <2>6
  <1>2. ASSUME NEW t, NEW cs, Len(cs) \in Nat PROVE IsScript(M!Add(t, cs))
    <2> DEFINE a(i) == [op |-> "add", t |-> t, cs |-> {<<t, cs[i]>>}]
               X == {a(i) : i \in 1..Len(cs)}
    <2>1. \A s \in X : s.op # "version" OBVIOUS
    <2>2. M!Add(t, cs) = [i \in 1..Len(cs) |-> a(i)] BY DEF M!Add
    <2>3. \A i \in 1..Len(cs) : a(i) \in X OBVIOUS
    <2> HIDE DEF a, X
    <2>4. M!Add(t, cs) \in Seq(X) BY <1>2, <2>2, <2>3
    <2> QED BY <2>1, <2>4 DEF IsScript
  <1>3. ASSUME NEW v \in Nat PROVE IsScript(<<M!Version(v)>>)
    <2> DEFINE q == <<M!Version(v)>>
               X == {M!Version(v)}
    <2>1. M!Version(v).ver \in Nat BY DEF M!Version
    <2>2. q \in Seq(X) /\ \A s \in X : s.op = "version" => s.ver \in Nat BY <2>1
    <2> HIDE DEF q, X
    <2>3. IsScript(q) BY <2>2, ScriptOf
    <2> QED BY <2>3 DEF q
  <1> QED BY <1>1, <1>2, <1>3

\* Scripts, and lists of them, one after the other.
LEMMA JoinedScripts ==
  /\ IsScript(<<>>)
  /\ \A p, q : IsScript(p) /\ IsScript(q) => IsScript(p \o q)
  <1>1. <<>> \in Seq({}) OBVIOUS
  <1>2. ASSUME NEW p, NEW q, IsScript(p), IsScript(q) PROVE IsScript(p \o q)
    <2>1. PICK X : p \in Seq(X) /\ \A s \in X : s.op = "version" => s.ver \in Nat BY <1>2 DEF IsScript
    <2>2. PICK T : q \in Seq(T) /\ \A s \in T : s.op = "version" => s.ver \in Nat BY <1>2 DEF IsScript
    <2>3. p \in Seq(X \cup T) /\ q \in Seq(X \cup T) BY <2>1, <2>2
    <2>4. p \o q \in Seq(X \cup T) BY <2>3
    <2> QED BY <2>1, <2>2, <2>4 DEF IsScript
  <1> QED BY <1>1, <1>2 DEF IsScript

LEMMA JoinedLists ==
  ASSUME NEW k, NEW l, Listed(k), Listed(l)
  PROVE  Listed(k \o l) /\ Len(k \o l) = Len(k) + Len(l)
  <1>1. PICK X : k \in Seq(X) /\ \A q \in X : IsScript(q) BY DEF Listed
  <1>2. PICK T : l \in Seq(T) /\ \A q \in T : IsScript(q) BY DEF Listed
  <1>3. k \in Seq(X \cup T) /\ l \in Seq(X \cup T) BY <1>1, <1>2
  <1>4. k \o l \in Seq(X \cup T) /\ Len(k \o l) = Len(k) + Len(l) BY <1>3
  <1> QED BY <1>1, <1>2, <1>4 DEF Listed

LEMMA ListOf2 ==
  ASSUME NEW a, NEW b,
         IsScript(a), IsScript(b)
  PROVE  Listed(<<a, b>>)
  <1> DEFINE l == <<a, b>>
             T == {a, b}
  <1>1. l \in Seq(T) /\ \A q \in T : IsScript(q) OBVIOUS
  <1> HIDE DEF l, T
  <1>2. Listed(l) BY <1>1, ListOf
  <1> QED BY <1>2 DEF l

LEMMA ListOf4 ==
  ASSUME NEW a, NEW b, NEW c, NEW d,
         IsScript(a), IsScript(b), IsScript(c), IsScript(d)
  PROVE  Listed(<<a, b, c, d>>)
  <1> DEFINE l == <<a, b, c, d>>
             T == {a, b, c, d}
  <1>1. l \in Seq(T) /\ \A q \in T : IsScript(q) OBVIOUS
  <1> HIDE DEF l, T
  <1>2. Listed(l) BY <1>1, ListOf
  <1> QED BY <1>2 DEF l

LEMMA ListOf6 ==
  ASSUME NEW a, NEW b, NEW c, NEW d, NEW e, NEW f,
         IsScript(a), IsScript(b), IsScript(c), IsScript(d), IsScript(e), IsScript(f)
  PROVE  Listed(<<a, b, c, d, e, f>>)
  <1> DEFINE l == <<a, b, c, d, e, f>>
             T == {a, b, c, d, e, f}
  <1>1. l \in Seq(T) /\ \A q \in T : IsScript(q) OBVIOUS
  <1> HIDE DEF l, T
  <1>2. Listed(l) BY <1>1, ListOf
  <1> QED BY <1>2 DEF l

LEMMA ListOf8 ==
  ASSUME NEW q1, NEW q2, NEW q3, NEW q4, NEW q5, NEW q6, NEW q7, NEW q8,
         IsScript(q1), IsScript(q2), IsScript(q3), IsScript(q4),
         IsScript(q5), IsScript(q6), IsScript(q7), IsScript(q8)
  PROVE  Listed(<<q1, q2, q3, q4, q5, q6, q7, q8>>)
  <1> DEFINE l == <<q1, q2, q3, q4, q5, q6, q7, q8>>
             T == {q1, q2, q3, q4, q5, q6, q7, q8}
  <1>1. l \in Seq(T) /\ \A q \in T : IsScript(q) OBVIOUS
  <1> HIDE DEF l, T
  <1>2. Listed(l) BY <1>1, ListOf
  <1> QED BY <1>2 DEF l

\* The list of migrations, part by part.
LEMMA V9T == IsScript(M!V9)
  BY StatementTypes, JoinedScripts DEF M!V9
LEMMA V1 == Listed(M!V1to4) /\ Len(M!V1to4) = 4
  BY StatementTypes, JoinedScripts, ListOf4 DEF M!V1to4
LEMMA V5 == Listed(M!V5to6) /\ Len(M!V5to6) = 2
  BY StatementTypes, JoinedScripts, ListOf2 DEF M!V5to6
LEMMA V7 == Listed(M!V7to8) /\ Len(M!V7to8) = 2
  BY StatementTypes, JoinedScripts, ListOf2 DEF M!V7to8
LEMMA V10 == Listed(M!V10to15) /\ Len(M!V10to15) = 6
  BY StatementTypes, JoinedScripts, ListOf6 DEF M!V10to15
LEMMA V16 == Listed(M!V16to21) /\ Len(M!V16to21) = 6
  BY StatementTypes, JoinedScripts, ListOf6 DEF M!V16to21
LEMMA V22 == Listed(M!V22to29) /\ Len(M!V22to29) = 8
  BY StatementTypes, JoinedScripts, ListOf8 DEF M!V22to29

LEMMA TheList == M!Latest = 29 /\ \A v \in 1..M!Latest : IsScript(M!Bodies[v])
  <1>1. Listed(<<M!V9>>) /\ Len(<<M!V9>>) = 1
    <2> DEFINE l == <<M!V9>>
               T == {M!V9}
    <2>1. l \in Seq(T) /\ Len(l) = 1 /\ \A q \in T : IsScript(q) BY V9T
    <2> HIDE DEF l, T
    <2>2. Listed(l) BY <2>1, ListOf
    <2> QED BY <2>1, <2>2 DEF l
  <1> DEFINE a == M!V1to4 \o M!V5to6
             b == a \o M!V7to8
             c == b \o <<M!V9>>
             d == c \o M!V10to15
             e == d \o M!V16to21
  <1>2. Listed(a) /\ Len(a) = 6
    <2>1. Listed(a) /\ Len(a) = Len(M!V1to4) + Len(M!V5to6) BY V1, V5, JoinedLists
    <2> QED BY <2>1, V1, V5
  <1> HIDE DEF a
  <1>3. Listed(b) /\ Len(b) = 8
    <2>1. Listed(b) /\ Len(b) = Len(a) + Len(M!V7to8) BY <1>2, V7, JoinedLists
    <2> QED BY <2>1, <1>2, V7
  <1> HIDE DEF b
  <1>4. Listed(c) /\ Len(c) = 9
    <2>1. Listed(c) /\ Len(c) = Len(b) + Len(<<M!V9>>) BY <1>1, <1>3, JoinedLists
    <2> QED BY <2>1, <1>1, <1>3
  <1> HIDE DEF c
  <1>5. Listed(d) /\ Len(d) = 15
    <2>1. Listed(d) /\ Len(d) = Len(c) + Len(M!V10to15) BY <1>4, V10, JoinedLists
    <2> QED BY <2>1, <1>4, V10
  <1> HIDE DEF d
  <1>6. Listed(e) /\ Len(e) = 21
    <2>1. Listed(e) /\ Len(e) = Len(d) + Len(M!V16to21) BY <1>5, V16, JoinedLists
    <2> QED BY <2>1, <1>5, V16
  <1> HIDE DEF e
  <1>7. Listed(e \o M!V22to29) /\ Len(e \o M!V22to29) = 29
    <2>1. Listed(e \o M!V22to29) /\ Len(e \o M!V22to29) = Len(e) + Len(M!V22to29) BY <1>6, V22, JoinedLists
    <2> QED BY <2>1, <1>6, V22
  <1>8. Listed(M!Bodies) /\ Len(M!Bodies) = 29 BY <1>7 DEF M!Bodies, a, b, c, d, e
  <1>9. PICK T : M!Bodies \in Seq(T) /\ \A q \in T : IsScript(q) BY <1>8 DEF Listed
  <1>10. \A v \in 1..Len(M!Bodies) : M!Bodies[v] \in T BY <1>9
  <1> QED BY <1>8, <1>9, <1>10 DEF M!Latest

LEMMA ScriptIs ==
  ASSUME NEW v \in 1..M!Latest
  PROVE  IsScript(M!Script(v))
  <1>1. CASE v = 1 BY <1>1, TheList DEF M!Script
  <1>2. CASE v # 1
    <2>1. PICK X : M!Bodies[v] \in Seq(X) /\ \A s \in X : s.op = "version" => s.ver \in Nat
      BY TheList DEF IsScript
    <2> DEFINE new == M!Version(v)
               T == X \cup {new}
    <2>2. v \in Nat BY TheList
    <2>3. \A s \in T : s.op = "version" => s.ver \in Nat BY <2>1, <2>2 DEF M!Version
    <2> HIDE DEF new
    <2>4. M!Bodies[v] \in Seq(T) BY <2>1
    <2>5. Append(M!Bodies[v], new) \in Seq(T) BY <2>4
    <2>6. IsScript(Append(M!Bodies[v], new)) BY <2>3, <2>5, ScriptOf
    <2> QED BY <1>2, <2>6 DEF M!Script, new
  <1> QED BY <1>1, <1>2

LEMMA VersionsAreNumbers ==
  ASSUME NEW v \in 1..M!Latest, NEW i \in 1..Len(M!Script(v)), M!Script(v)[i].op = "version"
  PROVE  M!Script(v)[i].ver \in Nat
  <1>1. PICK X : M!Script(v) \in Seq(X) /\ \A s \in X : s.op = "version" => s.ver \in Nat
    BY ScriptIs DEF IsScript
  <1> QED BY <1>1

---------------------------------------------------------------------------
(* The backup.                                                             *)

\* A start that found a database to migrate copies it before it touches it.
BackupInv ==
    /\ DOMAIN db = {"ver", "cols", "fixed"} /\ db.ver \in Nat
    /\ DOMAIN baks = 1..M!Latest
    /\ \A v \in 1..M!Latest : baks[v] # <<>> =>
          DOMAIN baks[v][1] = {"ver", "cols", "fixed"} /\ baks[v][1].ver \in Nat
    /\ DOMAIN run = {"build", "found", "ver", "at", "skip", "skipped"}
    /\ run.skip \in BOOLEAN
    /\ pc \in {"backup", "apply"} =>
          run.build \in 1..M!Latest /\ run.ver \in 1..run.build /\ run.at \in Nat \ {0}
    /\ pc = "backup" => db = run.found /\ run.found.ver \in 1..M!Latest
    /\ pc = "apply" /\ run.found.ver # 0 /\ ~run.skip => baks[run.found.ver] = <<run.found>>

LEMMA BackupInit == M!Init => BackupInv
  <1> SUFFICES ASSUME M!Init PROVE BackupInv OBVIOUS
  <1>1. DOMAIN db = {"ver", "cols", "fixed"} /\ db.ver \in Nat
    <2>1. \A v \in 0..M!Latest : DOMAIN M!Reached[v] = {"ver", "cols", "fixed"} /\ M!Reached[v].ver = v
      BY DEF M!Reached
    <2>2. \A v \in 0..M!Latest : v \in Nat BY TheList
    <2>3. DOMAIN M!MainV19 = {"ver", "cols", "fixed"} /\ M!MainV19.ver \in Nat
      BY <2>1, TheList DEF M!MainV19
    <2>4. db \in {M!Reached[v] : v \in 0..M!Latest} \/ db = M!MainV19
      BY DEF M!Init
    <2>5. CASE db = M!MainV19
      BY <2>3, <2>5
    <2>6. CASE db \in {M!Reached[v] : v \in 0..M!Latest}
      <3>1. PICK v \in 0..M!Latest : db = M!Reached[v] BY <2>6
      <3> QED BY <2>1, <2>2, <3>1
    <2> QED BY <2>4, <2>5, <2>6
  <1> QED BY <1>1 DEF M!Init, BackupInv

LEMMA BackupStep == BackupInv /\ [M!Next]_M!vars => BackupInv'
  <1> SUFFICES ASSUME BackupInv, [M!Next]_M!vars PROVE BackupInv' OBVIOUS
  <1>0. M!Latest = 29 BY TheList
  <1>1. ASSUME NEW build \in Builds, NEW skip \in BOOLEAN, M!Boot(build, skip) PROVE BackupInv'
    <2>1. build \in 0..29 BY <1>0, KnownBuilds
    <2>2. /\ run' = [build |-> build, found |-> db, ver |-> db.ver + 1, at |-> 1, skip |-> skip,
                     skipped |-> run.skipped \/ skip]
          /\ UNCHANGED <<db, baks>>
          /\ pc' \in {"backup", "apply"} => db.ver < build
          /\ pc' = "backup" => db.ver # 0
          /\ pc' = "apply" => db.ver = 0 \/ skip
      <3>1. pc' = CASE db.ver > build -> "refused"
                    [] db.ver = build -> "serving"
                    [] db.ver < build /\ M!NeedsBackup(db.ver) /\ ~skip -> "backup"
                    [] OTHER -> "apply"
        BY <1>1 DEF M!Boot
      <3>2. db.ver \in Nat BY DEF BackupInv
      <3>3. CASE db.ver > build BY <1>1, <2>1, <3>1, <3>2, <3>3 DEF M!Boot
      <3>4. CASE db.ver = build BY <1>1, <2>1, <3>1, <3>2, <3>4 DEF M!Boot
      <3>5. CASE db.ver < build /\ db.ver # 0 /\ ~skip
        BY <1>1, <2>1, <3>1, <3>2, <3>5 DEF M!Boot, M!NeedsBackup
      <3>6. CASE db.ver < build /\ (db.ver = 0 \/ skip)
        BY <1>1, <2>1, <3>1, <3>2, <3>6 DEF M!Boot, M!NeedsBackup
      <3> QED BY <2>1, <3>2, <3>3, <3>4, <3>5, <3>6
    <2>3. DOMAIN db = {"ver", "cols", "fixed"} /\ db.ver \in Nat BY DEF BackupInv
    <2>4. /\ DOMAIN run' = {"build", "found", "ver", "at", "skip", "skipped"} /\ run'.skip = skip
          /\ run'.build = build /\ run'.ver = db.ver + 1 /\ run'.at = 1 /\ run'.found = db
      BY <2>2
    <2>5. pc' \in {"backup", "apply"} => build \in 1..M!Latest /\ db.ver + 1 \in 1..build
      BY <1>0, <2>1, <2>2, <2>3
    <2>6. pc' = "backup" => db.ver \in 1..M!Latest BY <1>0, <2>1, <2>2, <2>3
    <2> QED BY <2>2, <2>3, <2>4, <2>5, <2>6 DEF BackupInv
  <1>2. CASE M!Backup
    BY <1>0, <1>2 DEF M!Backup, BackupInv
  <1>3. CASE M!Statement
    <2> DEFINE s == M!Script(run.ver)[run.at]
    <2>1. /\ pc = "apply" /\ run.at <= Len(M!Script(run.ver)) /\ UNCHANGED baks
          /\ \/ db' = M!Effect(s, db) /\ run' = [run EXCEPT !.at = run.at + 1] /\ pc' = pc
             \/ pc' = "failed" /\ UNCHANGED <<db, run>>
      BY <1>3 DEF M!Statement
    <2>2. run.ver \in 1..M!Latest /\ run.at \in Nat \ {0}
      <3>1. run.build \in 1..29 /\ run.ver \in 1..run.build /\ run.at \in Nat \ {0}
        BY <1>0, <2>1 DEF BackupInv
      <3> QED BY <1>0, <3>1
    <2>3. s.op = "version" => s.ver \in Nat
      <3>1. PICK X : M!Script(run.ver) \in Seq(X) BY <2>2, ScriptIs DEF IsScript
      <3>2. run.at \in 1..Len(M!Script(run.ver)) BY <2>1, <2>2, <3>1
      <3> QED BY <2>2, <3>2, VersionsAreNumbers
    <2> HIDE DEF s
    <2>4. DOMAIN M!Effect(s, db) = {"ver", "cols", "fixed"} /\ M!Effect(s, db).ver \in Nat
      BY <2>3 DEF M!Effect, BackupInv
    <2>5. run.at + 1 \in Nat \ {0} BY <2>2
    <2>6. CASE db' = M!Effect(s, db) /\ run' = [run EXCEPT !.at = run.at + 1] /\ pc' = pc
      BY <2>1, <2>4, <2>5, <2>6 DEF BackupInv
    <2>7. CASE pc' = "failed" /\ UNCHANGED <<db, run>> BY <2>1, <2>7 DEF BackupInv
    <2> QED BY <2>1, <2>6, <2>7
  <1>4. CASE M!Commit
    <2>1. /\ pc = "apply" /\ db' = M!Fixup(run.ver, db) /\ UNCHANGED baks
          /\ \/ pc' = "serving" /\ run' = run
             \/ pc' = "apply" /\ run.ver # run.build /\ run' = [run EXCEPT !.ver = run.ver + 1, !.at = 1]
      BY <1>4 DEF M!Commit
    <2>2. DOMAIN db' = {"ver", "cols", "fixed"} /\ db'.ver \in Nat BY <2>1 DEF M!Fixup, BackupInv
    <2>3. CASE pc' = "serving" /\ run' = run BY <2>1, <2>2, <2>3 DEF BackupInv
    <2>4. CASE pc' = "apply" /\ run.ver # run.build /\ run' = [run EXCEPT !.ver = run.ver + 1, !.at = 1]
      <3>1. run.build \in 1..29 /\ run.ver \in 1..run.build BY <1>0, <2>1 DEF BackupInv
      <3>2. run.ver + 1 \in 1..run.build BY <2>4, <3>1
      <3>3. /\ DOMAIN run' = DOMAIN run /\ run'.build = run.build /\ run'.ver = run.ver + 1 /\ run'.at = 1
            /\ run'.skip = run.skip /\ run'.found = run.found
        BY <2>4 DEF BackupInv
      <3> QED BY <2>1, <2>2, <2>4, <3>2, <3>3 DEF BackupInv
    <2> QED BY <2>1, <2>3, <2>4
  <1>5. CASE M!BackupFails \/ M!ApplyFails \/ M!Crash \/ M!Stop
    BY <1>5 DEF M!BackupFails, M!ApplyFails, M!Crash, M!Stop, BackupInv
  <1>6. ASSUME NEW v \in 1..M!Latest, M!Restore(v) PROVE BackupInv'
    BY <1>6 DEF M!Restore, BackupInv
  <1>7. CASE UNCHANGED M!vars BY <1>7 DEF M!vars, BackupInv
  <1> QED BY <1>1, <1>2, <1>3, <1>4, <1>5, <1>6, <1>7 DEF M!Next

\* No migration touches an existing database before its copy is on disk: _migrate
\* runs no script before _backup_before_migrating has written one of the version it
\* found, whatever build boots, stops or crashes in between, unless the operator set
\* EM_SKIP_DB_BACKUP.
THEOREM CopiedBeforeTouched == M!Spec => []BackedUpFirst
  <1>1. BackupInv => BackedUpFirst BY DEF BackupInv, BackedUpFirst, M!BackedUpFirst
  <1> QED BY <1>1, BackupInit, BackupStep, PTL DEF M!Spec

-----------------------------------------------------------------------------
(* The turn engine.                                                        *)

USE HaTurnsAssumption

EngineOK ==
    /\ stage \in [Turns -> Stages] /\ branch \in [Turns -> Branches] /\ marks \in [Turns -> SUBSET Marks]
    /\ reason \in [Turns -> Reasons \cup {None}] /\ outcome \in [Turns -> Outcomes \cup {None}]
    /\ faults \in 0..MaxFaults

\* A turn with an outcome that is under way again has been interrupted.
Rewritten ==
    \A t \in Turns : outcome[t] # None /\ stage[t] \notin {"recorded", "told", "stray"} =>
        stage[t] = "unstarted" /\ branch[t] # "try"

EngineInv == EngineOK /\ Rewritten

\* The steps that move a turn and those that do not.
Moves(t) ==
    \/ Offer(t) \/ CreateAnnounce(t) \/ ControllerStep(t) \/ TaskCancelled(t) \/ LateCancelled(t) \/ RunFails(t)
    \/ TerminalRaises(t)
Stays ==
    \/ \E t \in Turns : EndOfSpeech(t) \/ Abort(t) \/ PipelineStep(t)
    \/ HandlerStep \/ GatewayEvent \/ Drop \/ Reconnect

LEMMA NextSplit ==
    Next <=> (\E t \in Turns : Moves(t)) \/ Stays
BY DEF Next, Moves, Stays

\* Whatever is marked on a turn is a mark.
LEMMA MarkedTypes ==
    ASSUME EngineOK, NEW t \in Turns, NEW ms \in SUBSET Marks
    PROVE  Marked(t, ms) \in [Turns -> SUBSET Marks]
BY DEF EngineOK, Marked

\* The first cause stays.
Blames == \A t \in Turns : reason'[t] = reason[t] \/ reason[t] = None
Counts == faults' = faults \/ (faults' = faults + 1 /\ faults' \in 0..MaxFaults)

LEMMA EndTurnTypes ==
    ASSUME EngineOK, NEW t \in Turns, NEW r \in Reasons, EndTurn(t, r)
    PROVE  reason' \in [Turns -> Reasons \cup {None}] /\ marks' \in [Turns -> SUBSET Marks] /\ Blames
<1>1. {"cancelled", "endpoint", "ttsEnd"} \in SUBSET Marks
  BY DEF Marks
<1>2. marks' \in [Turns -> SUBSET Marks]
  BY <1>1, MarkedTypes DEF EndTurn, Set
<1>. QED  BY <1>2 DEF EngineOK, EndTurn, Blames

LEMMA FaultCounts == ASSUME EngineOK, Fault PROVE Counts /\ faults' = faults + 1
BY HaTurnsAssumption DEF EngineOK, Fault, Counts

\* No other step touches where a turn is, or what it is recorded with.
LEMMA StaysStep ==
    ASSUME EngineInv, Stays
    PROVE  EngineInv' /\ UNCHANGED <<stage, branch, outcome>> /\ Blames /\ Counts
<1>. SUFFICES /\ reason' \in [Turns -> Reasons \cup {None}] /\ marks' \in [Turns -> SUBSET Marks]
              /\ Blames /\ Counts /\ UNCHANGED <<stage, branch, outcome>>
  BY DEF EngineInv, EngineOK, Rewritten, Counts
<1>0. EngineOK
  BY DEF EngineInv
<1>1. ASSUME NEW t \in Turns, EndOfSpeech(t)
      PROVE  UNCHANGED <<stage, branch, reason, outcome, faults>> /\ marks' \in [Turns -> SUBSET Marks]
  <2>1. PICK ms \in SUBSET {"endpoint", "noSpeech"} : marks' = Marked(t, ms)
    BY <1>1 DEF EndOfSpeech, Set
  <2>. QED  BY <1>0, <1>1, <2>1, MarkedTypes DEF EndOfSpeech, Marks, stream
<1>2. ASSUME NEW t \in Turns, Abort(t)
      PROVE  /\ UNCHANGED <<stage, branch, outcome>> /\ marks' \in [Turns -> SUBSET Marks]
             /\ reason' \in [Turns -> Reasons \cup {None}] /\ Blames /\ Counts
  <2>1. "aborted" \in Reasons  BY DEF Reasons
  <2>2. Counts  BY <1>0, <1>2, FaultCounts DEF Abort, Push, PushRaises, Counts
  <2>3. EndTurn(t, "aborted") /\ UNCHANGED <<stage, branch, outcome>>  BY <1>2 DEF Abort
  <2>. QED  BY <1>0, <2>1, <2>2, <2>3, EndTurnTypes
<1>3. ASSUME NEW t \in Turns, PipelineStep(t)
      PROVE  UNCHANGED <<stage, branch, reason, outcome, faults>> /\ marks' \in [Turns -> SUBSET Marks]
  <2>1. UNCHANGED <<stage, branch, reason, outcome, faults>>
    BY <1>3 DEF PipelineStep, SpeechStart, SttEnd, EndpointAnswered, TtsEnd, TtsStreamed, PipelineReturns,
       PipelineDrains, engine, stream
  <2>2. marks' = marks \/ \E ms \in SUBSET {"heard", "endpoint", "ttsEnd"} : marks' = Marked(t, ms)
    BY <1>3 DEF PipelineStep, SpeechStart, SttEnd, EndpointAnswered, TtsEnd, TtsStreamed, PipelineReturns,
       PipelineDrains, engine, Set, DrainMarks
  <2>. QED  BY <1>0, <2>1, <2>2, MarkedTypes DEF Marks, EngineOK
<1>4. CASE HandlerStep
  <2>1. ASSUME TakeOffer
        PROVE  /\ UNCHANGED <<stage, branch, outcome, faults>> /\ marks' \in [Turns -> SUBSET Marks]
               /\ reason' \in [Turns -> Reasons \cup {None}] /\ Blames
    <3>1. PICK t : \/ Reject(t)
                   \/ UNCHANGED <<marks, reason>>
      BY <2>1 DEF TakeOffer
    <3>2. {"rejected", "cancelled", "endpoint", "ttsEnd"} \in SUBSET Marks
      BY DEF Marks
    <3>3. "unstarted" \in Reasons
      BY DEF Reasons
    <3>4. UNCHANGED <<stage, branch, outcome, faults>>
      BY <2>1 DEF TakeOffer, stream
    <3>. QED  BY <1>0, <3>1, <3>2, <3>3, <3>4 DEF Reject, EngineOK, Blames
  <2>2. ASSUME Attach \/ Accept \/ AttachAnnounce
        PROVE  UNCHANGED <<stage, branch, reason, outcome, faults>> /\ marks' \in [Turns -> SUBSET Marks]
    <3>1. UNCHANGED <<stage, branch, reason, outcome, faults>>
      BY <2>2 DEF Attach, Accept, AttachAnnounce, stream
    <3>2. marks' = marks \/ \E t : \E ms \in SUBSET {"socket", "open", "accepted"} : marks' = Marked(t, ms)
      BY <2>2 DEF Attach, Accept, AttachAnnounce, Set
    <3>3. ASSUME NEW t, NEW ms \in SUBSET {"socket", "open", "accepted"}, marks' = Marked(t, ms)
          PROVE  marks' \in [Turns -> SUBSET Marks]
      <4>1. ms \in SUBSET Marks
        BY <3>3 DEF Marks
      <4>2. CASE t \in Turns
        BY <1>0, <3>3, <4>1, <4>2, MarkedTypes
      <4>3. CASE t \notin Turns
        BY <1>0, <3>3, <4>3 DEF EngineOK, Marked
      <4>. QED  BY <4>2, <4>3
    <3>. QED  BY <1>0, <3>1, <3>2, <3>3 DEF EngineOK
  <2>3. ASSUME Accepted \/ OwnAnnounce
        PROVE  UNCHANGED <<stage, branch, reason, outcome, faults>> /\ marks' \in [Turns -> SUBSET Marks]
    BY <1>0, <2>3 DEF Accepted, OwnAnnounce, engine, stream, EngineOK
  <2>. QED  BY <1>0, <1>4, <2>1, <2>2, <2>3 DEF HandlerStep, EngineOK, Blames, Counts
<1>5. CASE GatewayEvent
  <2>1. UNCHANGED <<stage, branch, reason, outcome, faults>> /\ (marks' = marks \/ \E type : EndOwned(active, type))
    BY <1>5 DEF GatewayEvent, EndOwned, engine
  <2>2. marks' \in [Turns -> SUBSET Marks]
    BY <1>0, <2>1 DEF EndOwned, EngineOK, Marks
  <2>. QED  BY <1>0, <2>1, <2>2 DEF EngineOK, Blames, Counts
<1>6. CASE Drop \/ Reconnect
  BY <1>0, <1>6, HaTurnsAssumption DEF Drop, Reconnect, engine, EngineOK, Blames, Counts
<1>. QED  BY <1>0, <1>1, <1>2, <1>3, <1>4, <1>5, <1>6 DEF Stays, EngineOK, Blames, Counts

-----------------------------------------------------------------------------
(* The refinement of TurnLife.                                             *)

PhaseOf(s) ==
    CASE s = "none" -> "none"
      [] s = "recorded" -> "recorded"
      [] s = "told" -> "told"
      [] s = "over" -> "closed"
      [] s = "stray" -> "stray"
      [] OTHER -> "open"

phases == [t \in Turns |-> Phase(t)]

LEMMA PhaseIs ==
    /\ \A t \in Turns : phases[t] = PhaseOf(stage[t])
    /\ \A t \in Turns : phases'[t] = PhaseOf(stage'[t])
BY DEF phases, Phase, PhaseOf

\* A turn that goes to a stage goes to its phase.
LEMMA GotoPhase ==
    ASSUME EngineOK, NEW t \in Turns, NEW s, Goto(t, s)
    PROVE  phases' = [phases EXCEPT ![t] = PhaseOf(s)]
<1>1. \A u \in Turns : stage'[u] = IF u = t THEN s ELSE stage[u]
  BY DEF EngineOK, Goto
<1>. QED  BY <1>1, PhaseIs DEF phases

\* A step of one turn is one of its life when it counts what breaks and keeps the
\* first cause.
LEMMA LifeMove ==
    ASSUME EngineOK, Counts, NEW t \in Turns,
           \A u \in Turns : reason'[u] = reason[u] \/ reason[u] = None \/ phases'[u] = "closed",
           \/ Life!Open(t) \/ Life!Record(t) \/ Life!Interrupt(t) \/ Life!Tell(t) \/ Life!Close(t) \/ Life!Fail(t)
           \/ Life!Elsewhere
    PROVE  Life!LifeNext
<1>1. faults' = faults \/ faults' > faults
  BY DEF EngineOK, Counts
<1>2. Life!Blamed
  BY DEF Life!Blamed, phases
<1>. QED  BY <1>1, <1>2 DEF Life!LifeNext, Life!Broken

\* The turn is popped, with its end unheard of.
LEMMA Forgotten ==
    ASSUME EngineInv, NEW t \in Turns, Forget(t), faults' = faults + 1, Counts,
           stage[t] \notin {"none", "over", "stray"}
    PROVE  EngineInv' /\ Life!LifeNext
<1>0. EngineOK
  BY DEF EngineInv
<1>1. /\ Goto(t, "over") /\ marks' = [marks EXCEPT ![t] = {}] /\ branch' = [branch EXCEPT ![t] = "try"]
      /\ reason' = [reason EXCEPT ![t] = None] /\ outcome' = [outcome EXCEPT ![t] = None]
  BY DEF Forget
<1>2. phases' = [phases EXCEPT ![t] = "closed"] /\ phases[t] \in {"open", "recorded", "told"}
  BY <1>0, <1>1, GotoPhase, PhaseIs DEF PhaseOf
<1>3. Life!Fail(t)
  BY <1>0, <1>1, <1>2 DEF Life!Fail, Life!Broken, Life!Move, Life!Ends, phases, EngineOK
<1>4. \A u \in Turns : reason'[u] = reason[u] \/ phases'[u] = "closed"
  BY <1>0, <1>1, <1>2 DEF EngineOK, phases
<1>5. EngineInv'
  BY <1>1 DEF EngineInv, EngineOK, Rewritten, Goto, Stages, Branches, Counts
<1>. QED  BY <1>0, <1>3, <1>4, <1>5, LifeMove

\* The turn stays registered for ever.
LEMMA Abandoned ==
    ASSUME EngineInv, NEW t \in Turns, Goto(t, "stray"), UNCHANGED outcome, faults' = faults + 1, Counts,
           stage[t] \notin {"over", "stray"}, stage[t] = "none" => t \in Voice /\ Offer(t),
           reason' \in [Turns -> Reasons \cup {None}], marks' \in [Turns -> SUBSET Marks], Blames,
           branch' = branch \/ branch' = [branch EXCEPT ![t] = "try"]
    PROVE  EngineInv' /\ Life!LifeNext
<1>0. EngineOK
  BY DEF EngineInv
<1>1. phases' = [phases EXCEPT ![t] = "stray"] /\ phases[t] \in {"none", "open", "recorded", "told"}
  BY <1>0, GotoPhase, PhaseIs DEF PhaseOf
<1>2. ASSUME stage[t] = "none" PROVE Life!Open(t)
  <2>1. \A u \in Voice : stage[u] \in {"none", "over", "stray"}
    BY <1>2 DEF Offer
  <2>2. phases[t] = "none" /\ \A u \in Voice : phases[u] \in {"none", "closed", "stray"}
    BY <1>2, <2>1, PhaseIs DEF PhaseOf, Turns
  <2>. QED  BY <1>0, <1>1, <2>2 DEF Life!Open, Life!Broken, Life!Move, phases, EngineOK
<1>3. ASSUME stage[t] # "none" PROVE Life!Fail(t)
  <2>1. phases[t] \in {"open", "recorded", "told"}
    BY <1>0, <1>3, PhaseIs DEF PhaseOf
  <2>. QED  BY <1>0, <1>1, <2>1 DEF Life!Fail, Life!Broken, Life!Move, phases, EngineOK
<1>4. Life!Open(t) \/ Life!Fail(t)
  BY <1>2, <1>3
<1>5. EngineInv'
  BY DEF EngineInv, EngineOK, Rewritten, Goto, Stages, Branches, Counts
<1>. QED  BY <1>0, <1>4, <1>5, LifeMove DEF Blames

\* What each move of a turn is in the life of turns.
LEMMA MovesStep ==
    ASSUME EngineInv, NEW t \in Turns, Moves(t)
    PROVE  EngineInv' /\ Life!LifeNext
<1>0. EngineOK /\ Rewritten
  BY DEF EngineInv
<1>1. CASE Offer(t) \/ CreateAnnounce(t)
  <2>1. /\ stage[t] = "none" /\ UNCHANGED <<reason, outcome, branch>> /\ Blames
        /\ (t \in Voice => \A u \in Voice : stage[u] \in {"none", "over", "stray"})
    BY <1>1 DEF Offer, CreateAnnounce, Blames
  <2>2. marks' \in [Turns -> SUBSET Marks]
    BY <1>0, <1>1 DEF Offer, CreateAnnounce, EngineOK, Marks
  <2>3. ASSUME NEW s \in {"offer", "socket"}, Goto(t, s), UNCHANGED faults
        PROVE  EngineInv' /\ Life!LifeNext
    <3>1. phases' = [phases EXCEPT ![t] = "open"]
      BY <1>0, <2>3, GotoPhase DEF PhaseOf
    <3>2. phases[t] = "none" /\ (t \in Voice => \A u \in Voice : phases[u] \in {"none", "closed", "stray"})
      BY <2>1, PhaseIs DEF PhaseOf, Turns
    <3>3. Life!Open(t)
      BY <2>1, <3>1, <3>2 DEF Life!Open, Life!Move, phases
    <3>4. EngineInv'
      BY <1>0, <2>1, <2>2, <2>3 DEF EngineInv, EngineOK, Rewritten, Goto, Stages, Waiting
    <3>. QED  BY <1>0, <2>1, <2>3, <3>3, <3>4, LifeMove DEF Blames, Counts
  <2>4. ASSUME Goto(t, "stray"), Fault, Offer(t)
        PROVE  EngineInv' /\ Life!LifeNext
    <3>1. faults' = faults + 1 /\ Counts
      BY <1>0, <2>4, FaultCounts
    <3>2. t \in Voice /\ reason' \in [Turns -> Reasons \cup {None}]
      BY <1>0, <2>1, <2>4 DEF Offer, EngineOK
    <3>. QED  BY <2>1, <2>2, <2>4, <3>1, <3>2, Abandoned
  <2>5. \/ \E s \in {"offer", "socket"} : Goto(t, s) /\ UNCHANGED faults
        \/ Goto(t, "stray") /\ Fault /\ Offer(t)
    BY <1>1 DEF Offer, CreateAnnounce, Push, PushRaises, stream
  <2>. QED  BY <2>3, <2>4, <2>5
<1>2. ASSUME NEW b \in Branches, NEW r \in Reasons, Unstarted(t, b, r), Counts,
             \/ stage[t] \in Waiting
             \/ b # "try" /\ t \in Voice /\ stage[t] \in {"unstarted", "recorded", "told"} /\ faults' = faults + 1
      PROVE  EngineInv' /\ Life!LifeNext
  <2>1. EndTurn(t, r) /\ Goto(t, "unstarted") /\ outcome' = outcome /\ branch' = [branch EXCEPT ![t] = b]
    BY <1>2 DEF Unstarted
  <2>2. reason' \in [Turns -> Reasons \cup {None}] /\ marks' \in [Turns -> SUBSET Marks] /\ Blames
    BY <1>0, <2>1, EndTurnTypes
  <2>3. outcome[t] # None => b # "try"
    BY <1>0, <1>2 DEF Rewritten, Waiting
  <2>4. EngineInv'
    BY <1>0, <1>2, <2>1, <2>2, <2>3 DEF EngineInv, EngineOK, Rewritten, Goto, Stages, Counts
  <2>5. phases' = [phases EXCEPT ![t] = "open"]
    BY <1>0, <2>1, GotoPhase DEF PhaseOf
  <2>6. CASE stage[t] \in {"recorded", "told"}
    <3>1. t \in Voice /\ faults' = faults + 1
      BY <1>2, <2>6 DEF Waiting
    <3>2. phases[t] \in {"recorded", "told"}
      BY <2>6, PhaseIs DEF PhaseOf
    <3>3. Life!Interrupt(t)
      BY <1>0, <2>1, <2>5, <3>1, <3>2 DEF Life!Interrupt, Life!Broken, Life!Move, phases, EngineOK
    <3>. QED  BY <1>0, <1>2, <2>2, <2>4, <3>3, LifeMove DEF Blames
  <2>7. CASE stage[t] \in Waiting \cup {"unstarted"}
    <3>1. phases[t] = "open"
      BY <2>7, PhaseIs DEF PhaseOf, Waiting
    <3>2. phases' = phases
      BY <2>5, <3>1 DEF phases
    <3>3. Life!Elsewhere
      BY <2>1, <3>2 DEF Life!Elsewhere, Life!progress, phases
    <3>. QED  BY <1>0, <1>2, <2>2, <2>4, <3>3, LifeMove DEF Blames
  <2>. QED  BY <1>2, <2>6, <2>7
<1>3. ASSUME NEW b \in Branches, NEW r \in Reasons, UnstartedRaises(t, b, r), Fault,
             stage[t] \in Waiting \cup {"unstarted", "recorded", "told"}
      PROVE  EngineInv' /\ Life!LifeNext
  <2>1. faults' = faults + 1 /\ Counts
    BY <1>0, <1>3, FaultCounts
  <2>2. stage[t] \notin {"none", "over", "stray"}
    BY <1>3 DEF Waiting
  <2>3. CASE b = "first"
    <3>1. EndTurn(t, r) /\ Goto(t, "stray") /\ UNCHANGED <<branch, outcome>>
      BY <1>3, <2>3 DEF UnstartedRaises
    <3>2. reason' \in [Turns -> Reasons \cup {None}] /\ marks' \in [Turns -> SUBSET Marks] /\ Blames
      BY <1>0, <3>1, EndTurnTypes
    <3>. QED  BY <2>1, <2>2, <3>1, <3>2, Abandoned
  <2>4. CASE b # "first"
    <3>1. Forget(t)
      BY <1>3, <2>4 DEF UnstartedRaises
    <3>. QED  BY <2>1, <2>2, <3>1, Forgotten
  <2>. QED  BY <2>3, <2>4
<1>4. CASE Deny(t) \/ NotStarted(t)
  <2>1. "try" \in Branches /\ "unstarted" \in Reasons /\ stage[t] \in Waiting
    BY <1>4 DEF Branches, Reasons, Deny, NotStarted, Waiting
  <2>2. \/ Unstarted(t, "try", "unstarted") /\ UNCHANGED faults
        \/ UnstartedRaises(t, "try", "unstarted") /\ Fault
    BY <1>4 DEF Deny, NotStarted, EndsUnstarted
  <2>. QED  BY <1>2, <1>3, <2>1, <2>2 DEF Counts
<1>5. CASE TaskCancelled(t)
  <2>1. /\ t \in Voice /\ stage[t] \in Waiting \cup {"unstarted", "recorded", "told"} /\ Fault
        /\ "disconnected" \in Reasons
    BY <1>5 DEF TaskCancelled, Reasons
  <2>2. PICK b \in {"cleanup", "first"} : Unstarted(t, b, "disconnected") \/ UnstartedRaises(t, b, "disconnected")
    BY <1>5 DEF TaskCancelled
  <2>3. b \in Branches /\ b # "try" /\ Counts /\ faults' = faults + 1
    BY <1>0, <2>1, FaultCounts DEF Branches
  <2>. QED  BY <1>2, <1>3, <2>1, <2>2, <2>3
<1>6. ASSUME NEW o \in Outcomes, Recorded(t, o), Counts,
             branch' = branch \/ branch' = [branch EXCEPT ![t] = "late"],
             stage[t] \in Waiting \cup {"unstarted"}, outcome[t] # None => o = "disconnected",
             reason[t] # None => o = reason[t] \/ o \in Forced
      PROVE  EngineInv' /\ Life!LifeNext
  <2>1. Goto(t, "recorded") /\ outcome' = [outcome EXCEPT ![t] = o] /\ UNCHANGED <<marks, reason>>
    BY <1>6 DEF Recorded
  <2>2. phases' = [phases EXCEPT ![t] = "recorded"]
    BY <1>0, <2>1, GotoPhase DEF PhaseOf
  <2>3. phases[t] = "open"
    BY <1>6, PhaseIs DEF PhaseOf, Waiting
  <2>4. Life!Record(t)
    BY <1>6, <2>1, <2>2, <2>3 DEF Life!Record, Life!Move, phases
  <2>5. EngineInv'
    BY <1>0, <1>6, <2>1 DEF EngineInv, EngineOK, Rewritten, Goto, Stages, Branches, Counts
  <2>. QED  BY <1>0, <1>6, <2>1, <2>4, <2>5, LifeMove
<1>7. ASSUME stage[t] \in Waiting PROVE outcome[t] = None
  BY <1>0, <1>7 DEF Rewritten, Waiting
<1>8. /\ \A b : Outcome(t, b) \in Outcomes /\ (reason[t] # None => Outcome(t, b) = reason[t])
      /\ Forced \subseteq Outcomes
  BY <1>0 DEF Outcome, Outcomes, Reasons, Forced, EngineOK
<1>9. CASE Played(t) \/ Timeout(t) \/ RecordUnstarted(t)
  <2>1. CASE Played(t)
    <3>1. Finish(t, Outcome(t, "cancelled" \notin marks[t])) /\ stage[t] \in Waiting
      BY <2>1 DEF Played, Waiting
    <3>. QED  BY <1>6, <1>7, <1>8, <3>1 DEF Finish, Counts
  <2>2. CASE Timeout(t)
    <3>1. /\ Recorded(t, "audio_timeout") /\ stage[t] \in Waiting /\ UNCHANGED faults
          /\ branch' = [branch EXCEPT ![t] = "late"] /\ "audio_timeout" \in Forced
      BY <2>2 DEF Timeout, TimedOut, Waiting, Forced
    <3>. QED  BY <1>6, <1>7, <1>8, <3>1 DEF Counts
  <2>3. CASE RecordUnstarted(t)
    <3>1. PICK o \in {"unstarted", "disconnected"} :
             Finish(t, o) /\ (branch[t] # "try" => o = "disconnected")
      BY <2>3 DEF RecordUnstarted
    <3>2. o \in Forced /\ stage[t] = "unstarted" /\ (outcome[t] # None => o = "disconnected")
      BY <1>0, <2>3, <3>1 DEF Forced, RecordUnstarted, Rewritten
    <3>. QED  BY <1>6, <1>8, <3>1, <3>2 DEF Finish, Counts
  <2>. QED  BY <1>9, <2>1, <2>2, <2>3
<1>10. ASSUME NEW s \in Waiting, Goto(t, s), UNCHANGED <<branch, marks, reason, outcome, faults>>, stage[t] \in Waiting
      PROVE  EngineInv' /\ Life!LifeNext
  <2>1. phases' = [phases EXCEPT ![t] = "open"]
    BY <1>0, <1>10, GotoPhase DEF PhaseOf, Waiting
  <2>2. phases[t] = "open"
    BY <1>10, PhaseIs DEF PhaseOf, Waiting
  <2>3. phases' = phases
    BY <2>1, <2>2 DEF phases
  <2>4. EngineInv'
    BY <1>0, <1>7, <1>10 DEF EngineInv, EngineOK, Rewritten, Goto, Stages, Waiting
  <2>5. Life!Elsewhere
    BY <1>10, <2>3 DEF Life!Elsewhere, Life!progress, phases
  <2>. QED  BY <1>0, <1>10, <2>4, <2>5, LifeMove DEF Counts
<1>11. CASE Grant(t) \/ DeviceStarted(t) \/ SocketReady(t) \/ Endpoint(t)
  <2>1. \/ \E s \in Waiting : Goto(t, s) /\ UNCHANGED <<branch, marks, reason, outcome, faults>>
        \/ \E b : Finish(t, Outcome(t, b))
    BY <1>11 DEF Grant, DeviceStarted, SocketReady, Endpoint, Waiting, stream
  <2>2. stage[t] \in Waiting
    BY <1>11 DEF Grant, DeviceStarted, SocketReady, Endpoint, Waiting
  <2>. QED  BY <1>6, <1>7, <1>8, <1>10, <2>1, <2>2 DEF Finish, Counts
<1>12. CASE RunFails(t)
  <2>1. Fault /\ stage[t] \in Waiting
        /\ ((Recorded(t, "error") /\ UNCHANGED branch) \/ Forget(t))
    BY <1>12 DEF RunFails, Waiting
  <2>2. faults' = faults + 1 /\ Counts /\ "error" \in Forced /\ stage[t] \notin {"none", "over", "stray"}
    BY <1>0, <2>1, FaultCounts DEF Forced, Waiting
  <2>. QED  BY <1>6, <1>7, <1>8, <2>1, <2>2, Forgotten
<1>13. CASE LateCancelled(t)
  <2>1. Fault /\ Forget(t) /\ stage[t] \notin {"none", "over", "stray"}
    BY <1>13 DEF LateCancelled, TimedOut
  <2>. QED  BY <1>0, <2>1, FaultCounts, Forgotten
<1>14. CASE Terminal(t)
  <2>1. stage[t] = "recorded" /\ Goto(t, "told") /\ UNCHANGED <<branch, marks, reason, outcome, faults>>
    BY <1>14 DEF Terminal, Push
  <2>2. phases' = [phases EXCEPT ![t] = "told"] /\ phases[t] = "recorded"
    BY <1>0, <2>1, GotoPhase, PhaseIs DEF PhaseOf
  <2>3. Life!Tell(t)
    BY <2>1, <2>2 DEF Life!Tell, Life!Move, phases
  <2>4. EngineInv'
    BY <1>0, <2>1 DEF EngineInv, EngineOK, Rewritten, Goto, Stages
  <2>. QED  BY <1>0, <2>1, <2>3, <2>4, LifeMove DEF Counts
<1>15. CASE TerminalRaises(t)
  <2>1. Fault /\ stage[t] = "recorded" /\ (Astray(t) \/ Forget(t))
    BY <1>15 DEF TerminalRaises, PushRaises
  <2>2. faults' = faults + 1 /\ Counts
    BY <1>0, <2>1, FaultCounts
  <2>3. CASE Astray(t)
    <3>1. /\ Goto(t, "stray") /\ UNCHANGED <<marks, reason, outcome>> /\ branch' = [branch EXCEPT ![t] = "try"]
      BY <2>3 DEF Astray
    <3>2. reason' \in [Turns -> Reasons \cup {None}] /\ marks' \in [Turns -> SUBSET Marks] /\ Blames
      BY <1>0, <3>1 DEF EngineOK, Blames
    <3>. QED  BY <2>1, <2>2, <3>1, <3>2, Abandoned
  <2>. QED  BY <2>1, <2>2, <2>3, Forgotten
<1>16. CASE Pop(t)
  <2>1. /\ stage[t] = "told" /\ Goto(t, "over") /\ marks' = [marks EXCEPT ![t] = {}]
        /\ reason' = [reason EXCEPT ![t] = None] /\ outcome' = [outcome EXCEPT ![t] = None]
        /\ branch' = [branch EXCEPT ![t] = "try"] /\ UNCHANGED faults
    BY <1>16 DEF Pop, Forget, stream
  <2>2. phases' = [phases EXCEPT ![t] = "closed"] /\ phases[t] = "told"
    BY <1>0, <2>1, GotoPhase, PhaseIs DEF PhaseOf
  <2>3. Life!Close(t)
    BY <2>1, <2>2 DEF Life!Close, Life!Move, Life!Ends, phases
  <2>4. EngineInv'
    BY <1>0, <2>1 DEF EngineInv, EngineOK, Rewritten, Goto, Stages, Branches
  <2>5. \A u \in Turns : reason'[u] = reason[u] \/ phases'[u] = "closed"
    BY <1>0, <2>1, <2>2 DEF EngineOK, phases
  <2>. QED  BY <1>0, <2>1, <2>3, <2>4, <2>5, LifeMove DEF Counts
<1>. QED
  BY <1>1, <1>4, <1>5, <1>9, <1>11, <1>12, <1>13, <1>14, <1>15, <1>16 DEF Moves, ControllerStep

LEMMA EngineStep ==
    ASSUME EngineInv, [Next]_vars
    PROVE  EngineInv' /\ [Life!LifeNext]_(Life!lifeVars) /\ [Life!LifeNext]_vars
<1>1. CASE Next
  <2>1. CASE Stays
    <3>1. EngineInv' /\ UNCHANGED <<stage, outcome>> /\ Blames /\ Counts
      BY <2>1, StaysStep
    <3>2. phases' = phases
      BY <3>1, PhaseIs DEF phases
    <3>3. Life!Elsewhere
      BY <3>1, <3>2 DEF Life!Elsewhere, Life!progress, phases
    <3>4. CASE Turns # {}
      BY <3>1, <3>3, <3>4, LifeMove DEF EngineInv, Blames
    <3>5. CASE Turns = {}
      <4>1. Life!Blamed /\ (faults' = faults \/ faults' > faults)
        BY <3>1, <3>5 DEF Life!Blamed, Counts, EngineInv, EngineOK
      <4>. QED  BY <3>1, <3>3, <4>1 DEF Life!LifeNext, Life!Broken
    <3>. QED  BY <3>4, <3>5
  <2>. QED  BY <1>1, <2>1, MovesStep, NextSplit
<1>2. CASE UNCHANGED vars
  <2>1. UNCHANGED <<stage, branch, marks, reason, outcome, faults>>
    BY <1>2 DEF vars, engine, stream
  <2>2. phases' = phases
    BY <2>1, PhaseIs DEF phases
  <2>. QED  BY <1>2, <2>1, <2>2 DEF EngineInv, EngineOK, Rewritten, Life!lifeVars, Life!progress, phases
<1>. QED  BY <1>1, <1>2

LEMMA EngineInit == Init => EngineInv /\ Life!LifeInit
<1>. SUFFICES ASSUME Init PROVE EngineInv /\ Life!LifeInit
  OBVIOUS
<1>1. EngineInv
  BY HaTurnsAssumption DEF Init, EngineInv, EngineOK, Rewritten, Stages, Branches, Waiting
<1>2. Life!LifeInit
  BY DEF Init, Life!LifeInit, Phase
<1>. QED  BY <1>1, <1>2

\* Whatever the satellite, the device, the stream and the pushes do, every step
\* of the turns is one of the life of turns, announcements among them: voice turns
\* one at a time, an outcome before the owner is told, what ended the turn first
\* as its cause, and an outcome written anew, a turn closed untold or left open for
\* ever only in a step that breaks something (trigger_voice_turn and _run_turn,
\* em_turn_engine.py).
THEOREM LifeIsKept == Spec => LifeKept
<1>1. EngineInv /\ [Next]_vars => EngineInv'
  BY EngineStep
<1>2. EngineInv /\ [Next]_vars => [Life!LifeNext]_vars
  BY EngineStep
<1>. QED  BY <1>1, <1>2, EngineInit, PTL DEF Spec, LifeKept

\* So the turn engine implements the safety part of TurnLife.
THEOREM ImplementsLife == Spec => Life!LifeInit /\ [][Life!LifeNext]_(Life!lifeVars)
<1>1. EngineInv /\ [Next]_vars => EngineInv'
  BY EngineStep
<1>2. EngineInv /\ [Next]_vars => [Life!LifeNext]_(Life!lifeVars)
  BY EngineStep
<1>. QED  BY <1>1, <1>2, EngineInit, PTL DEF Spec

-----------------------------------------------------------------------------
(* The satellite.  An offer is in one place: pushed and not read, waiting   *)
(* for the lock, with the handler, or handled; its turn exists and no       *)
(* pipeline of it has run before.                                           *)

Event == [type : {"offer", "cancel", "terminal"}, turn : Turns]

SatOK ==
    /\ connected \in BOOLEAN /\ faults \in 0..MaxFaults /\ missed \subseteq Turns
    /\ events \in Seq(Event) /\ offers \in Seq(Turns)
    /\ active \in Turns \cup {None} /\ endpointSent \in BOOLEAN
    /\ handler \in [turn : Turns \cup {None}, at : {"idle", "attach", "own", "accept"}, ok : BOOLEAN]
    /\ announce \in [turn : Turns \cup {None}, at : {"idle", "attach", "own"}, ok : BOOLEAN]
    /\ pipe \in [Turns -> {"none", "run", "drain", "ended"}] /\ tts \in [Turns -> {"none", "run", "ended"}]
    /\ endpointTask \in [Turns -> {"none", "sent", "ended"}]
    /\ handler.at = "idle" <=> handler.turn = None
    /\ announce.at = "idle" <=> announce.turn = None

\* The turns that have begun and that no pipeline has taken up.
Untouched == {t \in Turns : stage[t] # "none" /\ pipe[t] = "none"}

OfferInv ==
    /\ \A i, j \in 1..Len(events) : events[i].type = "offer" /\ events[j] = events[i] => i = j
    /\ \A i \in 1..Len(events) : events[i].type = "offer" =>
          /\ events[i].turn \in Untouched /\ handler.turn # events[i].turn
          /\ \A j \in 1..Len(offers) : offers[j] # events[i].turn
    /\ \A i, j \in 1..Len(offers) : offers[i] = offers[j] => i = j
    /\ \A i \in 1..Len(offers) : offers[i] \in Untouched /\ offers[i] # handler.turn
    /\ handler.turn # None => handler.turn \in Untouched
    /\ \A t \in Turns : pipe[t] # "none" => stage[t] # "none"

TurnsInv == EngineInv /\ SatOK /\ OfferInv

\* What is pushed is no offer: the stream keeps its types and the offers on it.
Quietly ==
    /\ connected' \in BOOLEAN /\ missed' \subseteq Turns /\ faults' \in 0..MaxFaults
    /\ \/ events' = events
       \/ \E t \in Turns, type \in {"cancel", "terminal"} : events' = Append(events, [type |-> type, turn |-> t])

LEMMA PushesQuietly ==
    ASSUME SatOK, NEW t \in Turns, NEW type \in {"cancel", "terminal"}, faults' \in 0..MaxFaults,
           Pushed(type, t) \/ Lost(type, t)
    PROVE  Quietly
BY DEF SatOK, Quietly, Pushed, Lost

\* No step but the offer's and the announcement's begins a turn; those of the
\* controller leave the satellite alone and push only what is no offer.
LEMMA MovesQuietly ==
    ASSUME EngineInv, SatOK, NEW t \in Turns, Moves(t), ~Offer(t), ~CreateAnnounce(t)
    PROVE  /\ UNCHANGED satellite /\ \A u \in Turns : stage[u] # "none" => stage'[u] # "none"
           /\ Quietly
<1>0. EngineOK
  BY DEF EngineInv
<1>1. ASSUME NEW s, Goto(t, s), s # "none"
      PROVE  \A u \in Turns : stage[u] # "none" => stage'[u] # "none"
  BY <1>0, <1>1 DEF Goto, EngineOK
<1>2. faults \in 0..MaxFaults /\ (Fault => faults' \in 0..MaxFaults)
  BY <1>0, FaultCounts DEF EngineOK, Counts
<1>3. ASSUME NEW b, NEW r, Unstarted(t, b, r), faults' \in 0..MaxFaults
      PROVE  UNCHANGED satellite /\ Goto(t, "unstarted") /\ Quietly
  BY <1>3, PushesQuietly DEF Unstarted
<1>4. ASSUME NEW b, NEW r, UnstartedRaises(t, b, r), faults' \in 0..MaxFaults
      PROVE  UNCHANGED satellite /\ (Goto(t, "stray") \/ Goto(t, "over")) /\ Quietly
  BY <1>4 DEF UnstartedRaises, Forget, Quietly, SatOK
<1>5. CASE Deny(t) \/ NotStarted(t) \/ TaskCancelled(t)
  <2>1. /\ faults' \in 0..MaxFaults
        /\ \E b, r : Unstarted(t, b, r) \/ UnstartedRaises(t, b, r)
    BY <1>2, <1>5 DEF Deny, NotStarted, TaskCancelled, EndsUnstarted
  <2>. QED  BY <1>1, <1>3, <1>4, <2>1
<1>6. CASE Terminal(t) \/ TerminalRaises(t)
  <2>1. /\ UNCHANGED satellite /\ faults' \in 0..MaxFaults
        /\ \E s \in {"told", "stray", "over"} : Goto(t, s)
        /\ Pushed("terminal", t) \/ Lost("terminal", t)
    BY <1>2, <1>6 DEF Terminal, TerminalRaises, Push, PushRaises, Astray, Forget
  <2>. QED  BY <1>1, <2>1, PushesQuietly
<1>7. CASE RunFails(t) \/ LateCancelled(t)
  <2>1. /\ UNCHANGED satellite /\ faults' \in 0..MaxFaults
        /\ \E s \in {"recorded", "over"} : Goto(t, s)
        /\ UNCHANGED <<connected, events, missed>> \/ Lost("terminal", t)
    BY <1>2, <1>7 DEF RunFails, LateCancelled, Recorded, Forget
  <2>2. UNCHANGED <<connected, events, missed>> => Quietly
    BY <2>1 DEF Quietly, SatOK
  <2>. QED  BY <1>1, <2>1, <2>2, PushesQuietly
<1>8. CASE Grant(t) \/ DeviceStarted(t) \/ SocketReady(t) \/ Endpoint(t) \/ Played(t) \/ Timeout(t)
           \/ RecordUnstarted(t) \/ Pop(t)
  <2>1. UNCHANGED <<satellite, stream>>
        /\ \E s \in {"start", "socket", "listen", "play", "recorded", "over"} : Goto(t, s)
    BY <1>8 DEF Grant, DeviceStarted, SocketReady, Endpoint, Played, Timeout, RecordUnstarted, Pop, Finish,
       Recorded, Forget, stream
  <2>2. Quietly
    BY <1>2, <2>1 DEF Quietly, SatOK, stream
  <2>. QED  BY <1>1, <2>1, <2>2
<1>. QED  BY <1>5, <1>6, <1>7, <1>8 DEF Moves, ControllerStep

\* The offers stay where they are when a step takes at most the first event
\* from the stream, adds no offer and touches at most the handler's turn.
LEMMA OffersKept ==
    ASSUME OfferInv, UNCHANGED offers, NEW k \in {0, 1},
           \A i \in 1..Len(events') : events'[i].type = "offer" =>
              i + k \in 1..Len(events) /\ events'[i] = events[i + k],
           Untouched \ {handler.turn} \subseteq Untouched',
           \/ handler'.turn = None
           \/ handler'.turn = handler.turn /\ Untouched \subseteq Untouched',
           \A u \in Turns : pipe'[u] # "none" => stage'[u] # "none",
           Len(events) \in Nat, Len(events') \in Nat, None \notin Turns
    PROVE  OfferInv'
<1>1. ASSUME NEW i \in 1..Len(events'), NEW j \in 1..Len(events'), events'[i].type = "offer", events'[j] = events'[i]
      PROVE  i = j
  <2>1. i + k = j + k
    BY <1>1 DEF OfferInv
  <2>. QED  BY <2>1
<1>2. None \notin Untouched'
  BY DEF Untouched
<1>3. ASSUME NEW i \in 1..Len(events'), events'[i].type = "offer"
      PROVE  /\ events'[i].turn \in Untouched' /\ handler'.turn # events'[i].turn
             /\ \A j \in 1..Len(offers') : offers'[j] # events'[i].turn
  <2>1. i + k \in 1..Len(events) /\ events'[i] = events[i + k]
    BY <1>3
  <2>2. /\ events'[i].turn \in Untouched /\ handler.turn # events'[i].turn
        /\ \A j \in 1..Len(offers) : offers[j] # events'[i].turn
    BY <1>3, <2>1 DEF OfferInv
  <2>. QED  BY <1>2, <2>2
<1>4. ASSUME NEW i \in 1..Len(offers')
      PROVE  offers'[i] \in Untouched' /\ offers'[i] # handler'.turn
  BY <1>2, <1>4 DEF OfferInv
<1>5. /\ \A i, j \in 1..Len(offers') : offers'[i] = offers'[j] => i = j
      /\ handler'.turn # None => handler'.turn \in Untouched'
  BY DEF OfferInv
<1>. QED  BY <1>1, <1>3, <1>4, <1>5 DEF OfferInv

LEMMA QuietInv ==
    ASSUME SatOK, OfferInv, UNCHANGED satellite, Quietly,
           \A u \in Turns : stage[u] # "none" => stage'[u] # "none"
    PROVE  SatOK' /\ OfferInv'
<1>1. UNCHANGED <<active, offers, handler, pipe, tts, endpointTask, endpointSent, announce>>
  BY DEF satellite
<1>2. /\ connected' \in BOOLEAN /\ missed' \subseteq Turns /\ faults' \in 0..MaxFaults /\ events' \in Seq(Event)
      /\ \A i \in 1..Len(events') : events'[i].type = "offer" => i \in 1..Len(events) /\ events'[i] = events[i]
  <2>0. connected' \in BOOLEAN /\ missed' \subseteq Turns /\ faults' \in 0..MaxFaults /\ events \in Seq(Event)
    BY DEF SatOK, Quietly
  <2>1. CASE events' = events
    BY <2>0, <2>1
  <2>2. CASE events' # events
    <3>1. PICK t \in Turns, type \in {"cancel", "terminal"} : events' = Append(events, [type |-> type, turn |-> t])
      BY <2>2 DEF Quietly
    <3>2. [type |-> type, turn |-> t] \in Event
      BY DEF Event
    <3>3. ASSUME NEW i \in 1..Len(events'), events'[i].type = "offer"
          PROVE  i \in 1..Len(events) /\ events'[i] = events[i]
      <4>1. i # Len(events) + 1
        BY <2>0, <3>1, <3>3
      <4>. QED  BY <2>0, <3>1, <3>3, <4>1
    <3>. QED  BY <2>0, <3>1, <3>2, <3>3
  <2>. QED  BY <2>1, <2>2
<1>3. SatOK'
  BY <1>1, <1>2 DEF SatOK
<1>4. Untouched \subseteq Untouched'
  BY <1>1 DEF Untouched
<1>5. \A u \in Turns : pipe'[u] # "none" => stage'[u] # "none"
  BY <1>1 DEF OfferInv
<1>6. OfferInv'
  <2>1. \A i \in 1..Len(events') : events'[i].type = "offer" => i + 0 \in 1..Len(events) /\ events'[i] = events[i + 0]
    BY <1>2
  <2>. QED  BY <1>1, <1>2, <1>4, <1>5, <2>1, OffersKept DEF SatOK
<1>. QED  BY <1>3, <1>6

\* A new turn is in no queue.
LEMMA OfferStep ==
    ASSUME EngineInv, SatOK, OfferInv, NEW t \in Turns, Offer(t)
    PROVE  SatOK' /\ OfferInv'
<1>0. EngineOK
  BY DEF EngineInv
<1>1. /\ UNCHANGED <<active, offers, handler, pipe, tts, endpointTask, endpointSent, announce>>
      /\ faults' \in 0..MaxFaults /\ (Pushed("offer", t) \/ Lost("offer", t))
      /\ stage[t] = "none" /\ \E s \in {"offer", "socket", "stray"} : Goto(t, s)
  BY <1>0, FaultCounts DEF Offer, satellite, Push, PushRaises, EngineOK, Counts
<1>2. /\ connected' \in BOOLEAN /\ missed' \subseteq Turns /\ events' \in Seq(Event)
      /\ events' = events \/ events' = Append(events, [type |-> "offer", turn |-> t])
  <2>1. [type |-> "offer", turn |-> t] \in Event
    BY DEF Event
  <2>2. events' = events \/ events' = Append(events, [type |-> "offer", turn |-> t])
    BY <1>1 DEF Pushed, Lost
  <2>3. events' \in Seq(Event)
    <3>1. events \in Seq(Event)
      BY DEF SatOK
    <3>2. Append(events, [type |-> "offer", turn |-> t]) \in Seq(Event)
      BY <2>1, <3>1
    <3>. QED  BY <2>2, <3>1, <3>2
  <2>4. connected' = connected /\ (missed' = missed \/ missed' = missed \cup {t})
    BY <1>1 DEF Pushed, Lost
  <2>. QED  BY <2>2, <2>3, <2>4 DEF SatOK
<1>3. SatOK'
  BY <1>1, <1>2 DEF SatOK
<1>4. t \notin Untouched /\ Untouched \cup {t} \subseteq Untouched'
  BY <1>0, <1>1 DEF Untouched, Goto, EngineOK, OfferInv
<1>5. \A u \in Turns : pipe'[u] # "none" => stage'[u] # "none"
  BY <1>0, <1>1 DEF OfferInv, Goto, EngineOK
<1>6. CASE events' = events
  <2>1. Len(events) \in Nat
    BY DEF SatOK
  <2>2. \A i \in 1..Len(events') : events'[i].type = "offer" => i + 0 \in 1..Len(events) /\ events'[i] = events[i + 0]
    BY <1>6, <2>1
  <2>. QED  BY <1>1, <1>3, <1>4, <1>5, <1>6, <2>1, <2>2, OffersKept, HaTurnsAssumption
<1>7. CASE events' = Append(events, [type |-> "offer", turn |-> t])
  <2>1. /\ Len(events') = Len(events) + 1 /\ events'[Len(events) + 1] = [type |-> "offer", turn |-> t]
        /\ \A i \in 1..Len(events) : events'[i] = events[i]
    BY <1>7 DEF SatOK
  <2>2. Len(events) \in Nat
    BY DEF SatOK
  <2>3. /\ handler.turn # t
        /\ \A i \in 1..Len(offers) : offers[i] # t
        /\ \A i \in 1..Len(events) : events[i].type = "offer" => events[i].turn # t
    BY <1>4, HaTurnsAssumption DEF OfferInv
  <2>4. ASSUME NEW i \in 1..Len(events'), events'[i].type = "offer"
        PROVE  /\ events'[i].turn \in Untouched' /\ handler'.turn # events'[i].turn
               /\ \A j \in 1..Len(offers') : offers'[j] # events'[i].turn
    <3>1. CASE i = Len(events) + 1
      BY <1>1, <1>4, <2>1, <2>3, <3>1
    <3>2. CASE i \in 1..Len(events)
      BY <1>1, <1>4, <2>1, <2>4, <3>2 DEF OfferInv
    <3>. QED  BY <2>1, <2>2, <3>1, <3>2
  <2>5. ASSUME NEW i \in 1..Len(events'), NEW j \in 1..Len(events'), events'[i].type = "offer",
               events'[j] = events'[i]
        PROVE  i = j
    <3>1. CASE i \in 1..Len(events) /\ j \in 1..Len(events)
      BY <2>1, <2>5, <3>1 DEF OfferInv
    <3>2. CASE i = Len(events) + 1 /\ j \in 1..Len(events)
      BY <2>1, <2>3, <2>5, <3>2
    <3>3. CASE i \in 1..Len(events) /\ j = Len(events) + 1
      BY <2>1, <2>3, <2>5, <3>3
    <3>. QED  BY <2>1, <2>2, <3>1, <3>2, <3>3
  <2>6. /\ \A i \in 1..Len(offers') : offers'[i] \in Untouched' /\ offers'[i] # handler'.turn
        /\ \A i, j \in 1..Len(offers') : offers'[i] = offers'[j] => i = j
        /\ handler'.turn # None => handler'.turn \in Untouched'
    BY <1>1, <1>4 DEF OfferInv
  <2>. QED  BY <1>3, <1>5, <2>4, <2>5, <2>6 DEF OfferInv
<1>. QED  BY <1>2, <1>3, <1>6, <1>7

\* The satellite's tasks begin no pipeline and take no offer.
LEMMA PipelineInv ==
    ASSUME SatOK, OfferInv, NEW t \in Turns, PipelineStep(t), UNCHANGED stage
    PROVE  SatOK' /\ OfferInv'
<1>1. UNCHANGED <<stream, active, offers, handler, announce>>
  BY DEF PipelineStep, SpeechStart, SttEnd, EndpointAnswered, TtsEnd, TtsStreamed, PipelineReturns,
     PipelineDrains, satellite
<1>2. /\ endpointTask' \in [Turns -> {"none", "sent", "ended"}] /\ endpointSent' \in BOOLEAN
      /\ tts' \in [Turns -> {"none", "run", "ended"}]
  <2>1. /\ \/ endpointTask' = endpointTask \/ NoEndpoint(t)
           \/ \E e \in {"sent", "ended"} : endpointTask' = [endpointTask EXCEPT ![t] = e]
        /\ tts' = tts \/ \E s \in {"run", "ended"} : tts' = [tts EXCEPT ![t] = s]
    BY DEF PipelineStep, SpeechStart, SttEnd, EndpointAnswered, TtsEnd, TtsStreamed, PipelineReturns,
       PipelineDrains, NoTts, satellite
  <2>2. endpointSent' \in BOOLEAN
    <3>1. endpointSent' = endpointSent \/ endpointSent' = TRUE \/ endpointSent' = (endpointSent \/ Live(t))
      BY DEF PipelineStep, SpeechStart, SttEnd, EndpointAnswered, TtsEnd, TtsStreamed, PipelineReturns,
         PipelineDrains, satellite
    <3>2. endpointSent \in BOOLEAN /\ (endpointSent \/ Live(t)) \in BOOLEAN
      BY DEF SatOK, Live
    <3>. QED  BY <3>1, <3>2
  <2>3. endpointTask \in [Turns -> {"none", "sent", "ended"}] /\ tts \in [Turns -> {"none", "run", "ended"}]
    BY DEF SatOK
  <2>. QED  BY <2>1, <2>2, <2>3 DEF NoEndpoint
<1>3. \/ pipe' = pipe
      \/ pipe[t] # "none" /\ \E p \in {"drain", "ended"} : pipe' = [pipe EXCEPT ![t] = p]
  BY DEF PipelineStep, SpeechStart, SttEnd, EndpointAnswered, TtsEnd, TtsStreamed, PipelineReturns,
     PipelineDrains, satellite
<1>4. /\ pipe' \in [Turns -> {"none", "run", "drain", "ended"}]
      /\ \A u \in Turns : pipe'[u] = "none" <=> pipe[u] = "none"
  BY <1>3 DEF SatOK
<1>5. Untouched' = Untouched
  BY <1>4 DEF Untouched
<1>6. SatOK'
  BY <1>1, <1>2, <1>4 DEF SatOK, stream
<1>7. OfferInv'
  BY <1>1, <1>4, <1>5 DEF OfferInv, stream
<1>. QED  BY <1>6, <1>7

\* The handler takes the first offer, and touches only its turn.
LEMMA HandlerInv ==
    ASSUME SatOK, OfferInv, HandlerStep, UNCHANGED stage
    PROVE  SatOK' /\ OfferInv'
<1>1. UNCHANGED <<connected, events, missed, faults>>
  BY DEF HandlerStep, TakeOffer, Attach, Accept, Accepted, AttachAnnounce, OwnAnnounce, stream
<1>2. /\ Free \in [turn : Turns \cup {None}, at : {"idle", "attach", "own", "accept"}, ok : BOOLEAN]
      /\ Free \in [turn : Turns \cup {None}, at : {"idle", "attach", "own"}, ok : BOOLEAN]
      /\ Free.at = "idle" /\ Free.turn = None
  BY DEF Free
<1>3. None \notin Turns
  BY HaTurnsAssumption
<1>4. Len(events) \in Nat /\ Len(events') \in Nat
      /\ \A i \in 1..Len(events') : events'[i].type = "offer" => i + 0 \in 1..Len(events) /\ events'[i] = events[i + 0]
  BY <1>1 DEF SatOK
<1>5. CASE TakeOffer
  <2>1. /\ offers \in Seq(Turns) /\ offers # <<>> /\ handler.at = "idle" /\ handler.turn = None
        /\ offers' = Tail(offers)
        /\ UNCHANGED <<active, pipe, tts, endpointTask, endpointSent, announce>>
    BY <1>5 DEF TakeOffer, Rest, SatOK
  <2>2. /\ Head(offers) \in Turns /\ Head(offers) = offers[1] /\ Tail(offers) \in Seq(Turns)
        /\ Len(Tail(offers)) = Len(offers) - 1 /\ 1 \in 1..Len(offers) /\ Len(offers) \in Nat
        /\ \A i \in 1..Len(Tail(offers)) : i + 1 \in 1..Len(offers) /\ Tail(offers)[i] = offers[i + 1]
    BY <2>1
  <2>3. \/ handler' = handler
        \/ handler' = [Free EXCEPT !.turn = Head(offers), !.at = "attach"]
    BY <1>5 DEF TakeOffer
  <2>4. \/ handler'.turn = None /\ handler'.at = "idle"
        \/ handler'.turn = Head(offers) /\ handler'.at = "attach"
    BY <2>1, <2>3 DEF Free
  <2>5. handler' \in [turn : Turns \cup {None}, at : {"idle", "attach", "own", "accept"}, ok : BOOLEAN]
    BY <1>2, <2>2, <2>3 DEF SatOK, Free
  <2>6. SatOK'
    BY <1>1, <1>3, <2>1, <2>2, <2>4, <2>5 DEF SatOK
  <2>7. Untouched' = Untouched
    BY <2>1 DEF Untouched
  <2>8. ASSUME NEW i \in 1..Len(offers') PROVE offers'[i] \in Untouched' /\ offers'[i] # handler'.turn
    <3>1. i + 1 \in 1..Len(offers) /\ offers'[i] = offers[i + 1] /\ i + 1 # 1
      BY <2>1, <2>2
    <3>2. offers[i + 1] # offers[1]
      BY <2>2, <3>1 DEF OfferInv
    <3>3. offers[i + 1] \in Turns
      BY <2>1, <3>1
    <3>. QED  BY <1>3, <2>2, <2>4, <2>7, <3>1, <3>2, <3>3 DEF OfferInv
  <2>9. ASSUME NEW i \in 1..Len(offers'), NEW j \in 1..Len(offers'), offers'[i] = offers'[j] PROVE i = j
    <3>1. /\ i + 1 \in 1..Len(offers) /\ j + 1 \in 1..Len(offers)
          /\ offers[i + 1] = offers[j + 1]
      BY <2>1, <2>2, <2>9
    <3>2. i + 1 = j + 1
      BY <3>1 DEF OfferInv
    <3>. QED  BY <3>2
  <2>10. handler'.turn # None => handler'.turn \in Untouched'
    BY <2>2, <2>4, <2>7 DEF OfferInv
  <2>11. ASSUME NEW i \in 1..Len(events'), events'[i].type = "offer"
         PROVE  /\ events'[i].turn \in Untouched' /\ handler'.turn # events'[i].turn
                /\ \A j \in 1..Len(offers') : offers'[j] # events'[i].turn
    <3>1. /\ events[i].turn \in Untouched /\ handler.turn # events[i].turn
          /\ \A j \in 1..Len(offers) : offers[j] # events[i].turn
      BY <1>1, <2>11 DEF OfferInv
    <3>. QED  BY <1>1, <2>1, <2>2, <2>4, <2>7, <3>1
  <2>12. /\ \A i, j \in 1..Len(events') : events'[i].type = "offer" /\ events'[j] = events'[i] => i = j
         /\ \A u \in Turns : pipe'[u] # "none" => stage'[u] # "none"
    BY <1>1, <2>1 DEF OfferInv
  <2>. QED  BY <2>6, <2>8, <2>9, <2>10, <2>11, <2>12 DEF OfferInv
<1>6. CASE Attach \/ Accept
  <2>1. /\ UNCHANGED <<offers, pipe, tts, endpointTask, announce>>
        /\ active' \in Turns \cup {None} /\ endpointSent' \in BOOLEAN
    BY <1>6 DEF Attach, Accept, SatOK
  <2>2. /\ handler.at \in {"attach", "own"} /\ handler.turn # None
        /\ \/ handler' = Free
           \/ \E a \in {"own", "accept"} : \E b \in BOOLEAN : handler' = [handler EXCEPT !.at = a, !.ok = b]
    <3>1. Accept => \E b \in BOOLEAN : handler' = [handler EXCEPT !.at = "accept", !.ok = b]
      BY DEF Accept, Live
    <3>2. Attach => handler' = Free \/ handler' = [handler EXCEPT !.at = "own", !.ok = handler.ok]
      BY DEF Attach, SatOK
    <3>3. handler.ok \in BOOLEAN
      BY DEF SatOK
    <3>. QED  BY <1>6, <3>1, <3>2, <3>3 DEF Attach, Accept, SatOK
  <2>3. /\ handler' \in [turn : Turns \cup {None}, at : {"idle", "attach", "own", "accept"}, ok : BOOLEAN]
        /\ handler'.at = "idle" <=> handler'.turn = None
        /\ handler'.turn = None \/ handler'.turn = handler.turn
    BY <1>2, <2>2 DEF SatOK
  <2>4. SatOK'
    BY <1>1, <2>1, <2>3 DEF SatOK
  <2>5. Untouched' = Untouched /\ \A u \in Turns : pipe'[u] # "none" => stage'[u] # "none"
    BY <2>1 DEF Untouched, OfferInv
  <2>. QED  BY <1>3, <1>4, <2>1, <2>3, <2>4, <2>5, OffersKept
<1>7. CASE Accepted
  <2>1. /\ UNCHANGED <<offers, endpointSent, announce>>
        /\ handler' = Free /\ handler.at = "accept" /\ active' \in Turns \cup {None}
        /\ \/ pipe' = pipe
           \/ \E p \in {"run", "ended"} : pipe' = [pipe EXCEPT ![handler.turn] = p]
    BY <1>7 DEF Accepted, SatOK
  <2>2. handler.turn \in Turns /\ handler.turn \in Untouched
    BY <2>1 DEF SatOK, OfferInv
  <2>3. /\ pipe' \in [Turns -> {"none", "run", "drain", "ended"}]
        /\ tts' \in [Turns -> {"none", "run", "ended"}] /\ endpointTask' \in [Turns -> {"none", "sent", "ended"}]
    <3>1. /\ tts' = tts \/ NoTts(handler.turn)
          /\ endpointTask' = endpointTask \/ NoEndpoint(handler.turn)
      BY <1>7 DEF Accepted
    <3>. QED  BY <2>1, <3>1 DEF SatOK, NoTts, NoEndpoint
  <2>4. SatOK'
    BY <1>1, <1>2, <2>1, <2>3 DEF SatOK
  <2>5. /\ Untouched \ {handler.turn} \subseteq Untouched'
        /\ \A u \in Turns : pipe'[u] # "none" => stage'[u] # "none"
    BY <2>1, <2>2 DEF Untouched, OfferInv, SatOK
  <2>. QED  BY <1>2, <1>3, <1>4, <2>1, <2>4, <2>5, OffersKept
<1>8. CASE AttachAnnounce \/ OwnAnnounce
  <2>1. /\ UNCHANGED <<offers, handler, pipe, endpointTask, endpointSent>>
        /\ announce.at # "idle" /\ active' \in Turns \cup {None}
        /\ announce' = Free \/ announce' = [announce EXCEPT !.at = "own"]
        /\ tts' = tts \/ tts' = [tts EXCEPT ![announce.turn] = "run"]
    BY <1>8 DEF AttachAnnounce, OwnAnnounce, SatOK
  <2>2. /\ announce' \in [turn : Turns \cup {None}, at : {"idle", "attach", "own"}, ok : BOOLEAN]
        /\ announce'.at = "idle" <=> announce'.turn = None
        /\ tts' \in [Turns -> {"none", "run", "ended"}]
    BY <1>2, <2>1 DEF SatOK
  <2>3. SatOK'
    BY <1>1, <2>1, <2>2 DEF SatOK
  <2>4. Untouched' = Untouched /\ \A u \in Turns : pipe'[u] # "none" => stage'[u] # "none"
    BY <2>1 DEF Untouched, OfferInv
  <2>. QED  BY <1>3, <1>4, <2>1, <2>3, <2>4, OffersKept
<1>. QED  BY <1>5, <1>6, <1>7, <1>8 DEF HandlerStep

\* The reader takes the first event.
LEMMA GatewayInv ==
    ASSUME SatOK, OfferInv, GatewayEvent, UNCHANGED stage
    PROVE  SatOK' /\ OfferInv'
<1>. DEFINE e == Head(events)
<1>1. /\ e \in Event /\ e = events[1] /\ events' = Tail(events) /\ events' \in Seq(Event)
      /\ Len(events') = Len(events) - 1 /\ 1 \in 1..Len(events) /\ Len(events) \in Nat
      /\ \A i \in 1..Len(events') : i + 1 \in 1..Len(events) /\ events'[i] = events[i + 1]
      /\ UNCHANGED <<connected, faults>>
  BY DEF GatewayEvent, SatOK
<1>2. missed' \subseteq Turns
  BY <1>1 DEF GatewayEvent, SatOK, Event
<1>3. None \notin Turns
  BY HaTurnsAssumption
<1>4. CASE e.type = "offer"
  <2>1. /\ offers' = Append(offers, e.turn)
        /\ UNCHANGED <<active, handler, pipe, tts, endpointTask, endpointSent, announce>>
    BY <1>4 DEF GatewayEvent
  <2>2. /\ e.turn \in Turns /\ e.turn \in Untouched /\ handler.turn # e.turn
        /\ \A j \in 1..Len(offers) : offers[j] # e.turn
    BY <1>1, <1>4 DEF OfferInv, Untouched
  <2>3. /\ offers \in Seq(Turns) /\ Len(offers) \in Nat /\ offers' \in Seq(Turns)
        /\ Len(offers') = Len(offers) + 1 /\ offers'[Len(offers) + 1] = e.turn
        /\ \A i \in 1..Len(offers) : offers'[i] = offers[i]
    BY <2>1, <2>2 DEF SatOK
  <2>4. SatOK'
    BY <1>1, <1>2, <2>1, <2>3 DEF SatOK
  <2>5. Untouched' = Untouched
    BY <2>1 DEF Untouched
  <2>6. ASSUME NEW i \in 1..Len(events'), events'[i].type = "offer"
        PROVE  events'[i].turn # e.turn
    <3>1. i + 1 \in 1..Len(events) /\ i + 1 # 1 /\ events'[i] = events[i + 1]
      BY <1>1
    <3>2. events[i + 1] # events[1]
      BY <1>1, <1>4, <3>1 DEF OfferInv
    <3>3. events[i + 1] \in Event /\ events[1] \in Event
      BY <1>1, <3>1 DEF SatOK
    <3>. QED  BY <1>1, <1>4, <2>6, <3>1, <3>2, <3>3 DEF Event
  <2>7. ASSUME NEW i \in 1..Len(events'), events'[i].type = "offer"
        PROVE  /\ events'[i].turn \in Untouched' /\ handler'.turn # events'[i].turn
               /\ \A j \in 1..Len(offers') : offers'[j] # events'[i].turn
    <3>1. /\ events'[i].turn \in Untouched /\ handler.turn # events'[i].turn
          /\ \A j \in 1..Len(offers) : offers[j] # events'[i].turn
      BY <1>1, <2>7 DEF OfferInv
    <3>. QED  BY <2>1, <2>3, <2>5, <2>6, <2>7, <3>1
  <2>8. ASSUME NEW i \in 1..Len(events'), NEW j \in 1..Len(events'), events'[i].type = "offer",
               events'[j] = events'[i]
        PROVE  i = j
    <3>1. i + 1 = j + 1
      BY <1>1, <2>8 DEF OfferInv
    <3>. QED  BY <3>1
  <2>9. ASSUME NEW i \in 1..Len(offers') PROVE offers'[i] \in Untouched' /\ offers'[i] # handler'.turn
    <3>1. CASE i = Len(offers) + 1
      BY <2>1, <2>2, <2>3, <2>5, <3>1
    <3>2. CASE i \in 1..Len(offers)
      BY <2>1, <2>3, <2>5, <3>2 DEF OfferInv
    <3>. QED  BY <2>3, <3>1, <3>2
  <2>10. ASSUME NEW i \in 1..Len(offers'), NEW j \in 1..Len(offers'), offers'[i] = offers'[j] PROVE i = j
    <3>1. CASE i \in 1..Len(offers) /\ j \in 1..Len(offers)
      BY <2>3, <2>10, <3>1 DEF OfferInv
    <3>2. CASE i = Len(offers) + 1 /\ j \in 1..Len(offers)
      BY <2>2, <2>3, <2>10, <3>2
    <3>3. CASE i \in 1..Len(offers) /\ j = Len(offers) + 1
      BY <2>2, <2>3, <2>10, <3>3
    <3>. QED  BY <2>3, <3>1, <3>2, <3>3
  <2>11. /\ handler'.turn # None => handler'.turn \in Untouched'
         /\ \A u \in Turns : pipe'[u] # "none" => stage'[u] # "none"
    BY <2>1, <2>5 DEF OfferInv
  <2>. QED  BY <2>4, <2>7, <2>8, <2>9, <2>10, <2>11 DEF OfferInv
<1>5. CASE e.type # "offer"
  <2>1. /\ UNCHANGED <<offers, handler, endpointSent, announce>>
        /\ active' \in Turns \cup {None}
        /\ \/ UNCHANGED <<pipe, tts, endpointTask>>
           \/ /\ pipe' = [pipe EXCEPT ![active] = IF @ \in {"run", "drain"} THEN "ended" ELSE @]
              /\ NoTts(active) /\ NoEndpoint(active)
    <3>1. EndOwned(active, e.type) \/ UNCHANGED satellite
      BY <1>5 DEF GatewayEvent
    <3>. QED  BY <3>1 DEF EndOwned, satellite, SatOK
  <2>2. /\ pipe' \in [Turns -> {"none", "run", "drain", "ended"}] /\ tts' \in [Turns -> {"none", "run", "ended"}]
        /\ endpointTask' \in [Turns -> {"none", "sent", "ended"}]
        /\ \A u \in Turns : pipe'[u] = "none" <=> pipe[u] = "none"
    <3>1. /\ pipe \in [Turns -> {"none", "run", "drain", "ended"}] /\ tts \in [Turns -> {"none", "run", "ended"}]
          /\ endpointTask \in [Turns -> {"none", "sent", "ended"}]
      BY DEF SatOK
    <3>2. CASE UNCHANGED <<pipe, tts, endpointTask>>
      BY <3>1, <3>2
    <3>3. CASE /\ pipe' = [pipe EXCEPT ![active] = IF @ \in {"run", "drain"} THEN "ended" ELSE @]
               /\ NoTts(active) /\ NoEndpoint(active)
      <4>. HIDE DEF SatOK, OfferInv
      <4>1. /\ pipe' \in [Turns -> {"none", "run", "drain", "ended"}]
            /\ \A u \in Turns : pipe'[u] = "none" <=> pipe[u] = "none"
        BY <3>1, <3>3
      <4>2. tts' \in [Turns -> {"none", "run", "ended"}]
        BY <3>1, <3>3 DEF NoTts
      <4>3. endpointTask' \in [Turns -> {"none", "sent", "ended"}]
        BY <3>1, <3>3 DEF NoEndpoint
      <4>. QED  BY <4>1, <4>2, <4>3
    <3>. QED  BY <2>1, <3>2, <3>3
  <2>3. SatOK'
    BY <1>1, <1>2, <2>1, <2>2 DEF SatOK
  <2>4. Untouched' = Untouched /\ \A u \in Turns : pipe'[u] # "none" => stage'[u] # "none"
    BY <2>2 DEF Untouched, OfferInv
  <2>. QED  BY <1>1, <1>3, <2>1, <2>3, <2>4, OffersKept
<1>. QED  BY <1>4, <1>5

LEMMA StaysInv ==
    ASSUME SatOK, OfferInv, Stays, UNCHANGED stage
    PROVE  SatOK' /\ OfferInv'
<1>1. ASSUME NEW t \in Turns, EndOfSpeech(t) PROVE SatOK' /\ OfferInv'
  <2>1. UNCHANGED <<satellite, stream>>
    BY <1>1 DEF EndOfSpeech
  <2>2. Quietly
    BY <2>1 DEF Quietly, stream, SatOK
  <2>. QED  BY <2>1, <2>2, QuietInv
<1>2. ASSUME NEW t \in Turns, Abort(t) PROVE SatOK' /\ OfferInv'
  <2>1. UNCHANGED satellite /\ (Pushed("cancel", t) \/ Lost("cancel", t)) /\ faults' \in 0..MaxFaults
    BY <1>2, HaTurnsAssumption DEF Abort, Push, PushRaises, Fault, SatOK
  <2>. QED  BY <2>1, PushesQuietly, QuietInv
<1>3. CASE Drop \/ Reconnect
  <2>1. /\ UNCHANGED satellite /\ connected' \in BOOLEAN /\ faults' \in 0..MaxFaults
        /\ missed' \subseteq Turns /\ events' \in {events, <<>>}
    <3>1. \A i \in 1..Len(events) : events[i] \in Event
      BY DEF SatOK
    <3>2. \A i \in 1..Len(events) : events[i].turn \in Turns
      BY <3>1 DEF Event
    <3>3. \A type : InFlight(type) \subseteq Turns
      BY <3>2 DEF InFlight
    <3>4. Drop => missed' \subseteq Turns /\ faults' \in 0..MaxFaults /\ connected' = FALSE /\ events' = <<>> /\ UNCHANGED satellite
      BY <3>3, HaTurnsAssumption DEF Drop, SatOK
    <3>5. Reconnect => connected' = TRUE /\ UNCHANGED <<events, missed, faults, satellite>>
      BY DEF Reconnect
    <3>. QED  BY <1>3, <3>4, <3>5 DEF SatOK
  <2>2. events' \in Seq(Event)
    <3>1. events \in Seq(Event) /\ <<>> \in Seq(Event)
      BY DEF SatOK
    <3>. QED  BY <2>1, <3>1
  <2>3. /\ UNCHANGED <<active, offers, handler, pipe, tts, endpointTask, endpointSent, announce>>
        /\ Untouched' = Untouched /\ \A u \in Turns : pipe'[u] # "none" => stage'[u] # "none"
    BY <2>1 DEF satellite, Untouched, OfferInv
  <2>4. SatOK'
    BY <2>1, <2>2, <2>3 DEF SatOK
  <2>5. /\ Len(events) \in Nat /\ Len(events') \in Nat
        /\ \A i \in 1..Len(events') : events'[i].type = "offer" =>
              i + 0 \in 1..Len(events) /\ events'[i] = events[i + 0]
    BY <2>1 DEF SatOK
  <2>. QED  BY <2>3, <2>4, <2>5, OffersKept, HaTurnsAssumption
<1>. QED  BY <1>1, <1>2, <1>3, PipelineInv, HandlerInv, GatewayInv DEF Stays

LEMMA TurnsStep ==
    ASSUME TurnsInv, [Next]_vars
    PROVE  TurnsInv'
<1>0. EngineInv /\ SatOK /\ OfferInv
  BY DEF TurnsInv
<1>1. EngineInv'
  BY <1>0, EngineStep
<1>2. CASE Stays
  BY <1>0, <1>1, <1>2, StaysStep, StaysInv DEF TurnsInv
<1>3. ASSUME NEW t \in Turns, Moves(t) PROVE SatOK' /\ OfferInv'
  <2>1. CASE Offer(t)
    BY <1>0, <2>1, OfferStep
  <2>2. CASE CreateAnnounce(t)
    <3>1. /\ UNCHANGED <<connected, events, missed, active, offers, handler, pipe, tts, endpointTask, endpointSent>>
          /\ Goto(t, "socket") /\ UNCHANGED faults
          /\ announce' = [Free EXCEPT !.turn = t, !.at = "attach"]
      BY <2>2 DEF CreateAnnounce, stream
    <3>2. /\ announce' \in [turn : Turns \cup {None}, at : {"idle", "attach", "own"}, ok : BOOLEAN]
          /\ announce'.at # "idle" /\ announce'.turn # None
      BY <3>1, HaTurnsAssumption DEF Free
    <3>3. SatOK'
      BY <1>0, <3>1, <3>2 DEF SatOK
    <3>4. /\ Untouched \subseteq Untouched' /\ \A u \in Turns : pipe'[u] # "none" => stage'[u] # "none"
      BY <1>0, <3>1 DEF Untouched, OfferInv, Goto, EngineInv, EngineOK
    <3>5. /\ Len(events) \in Nat /\ Len(events') \in Nat
          /\ \A i \in 1..Len(events') : events'[i].type = "offer" =>
                i + 0 \in 1..Len(events) /\ events'[i] = events[i + 0]
      BY <1>0, <3>1 DEF SatOK
    <3>. QED  BY <1>0, <3>1, <3>3, <3>4, <3>5, OffersKept, HaTurnsAssumption
  <2>3. CASE ~Offer(t) /\ ~CreateAnnounce(t)
    BY <1>0, <1>3, <2>3, MovesQuietly, QuietInv
  <2>. QED  BY <2>1, <2>2, <2>3
<1>4. CASE UNCHANGED vars
  BY <1>0, <1>1, <1>4 DEF TurnsInv, vars, engine, stream, satellite, SatOK, OfferInv, Untouched
<1>. QED  BY <1>1, <1>2, <1>3, <1>4, NextSplit DEF TurnsInv

LEMMA TurnsInit == Init => TurnsInv
<1>. SUFFICES ASSUME Init PROVE SatOK /\ OfferInv
  BY EngineInit DEF TurnsInv
<1>1. SatOK
  <2>1. /\ connected \in BOOLEAN /\ faults \in 0..MaxFaults /\ missed \subseteq Turns
        /\ active \in Turns \cup {None} /\ endpointSent \in BOOLEAN
    <3>1. faults = 0 /\ missed = {} /\ active = None
      BY DEF Init
    <3>2. MaxFaults \in Nat
      BY HaTurnsAssumption
    <3>3. connected = TRUE /\ endpointSent = FALSE
      BY DEF Init
    <3>4. connected \in BOOLEAN /\ endpointSent \in BOOLEAN
      BY <3>3
    <3>. QED  BY <3>1, <3>2, <3>4
  <2>2. events = <<>> /\ offers = <<>>
    BY DEF Init
  <2>3. events \in Seq(Event) /\ offers \in Seq(Turns)
    BY <2>2
  <2>4. /\ handler \in [turn : Turns \cup {None}, at : {"idle", "attach", "own", "accept"}, ok : BOOLEAN]
        /\ announce \in [turn : Turns \cup {None}, at : {"idle", "attach", "own"}, ok : BOOLEAN]
        /\ handler.at = "idle" /\ handler.turn = None /\ announce.at = "idle" /\ announce.turn = None
    BY DEF Init, Free
  <2>5. /\ pipe \in [Turns -> {"none", "run", "drain", "ended"}] /\ tts \in [Turns -> {"none", "run", "ended"}]
        /\ endpointTask \in [Turns -> {"none", "sent", "ended"}]
    BY DEF Init
  <2>. QED  BY <2>1, <2>3, <2>4, <2>5 DEF SatOK
<1>2. OfferInv
  BY DEF Init, OfferInv, Free
<1>. QED  BY <1>1, <1>2

LEMMA TurnsInvTypes == TurnsInv => TypeOK
<1>. SUFFICES ASSUME TurnsInv PROVE TypeOK
  OBVIOUS
<1>1. \A i \in 1..Len(events) : events[i] \in [type : {"offer", "cancel", "terminal"}, turn : Turns]
  <2>1. \A i \in 1..Len(events) : events[i] \in Event
    BY DEF TurnsInv, SatOK
  <2>. QED  BY <2>1 DEF Event
<1>2. \A i \in 1..Len(offers) : offers[i] # handler.turn /\ pipe[offers[i]] = "none"
  BY DEF TurnsInv, OfferInv, Untouched
<1>. QED  BY <1>1, <1>2 DEF TurnsInv, EngineInv, EngineOK, SatOK, OfferInv, TypeOK

\* Both sides' records keep their types, and an offer is handled once: it waits
\* once, not beside the one the handler has, and no pipeline has run for it
\* (_handle_wake_offer, assist_satellite.py).
THEOREM TurnsTypes == Spec => []TypeOK
<1>1. TurnsInv /\ [Next]_vars => TurnsInv'
  BY TurnsStep
<1>. QED  BY <1>1, TurnsInit, TurnsInvTypes, PTL DEF Spec

-----------------------------------------------------------------------------
(* One pipeline.  Without announcements only the handler gives a turn the   *)
(* satellite, and from taking an offer to accepting it nothing is active.   *)

PipeInv ==
    /\ OnePipeline
    /\ Announces = {} =>
          /\ announce.at = "idle"
          /\ handler.at \in {"attach", "own"} => active = None
          /\ handler.at = "accept" => active \in {None, handler.turn}

LEMMA PipeStep ==
    ASSUME TurnsInv, PipeInv, [Next]_vars
    PROVE  PipeInv'
<1>0. /\ SatOK /\ OfferInv /\ EngineInv /\ None \notin Turns
      /\ pipe \in [Turns -> {"none", "run", "drain", "ended"}]
      /\ handler \in [turn : Turns \cup {None}, at : {"idle", "attach", "own", "accept"}, ok : BOOLEAN]
  BY HaTurnsAssumption DEF TurnsInv, SatOK
<1>. SUFFICES ASSUME Announces = {}
     PROVE  /\ \A t \in Turns : pipe'[t] = "run" => active' = t
            /\ announce'.at = "idle"
            /\ handler'.at \in {"attach", "own"} => active' = None
            /\ handler'.at = "accept" => active' \in {None, handler'.turn}
  BY DEF PipeInv, OnePipeline
<1>1. /\ \A t \in Turns : pipe[t] = "run" => active = t
      /\ announce.at = "idle"
      /\ handler.at \in {"attach", "own"} => active = None
      /\ handler.at = "accept" => active \in {None, handler.turn}
  BY DEF PipeInv, OnePipeline
<1>2. ASSUME UNCHANGED <<active, handler, announce>>,
             \A t \in Turns : pipe'[t] = "run" => pipe[t] = "run"
      PROVE  /\ \A t \in Turns : pipe'[t] = "run" => active' = t
             /\ announce'.at = "idle"
             /\ handler'.at \in {"attach", "own"} => active' = None
             /\ handler'.at = "accept" => active' \in {None, handler'.turn}
  BY <1>1, <1>2
<1>3. ASSUME NEW t \in Turns, Moves(t)
      PROVE  UNCHANGED <<active, handler, announce, pipe>>
  <2>1. CASE Offer(t)
    BY <2>1 DEF Offer, satellite
  <2>2. ~CreateAnnounce(t)
    BY DEF CreateAnnounce
  <2>. QED  BY <1>0, <1>3, <2>1, <2>2, MovesQuietly DEF satellite
<1>4. ASSUME NEW t \in Turns, EndOfSpeech(t) \/ Abort(t)
      PROVE  UNCHANGED <<active, handler, announce, pipe>>
  BY <1>4 DEF EndOfSpeech, Abort, satellite
<1>5. ASSUME NEW t \in Turns, PipelineStep(t)
      PROVE  /\ UNCHANGED <<active, handler, announce>>
             /\ \A u \in Turns : pipe'[u] = "run" => pipe[u] = "run"
  <2>1. /\ UNCHANGED <<active, handler, announce>>
        /\ pipe' = pipe \/ \E p \in {"drain", "ended"} : pipe' = [pipe EXCEPT ![t] = p]
    BY <1>5 DEF PipelineStep, SpeechStart, SttEnd, EndpointAnswered, TtsEnd, TtsStreamed, PipelineReturns,
       PipelineDrains, satellite
  <2>. QED  BY <1>0, <2>1
<1>6. CASE Drop \/ Reconnect
  BY <1>1, <1>6 DEF Drop, Reconnect, satellite
<1>7. CASE GatewayEvent
  <2>1. /\ UNCHANGED <<handler, announce>>
        /\ \/ UNCHANGED <<active, pipe>>
           \/ /\ active' = None
              /\ pipe' = [pipe EXCEPT ![active] = IF @ \in {"run", "drain"} THEN "ended" ELSE @]
    <3>1. EndOwned(active, Head(events).type) \/ UNCHANGED <<active, handler, announce, pipe>>
      BY <1>7 DEF GatewayEvent, satellite
    <3>. QED  BY <3>1 DEF EndOwned
  <2>2. CASE UNCHANGED <<active, pipe>>
    BY <1>2, <2>1, <2>2
  <2>3. CASE /\ active' = None
             /\ pipe' = [pipe EXCEPT ![active] = IF @ \in {"run", "drain"} THEN "ended" ELSE @]
    <3>1. \A t \in Turns : pipe'[t] # "run"
      BY <1>0, <1>1, <2>3
    <3>. QED  BY <1>1, <2>1, <2>3, <3>1
  <2>. QED  BY <2>1, <2>2, <2>3
<1>8. CASE HandlerStep
  <2>1. CASE TakeOffer
    <3>1. /\ UNCHANGED <<active, announce, pipe>> /\ handler.at = "idle"
          /\ \/ UNCHANGED handler
             \/ active = None /\ handler' = [Free EXCEPT !.turn = Head(offers), !.at = "attach"]
      BY <2>1 DEF TakeOffer
    <3>2. handler'.at = "idle" \/ (handler'.at = "attach" /\ active = None)
      BY <3>1 DEF Free
    <3>. QED  BY <1>1, <3>1, <3>2
  <2>2. CASE Attach
    <3>1. /\ UNCHANGED <<active, announce, pipe>> /\ handler.at = "attach"
          /\ (handler' = Free \/ handler' = [handler EXCEPT !.at = "own"])
      BY <2>2 DEF Attach
    <3>2. handler'.at \in {"idle", "own"}
      BY <1>0, <3>1 DEF Free
    <3>. QED  BY <1>1, <3>1, <3>2
  <2>3. CASE Accept
    <3>1. /\ UNCHANGED <<announce, pipe>> /\ handler.at = "own" /\ active' = handler.turn
          /\ handler' = [handler EXCEPT !.at = "accept", !.ok = Live(handler.turn)]
      BY <2>3 DEF Accept
    <3>2. handler'.at = "accept" /\ handler'.turn = handler.turn
      BY <1>0, <3>1
    <3>3. \A t \in Turns : pipe[t] # "run"
      BY <1>0, <1>1, <3>1
    <3>. QED  BY <1>1, <3>1, <3>2, <3>3
  <2>4. CASE Accepted
    <3>1. /\ UNCHANGED announce /\ handler.at = "accept" /\ handler' = Free
          /\ \/ UNCHANGED active /\ pipe' = [pipe EXCEPT ![handler.turn] = IF active = handler.turn THEN "run" ELSE "ended"]
             \/ active' = None /\ UNCHANGED pipe
      BY <2>4 DEF Accepted, Starts, Owns
    <3>2. handler'.at = "idle"
      BY <3>1 DEF Free
    <3>3. handler.turn \in Turns /\ pipe[handler.turn] = "none"
      BY <1>0, <3>1 DEF SatOK, OfferInv, Untouched
    <3>4. \A t \in Turns : pipe'[t] = "run" => active' = t
      BY <1>0, <1>1, <3>1, <3>3
    <3>. QED  BY <1>1, <3>1, <3>2, <3>4
  <2>5. ~AttachAnnounce /\ ~OwnAnnounce
    BY <1>1 DEF AttachAnnounce, OwnAnnounce
  <2>. QED  BY <1>8, <2>1, <2>2, <2>3, <2>4, <2>5 DEF HandlerStep
<1>9. CASE UNCHANGED vars
  BY <1>1, <1>9 DEF vars, satellite
<1>. QED  BY <1>2, <1>3, <1>4, <1>5, <1>6, <1>7, <1>8, <1>9, NextSplit DEF Stays

\* Without announcements, a pipeline listens only for the turn the satellite
\* holds, so no two listen at once and an event of Home Assistant, which names
\* no turn, is never taken for another's (on_pipeline_event,
\* assist_satellite.py).
THEOREM PipelinesOwn == Spec => []OnePipeline
<1>1. Init => TurnsInv /\ PipeInv
  BY TurnsInit DEF Init, PipeInv, OnePipeline, Free
<1>2. (TurnsInv /\ PipeInv) /\ [Next]_vars => (TurnsInv /\ PipeInv)'
  BY TurnsStep, PipeStep
<1>. QED  BY <1>1, <1>2, PTL DEF Spec, PipeInv

=============================================================================
