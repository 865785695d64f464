------------------------------- MODULE MCLive -------------------------------
(* One run for the turns of the Home Assistant integration (HaTurns) and the  *)
(* speaker of a device (Speaker).  They do not interact: `which` picks the    *)
(* one that moves, the other stays in its initial state, where nothing it is  *)
(* fair to is enabled.                                                        *)
EXTENDS HaTurns

CONSTANTS Periods, Prime, Depth, MaxStreams, MaxCancels, MaxDrops

VARIABLES which, waiting, started, play, cancel, playback_done, speaking, late, link, data,
          flushes, stats, ch, pumping, speakerActive, discarding, eosPending, playing, flush,
          cancels, drops, cur, flushed, swallowed, leaked, lost

S == INSTANCE Speaker WITH active <- speakerActive

ASSUME SpeakerBounds == Periods \in Nat /\ MaxStreams \in Nat

speakerVars ==
    <<waiting, started, play, cancel, playback_done, speaking, late, link, data, flushes, stats,
      ch, pumping, speakerActive, discarding, eosPending, playing, flush, cancels, drops, cur,
      flushed, swallowed, leaked, lost>>

LiveVars == <<which, vars, speakerVars>>

LiveInit == which \in {"turns", "speaker"} /\ Init /\ S!Init

LiveNext ==
    /\ UNCHANGED which
    /\ \/ which = "turns" /\ Next /\ UNCHANGED speakerVars
       \/ which = "speaker" /\ S!Next /\ UNCHANGED vars

LiveSpec == LiveInit /\ [][LiveNext]_LiveVars /\ FairSteps /\ S!FairSteps

\* The speaker's properties, stated in Speaker.
FlushIsSilent == S!FlushIsSilent
LeaseEnds == S!LeaseEnds
=============================================================================
