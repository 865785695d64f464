---------------------------- MODULE MCVoiceTurn ----------------------------
(* Instance of VoiceTurn; VoiceTurn.cfg gives the constants.               *)
EXTENDS VoiceTurn
=============================================================================
