---------------------------- MODULE MCMicStream ----------------------------
(* Instance of MicStream; MicStream.cfg gives the constants.               *)
EXTENDS MicStream
=============================================================================
