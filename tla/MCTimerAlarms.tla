---------------------------- MODULE MCTimerAlarms ----------------------------
(* Two timers, the control socket and one card, two ringing tasks.           *)
EXTENDS TimerAlarms
=============================================================================
