------------------------------ MODULE MCPlayer ------------------------------
(* Instance of Player; Player.cfg gives the constants. *)
EXTENDS Player
=============================================================================
