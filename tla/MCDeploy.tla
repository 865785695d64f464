----------------------------- MODULE MCDeploy -----------------------------
(* Instance of Deploy; Deploy.cfg gives the constants. *)
EXTENDS Deploy
=============================================================================
