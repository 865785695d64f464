----------------------------- MODULE MCStopWord -----------------------------
(* Two turn rows, three wall-clock milliseconds, two messages each way.    *)
EXTENDS StopWord, TLC

Symmetry == Permutations(Turns)
=============================================================================
