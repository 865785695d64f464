-------------------------- MODULE MCAlarmScheduler --------------------------
(* Days of three units, the grace window one of them.  Two alarms due at the *)
(* same time of day, so that one pass fires both; each may be a one-off for  *)
(* day 1, daily, or weekly on every other day.  The recurring ones select    *)
(* days past the end of the run, so that they never look spent.              *)
EXTENDS AlarmScheduler, TLC

MCAt == [a \in Alarms |-> 1]
MCOnce == {1}
MCDaily == 0..6
MCWeekly == {1, 3, 5}
MCRecurrences == {MCOnce, MCDaily, MCWeekly}
MCTwoRecurrences == {MCOnce, MCDaily}

Symmetry == Permutations(Alarms)
=============================================================================
