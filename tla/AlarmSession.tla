---------------------------- MODULE AlarmSession ----------------------------
(***************************************************************************)
(* em_timers.AlarmSession: the running timers of one Echo and the queue of *)
(* finished ones that ring, one after the other.  Home Assistant reports   *)
(* timers (it may repeat itself, and a late event may follow a cancel);    *)
(* the user dismisses, an unanswered ring times out, a disconnect discards *)
(* everything.  The payload of an event is its name and a variant, which   *)
(* stands for everything else it carries: the fingerprint of both is what  *)
(* tells a repetition from a new event.                                    *)
(***************************************************************************)
EXTENDS Integers, Sequences, FiniteSets

CONSTANTS
    Timers,     \* timer ids
    Variants,   \* what the payloads of one event may differ in
    None        \* Python's None

ASSUME TimersAssumption == None \notin Timers

VARIABLES
    running,    \* AlarmSession.running, by id
    current,    \* AlarmSession.current
    queue,      \* AlarmSession.queue
    last,       \* AlarmSession._last_payload
    cancelled   \* AlarmSession._cancelled

session == <<running, current, queue, last, cancelled>>

Events == {"started", "updated", "cancelled", "finished"}
Payloads == Events \X Variants
NoPayload == <<>>

Queued == {queue[i] : i \in DOMAIN queue}
Pending == Queued \cup ({current} \ {None})

-----------------------------------------------------------------------------
\* The head of the queue takes the place of the current alarm.
Advance ==
    /\ current' = IF queue = <<>> THEN None ELSE Head(queue)
    /\ queue' = IF queue = <<>> THEN <<>> ELSE Tail(queue)

\* The list q without t.  apply lets no id in that waits already, so what the
\* code filters out is one entry at most (QueueWellFormed).
Without(q, t) ==
    IF \E i \in DOMAIN q : q[i] = t
    THEN LET k == CHOOSE i \in DOMAIN q : q[i] = t
         IN [i \in 1..(Len(q) - 1) |-> IF i < k THEN q[i] ELSE q[i + 1]]
    ELSE q

\* _remove_finished: t is no longer pending, wherever it was.
RemoveFinished(t) ==
    IF current = t
    THEN /\ current' = IF queue = <<>> THEN None ELSE Head(queue)
         /\ queue' = IF queue = <<>> THEN <<>> ELSE Without(Tail(queue), t)
    ELSE /\ current' = current
         /\ queue' = Without(queue, t)

\* apply's answer `alarm_changed`, for an event that is no duplicate.
AlarmChanged(t, e) == IF e = "finished" THEN current # t ELSE t \in Pending

\* The started and updated branch.
ApplyRunning(t) ==
    /\ running' = running \cup {t}
    /\ RemoveFinished(t)
    /\ UNCHANGED cancelled

\* The cancelled branch: the tombstone stays.
ApplyCancelled(t) ==
    /\ running' = running \ {t}
    /\ cancelled' = cancelled \cup {t}
    /\ RemoveFinished(t)

\* A finished branch without the test for an id that already waits.
ApplyFinishedTwice(t) ==
    /\ running' = running \ {t}
    /\ IF current = None
       THEN current' = t /\ UNCHANGED queue
       ELSE queue' = Append(queue, t) /\ UNCHANGED current
    /\ UNCHANGED cancelled

\* A finished branch that leaves the countdown.
ApplyFinishedStillRunning(t) ==
    /\ IF t \in Pending
       THEN UNCHANGED <<current, queue>>
       ELSE IF current = None
            THEN current' = t /\ UNCHANGED queue
            ELSE queue' = Append(queue, t) /\ UNCHANGED current
    /\ UNCHANGED <<running, cancelled>>

\* The finished branch: ring, or wait behind what rings.
ApplyFinished(t) ==
    /\ running' = running \ {t}
    /\ IF t \in Pending
       THEN UNCHANGED <<current, queue>>
       ELSE IF current = None
            THEN current' = t /\ UNCHANGED queue
            ELSE queue' = Append(queue, t) /\ UNCHANGED current
    /\ UNCHANGED cancelled

\* A straggler test that only knows exact repetitions.
StragglerNever(t, e) == FALSE

\* The tombstone test: a cancelled id takes no other event.
Straggler(t, e) == t \in cancelled /\ e # "cancelled"

\* apply's answer `duplicate`: the event is a repetition, a straggler behind a
\* cancel, or the finish of a timer that waits in the queue.
Duplicate(t, e, v) ==
    \/ last[t] = <<e, v>>
    \/ Straggler(t, e)
    \/ e = "finished" /\ t \in Queued /\ current # t

\* apply.
Apply(t, e, v) ==
    IF last[t] = <<e, v>>
    THEN UNCHANGED session
    ELSE /\ last' = [last EXCEPT ![t] = <<e, v>>]
         /\ IF Straggler(t, e)
            THEN UNCHANGED <<running, current, queue, cancelled>>
            ELSE \/ e \in {"started", "updated"} /\ ApplyRunning(t)
                 \/ e = "cancelled" /\ ApplyCancelled(t)
                 \/ e = "finished" /\ ApplyFinished(t)

\* dismiss_current; timeout_current and delivery_failed are the same.
DismissCurrent ==
    /\ Advance
    /\ UNCHANGED <<running, last, cancelled>>

\* A dismiss_all that empties both in the same way.
DismissAllEmpty ==
    /\ current' = <<>>
    /\ queue' = <<>>
    /\ UNCHANGED <<running, last, cancelled>>

\* dismiss_all; disconnect is the same.
DismissAll ==
    /\ current' = None
    /\ queue' = <<>>
    /\ UNCHANGED <<running, last, cancelled>>

-----------------------------------------------------------------------------
SessionInit ==
    /\ running = {}
    /\ current = None
    /\ queue = <<>>
    /\ last = [t \in Timers |-> NoPayload]
    /\ cancelled = {}

SessionNext ==
    \/ \E t \in Timers, e \in Events, v \in Variants : Apply(t, e, v)
    \/ DismissCurrent
    \/ DismissAll

SessionSpec == SessionInit /\ [][SessionNext]_session

-----------------------------------------------------------------------------
(* Properties.                                                             *)

\* Every variable has the shape the code gives it.
SessionTypeOK ==
    /\ running \in SUBSET Timers
    /\ current \in Timers \cup {None}
    /\ queue \in Seq(Timers)
    /\ last \in [Timers -> Payloads \cup {NoPayload}]
    /\ cancelled \in SUBSET Timers

\* A timer is pending at most once, and alarms wait only behind one that rings:
\* AlarmSession never answers `queued` without a current alarm, and one finish
\* never rings twice.
QueueWellFormed ==
    /\ \A i, j \in DOMAIN queue : queue[i] = queue[j] => i = j
    /\ current \notin Queued
    /\ current = None => queue = <<>>

\* The tombstone of a cancel holds against every later event: a cancelled timer
\* neither rings nor waits to, and is not counted down.
CancelledStaysSilent == cancelled \cap (Pending \cup running) = {}

\* A timer that rings or waits to is not shown as running any more, however its
\* events were repeated or reordered.
RingingNotRunning == running \cap Pending = {}
=============================================================================
