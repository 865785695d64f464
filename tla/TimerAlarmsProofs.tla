------------------------- MODULE TimerAlarmsProofs -------------------------
(***************************************************************************)
(* Proofs about AlarmSession and TimerAlarms for every set of timers,      *)
(* tasks and handlers: a cancelled timer never rings again, and a stop-    *)
(* word arm does not outlive the ringing task it belongs to.               *)
(***************************************************************************)
EXTENDS TimerAlarms, TLAPS

-----------------------------------------------------------------------------
(* The session.                                                            *)

Distinct(q) == \A i, j \in DOMAIN q : q[i] = q[j] => i = j
Elements(q) == {q[i] : i \in DOMAIN q}

SessionInv ==
    /\ SessionTypeOK
    /\ QueueWellFormed
    /\ CancelledStaysSilent
    /\ RingingNotRunning

\* Without takes its argument out of a list without repetitions, and no more.
LEMMA WithoutList ==
  ASSUME NEW S, NEW q \in Seq(S), Distinct(q), NEW t
  PROVE  /\ Without(q, t) \in Seq(S)
         /\ Distinct(Without(q, t))
         /\ Elements(Without(q, t)) = Elements(q) \ {t}
<1>1. CASE ~\E i \in DOMAIN q : q[i] = t
  BY <1>1 DEF Without, Elements
<1>2. CASE \E i \in DOMAIN q : q[i] = t
  <2> DEFINE k == CHOOSE i \in DOMAIN q : q[i] = t
             r == [i \in 1..(Len(q) - 1) |-> IF i < k THEN q[i] ELSE q[i + 1]]
  <2>1. k \in 1..Len(q) /\ q[k] = t  BY <1>2
  <2>2. Without(q, t) = r  BY <1>2 DEF Without
  <2> HIDE DEF k
  <2>3. Len(q) - 1 \in Nat  BY <2>1
  <2>4. r \in Seq(S) /\ DOMAIN r = 1..(Len(q) - 1)  BY <2>1, <2>3
  <2>5. \A i \in DOMAIN r : /\ r[i] = q[IF i < k THEN i ELSE i + 1]
                            /\ (IF i < k THEN i ELSE i + 1) \in DOMAIN q \ {k}
    BY <2>1, <2>4
  <2>6. Distinct(r)
    <3> SUFFICES ASSUME NEW i \in DOMAIN r, NEW j \in DOMAIN r, r[i] = r[j] PROVE i = j
      BY DEF Distinct
    <3>1. (IF i < k THEN i ELSE i + 1) = (IF j < k THEN j ELSE j + 1)
      BY <2>5 DEF Distinct
    <3> QED  BY <2>1, <2>4, <3>1
  <2>7. \A i \in DOMAIN q : i # k => \E j \in DOMAIN r : r[j] = q[i]
    <3> SUFFICES ASSUME NEW i \in DOMAIN q, i # k PROVE \E j \in DOMAIN r : r[j] = q[i]
      OBVIOUS
    <3>1. CASE i < k  BY <2>1, <2>4, <3>1
    <3>2. CASE i > k
      <4>1. i - 1 \in DOMAIN r /\ r[i - 1] = q[i]  BY <2>1, <2>4, <3>2
      <4> QED  BY <4>1
    <3> QED  BY <2>1, <3>1, <3>2
  <2>8. Elements(r) = Elements(q) \ {t}
    <3>1. Elements(r) \subseteq Elements(q) \ {t}
      BY <2>1, <2>5 DEF Elements, Distinct
    <3>2. Elements(q) \ {t} \subseteq Elements(r)
      BY <2>1, <2>7 DEF Elements
    <3> QED  BY <3>1, <3>2
  <2> QED  BY <2>2, <2>4, <2>6, <2>8
<1> QED  BY <1>1, <1>2

\* The head of a queue without repetitions is not in its tail.
LEMMA TailList ==
  ASSUME NEW S, NEW q \in Seq(S), Distinct(q), q # <<>>
  PROVE  /\ Head(q) \in S /\ Tail(q) \in Seq(S)
         /\ Distinct(Tail(q))
         /\ Elements(Tail(q)) = Elements(q) \ {Head(q)}
<1>1. Len(q) \in Nat /\ Len(q) # 0 /\ Head(q) = q[1] /\ Head(q) \in S /\ Tail(q) \in Seq(S)
  OBVIOUS
<1>2. DOMAIN Tail(q) = 1..(Len(q) - 1)  BY <1>1
<1>3. \A i \in DOMAIN Tail(q) : Tail(q)[i] = q[i + 1] /\ i + 1 \in DOMAIN q
  BY <1>1, <1>2
<1>4. Distinct(Tail(q))  BY <1>2, <1>3 DEF Distinct
<1>5. Elements(Tail(q)) \subseteq Elements(q) \ {Head(q)}
  <2> SUFFICES ASSUME NEW i \in DOMAIN Tail(q)
               PROVE  Tail(q)[i] \in Elements(q) \ {Head(q)}
    BY DEF Elements
  <2>1. 1 \in DOMAIN q /\ i + 1 # 1  BY <1>1, <1>2
  <2> QED  BY <1>1, <1>3, <2>1 DEF Elements, Distinct
<1>6. Elements(q) \ {Head(q)} \subseteq Elements(Tail(q))
  <2> SUFFICES ASSUME NEW i \in DOMAIN q, i # 1 PROVE q[i] \in Elements(Tail(q))
    BY <1>1 DEF Elements
  <2>1. i - 1 \in DOMAIN Tail(q) /\ Tail(q)[i - 1] = q[i]  BY <1>1, <1>2, <1>3
  <2> QED  BY <2>1 DEF Elements
<1> QED  BY <1>1, <1>4, <1>5, <1>6

\* What the two halves of the session's invariant say of its lists.
LEMMA SessionLists ==
  ASSUME SessionInv
  PROVE  /\ queue \in Seq(Timers) /\ Distinct(queue) /\ Queued = Elements(queue)
         /\ current \notin Elements(queue) /\ None \notin Elements(queue)
         /\ Pending = Elements(queue) \cup ({current} \ {None})
<1>1. queue \in Seq(Timers) /\ Distinct(queue) /\ Queued = Elements(queue)
  BY DEF SessionInv, SessionTypeOK, QueueWellFormed, Distinct, Queued, Elements
<1>2. None \notin Elements(queue)
  BY <1>1, TimersAssumption DEF Elements
<1> QED  BY <1>1, <1>2 DEF SessionInv, QueueWellFormed, Pending

\* A new current alarm and queue are fine when they hold less than before.
LEMMA SessionShrinks ==
  ASSUME SessionInv, queue' \in Seq(Timers), Distinct(queue'), current' \in Timers \cup {None},
         current' \notin Elements(queue'), current' = None => queue' = <<>>,
         Elements(queue') \cup ({current'} \ {None}) \subseteq Pending,
         running' = running, cancelled' = cancelled,
         last' \in [Timers -> Payloads \cup {NoPayload}]
  PROVE  SessionInv'
<1>1. Pending' \subseteq Pending  BY DEF Pending, Queued, Elements
<1>2. SessionTypeOK'  BY DEF SessionInv, SessionTypeOK
<1>3. QueueWellFormed'  BY DEF QueueWellFormed, Distinct, Elements, Queued
<1>4. CancelledStaysSilent' /\ RingingNotRunning'
  BY <1>1 DEF SessionInv, CancelledStaysSilent, RingingNotRunning
<1> QED  BY <1>2, <1>3, <1>4 DEF SessionInv

\* dismiss_current, timeout_current and delivery_failed: the next one rings.
LEMMA DismissCurrentSession == SessionInv /\ DismissCurrent => SessionInv'
<1> SUFFICES ASSUME SessionInv, DismissCurrent PROVE SessionInv'  OBVIOUS
<1>1. last' \in [Timers -> Payloads \cup {NoPayload}] /\ running' = running /\ cancelled' = cancelled
  BY DEF DismissCurrent, SessionInv, SessionTypeOK
<1>2. CASE queue = <<>>
  <2>1. current' = None /\ queue' = <<>>  BY <1>2 DEF DismissCurrent, Advance
  <2> QED  BY <1>1, <2>1, SessionShrinks DEF Distinct, Elements
<1>3. CASE queue # <<>>
  <2>1. current' = Head(queue) /\ queue' = Tail(queue)  BY <1>3 DEF DismissCurrent, Advance
  <2>2. Head(queue) \in Elements(queue)  BY <1>3, SessionLists DEF Elements
  <2>3. /\ current' \in Timers /\ queue' \in Seq(Timers) /\ Distinct(queue')
        /\ Elements(queue') = Elements(queue) \ {current'}
    BY <1>3, <2>1, SessionLists, TailList
  <2>4. current' # None  BY <2>3, TimersAssumption
  <2>5. Elements(queue') \cup ({current'} \ {None}) \subseteq Pending
    BY <2>1, <2>2, <2>3, SessionLists
  <2> QED  BY <1>1, <2>3, <2>4, <2>5, SessionShrinks
<1> QED  BY <1>2, <1>3

\* dismiss_all and disconnect.
LEMMA DismissAllSession == SessionInv /\ DismissAll => SessionInv'
BY SessionShrinks DEF DismissAll, SessionInv, SessionTypeOK, Distinct, Elements

\* _remove_finished leaves a well-formed queue without its timer.
LEMMA RemoveFinishedLists ==
  ASSUME SessionInv, NEW t \in Timers, RemoveFinished(t)
  PROVE  /\ queue' \in Seq(Timers) /\ current' \in Timers \cup {None}
         /\ QueueWellFormed'
         /\ Pending' = Pending \ {t}
<1> USE SessionLists
<1>c. current \in Timers \cup {None} /\ (current = None => queue = <<>>)
  BY DEF SessionInv, SessionTypeOK, QueueWellFormed
<1>1. ASSUME queue' \in Seq(Timers), Distinct(queue'), current' \notin Elements(queue'),
             current' = None => queue' = <<>>
      PROVE  QueueWellFormed' /\ Pending' = Elements(queue') \cup ({current'} \ {None})
  BY <1>1 DEF QueueWellFormed, Distinct, Elements, Queued, Pending
<1>2. CASE current # t
  <2>1. current' = current /\ queue' = Without(queue, t)  BY <1>2 DEF RemoveFinished
  <2>2. queue' \in Seq(Timers) /\ Distinct(queue') /\ Elements(queue') = Elements(queue) \ {t}
    BY <2>1, WithoutList
  <2>3. current' = None => queue' = <<>>
    <3>1. ~\E i \in DOMAIN <<>> : <<>>[i] = t  OBVIOUS
    <3> QED  BY <1>c, <2>1, <3>1 DEF Without
  <2> QED  BY <1>1, <1>2, <1>c, <2>1, <2>2, <2>3
<1>3. CASE current = t /\ queue = <<>>
  <2>1. current' = None /\ queue' = <<>>  BY <1>3 DEF RemoveFinished
  <2>2. queue' \in Seq(Timers) /\ Distinct(queue') /\ Elements(queue') = {} /\ Elements(queue) = {}
    BY <1>3, <2>1 DEF Distinct, Elements
  <2> QED  BY <1>1, <1>3, <2>1, <2>2
<1>4. CASE current = t /\ queue # <<>>
  <2>1. current' = Head(queue) /\ queue' = Without(Tail(queue), t)  BY <1>4 DEF RemoveFinished
  <2>2. /\ Head(queue) \in Timers /\ Tail(queue) \in Seq(Timers) /\ Distinct(Tail(queue))
        /\ Elements(Tail(queue)) = Elements(queue) \ {Head(queue)}
    BY <1>4, TailList
  <2>3. queue' \in Seq(Timers) /\ Distinct(queue') /\ Elements(queue') = Elements(queue) \ {Head(queue), t}
    <3> DEFINE rest == Tail(queue)
    <3>1. rest \in Seq(Timers) /\ Distinct(rest) /\ queue' = Without(rest, t)  BY <2>1, <2>2
    <3>2. Elements(rest) = Elements(queue) \ {Head(queue)}  BY <2>2
    <3> HIDE DEF rest
    <3>3. /\ Without(rest, t) \in Seq(Timers) /\ Distinct(Without(rest, t))
          /\ Elements(Without(rest, t)) = Elements(rest) \ {t}
      BY <3>1, WithoutList
    <3>4. queue' \in Seq(Timers) /\ Distinct(queue')  BY <3>1, <3>3
    <3>5. Elements(queue') = Elements(rest) \ {t}  BY <3>1, <3>3
    <3> QED  BY <3>2, <3>4, <3>5
  <2>4. Head(queue) \in Elements(queue)  BY <1>4 DEF Elements
  <2>5. current' # None /\ current' # t /\ current' \notin Elements(queue')
    BY <1>4, <2>1, <2>2, <2>3, <2>4, TimersAssumption
  <2>6. t # None /\ t \notin Elements(queue)  BY <1>4, TimersAssumption
  <2>7. Pending' = Elements(queue') \cup {current'}  BY <1>1, <2>3, <2>5
  <2>8. Pending = Elements(queue) \cup {t}  BY <1>4, <2>6
  <2> QED  BY <1>1, <2>1, <2>2, <2>3, <2>4, <2>5, <2>6, <2>7, <2>8
<1> QED  BY <1>2, <1>3, <1>4

\* A finished timer joins the pending ones once.
LEMMA ApplyFinishedLists ==
  ASSUME SessionInv, NEW t \in Timers, ApplyFinished(t)
  PROVE  /\ queue' \in Seq(Timers) /\ current' \in Timers \cup {None}
         /\ QueueWellFormed'
         /\ Pending' = Pending \cup {t}
<1> USE SessionLists
<1>c. current \in Timers \cup {None} /\ (current = None => queue = <<>>) /\ t # None
  BY TimersAssumption DEF SessionInv, SessionTypeOK, QueueWellFormed
<1>1. CASE t \in Pending
  <2>1. current' = current /\ queue' = queue  BY <1>1 DEF ApplyFinished
  <2> QED  BY <1>1, <1>c, <2>1 DEF SessionInv, QueueWellFormed, Pending, Queued
<1>2. CASE t \notin Pending /\ current = None
  <2>1. current' = t /\ queue' = <<>>  BY <1>2, <1>c DEF ApplyFinished
  <2>2. Pending = {}  BY <1>2, <1>c DEF Elements
  <2> QED  BY <1>c, <2>1, <2>2 DEF QueueWellFormed, Pending, Queued
<1>3. CASE t \notin Pending /\ current # None
  <2>1. current' = current /\ queue' = Append(queue, t)  BY <1>3 DEF ApplyFinished
  <2>2. /\ queue' \in Seq(Timers) /\ DOMAIN queue' = 1..(Len(queue) + 1) /\ Len(queue) \in Nat
        /\ queue'[Len(queue) + 1] = t /\ \A i \in DOMAIN queue : queue'[i] = queue[i]
    BY <2>1
  <2>3. t \notin Elements(queue) /\ t # current  BY <1>3, <1>c
  <2>4. Distinct(queue')
    <3>1. \A i \in DOMAIN queue : queue'[i] # t  BY <2>2, <2>3 DEF Elements
    <3> QED  BY <2>2, <3>1 DEF Distinct
  <2>5. Elements(queue') = Elements(queue) \cup {t}
    <3>1. \A i \in DOMAIN queue' : i \in DOMAIN queue \/ i = Len(queue) + 1  BY <2>2
    <3>2. DOMAIN queue \subseteq DOMAIN queue' /\ Len(queue) + 1 \in DOMAIN queue'  BY <2>2
    <3> QED  BY <2>2, <3>1, <3>2 DEF Elements
  <2>6. QueueWellFormed'
    BY <1>3, <2>1, <2>3, <2>4, <2>5 DEF QueueWellFormed, Distinct, Elements, Queued
  <2>7. Pending' = Elements(queue') \cup {current}  BY <1>3, <2>1 DEF Pending, Queued, Elements
  <2> QED  BY <1>3, <1>c, <2>1, <2>2, <2>5, <2>6, <2>7
<1> QED  BY <1>1, <1>2, <1>3

\* apply keeps the session's invariant: a tombstone stops every later event, and
\* each branch moves its timer between running and pending as a whole.
LEMMA ApplySession ==
  ASSUME SessionInv, NEW t \in Timers, NEW e \in Events, NEW v \in Variants, Apply(t, e, v)
  PROVE  SessionInv'
<1>1. CASE UNCHANGED session
  BY <1>1 DEF session, SessionInv, SessionTypeOK, QueueWellFormed, CancelledStaysSilent,
     RingingNotRunning, Pending, Queued
<1>2. CASE last' = [last EXCEPT ![t] = <<e, v>>] /\ ~(last[t] = <<e, v>>)
  <2>1. last' \in [Timers -> Payloads \cup {NoPayload}]
    BY <1>2 DEF SessionInv, SessionTypeOK, Payloads
  <2>2. running \in SUBSET Timers /\ cancelled \in SUBSET Timers
        /\ cancelled \cap (Pending \cup running) = {} /\ running \cap Pending = {}
    BY DEF SessionInv, SessionTypeOK, CancelledStaysSilent, RingingNotRunning
  <2>3. ASSUME queue' \in Seq(Timers), current' \in Timers \cup {None}, QueueWellFormed',
               running' \in SUBSET Timers, cancelled' \in SUBSET Timers,
               cancelled' \cap (Pending' \cup running') = {}, running' \cap Pending' = {}
        PROVE  SessionInv'
    BY <2>1, <2>3 DEF SessionInv, SessionTypeOK, CancelledStaysSilent, RingingNotRunning
  <2>4. CASE Straggler(t, e) /\ UNCHANGED <<running, current, queue, cancelled>>
    BY <2>1, <2>4 DEF SessionInv, SessionTypeOK, QueueWellFormed, CancelledStaysSilent,
       RingingNotRunning, Pending, Queued
  <2>5. CASE ~Straggler(t, e) /\ e \in {"started", "updated"} /\ ApplyRunning(t)
    <3>1. t \notin cancelled  BY <2>5 DEF Straggler
    <3>2. RemoveFinished(t) /\ running' = running \cup {t} /\ cancelled' = cancelled
      BY <2>5 DEF ApplyRunning
    <3> QED  BY <2>2, <2>3, <3>1, <3>2, RemoveFinishedLists
  <2>6. CASE ApplyCancelled(t)
    <3>1. RemoveFinished(t) /\ running' = running \ {t} /\ cancelled' = cancelled \cup {t}
      BY <2>6 DEF ApplyCancelled
    <3> QED  BY <2>2, <2>3, <3>1, RemoveFinishedLists
  <2>7. CASE ~Straggler(t, e) /\ e = "finished" /\ ApplyFinished(t)
    <3>1. t \notin cancelled  BY <2>7 DEF Straggler
    <3>2. running' = running \ {t} /\ cancelled' = cancelled  BY <2>7 DEF ApplyFinished
    <3> QED  BY <2>2, <2>3, <2>7, <3>1, <3>2, ApplyFinishedLists
  <2> QED  BY <1>2, <2>4, <2>5, <2>6, <2>7 DEF Apply
<1> QED  BY <1>1, <1>2 DEF Apply

\* An action of the session keeps its invariant, and so does any step beside it.
LEMMA SessionStep == SessionInv /\ [SessionNext]_session => SessionInv'
<1> SUFFICES ASSUME SessionInv, [SessionNext]_session PROVE SessionInv'  OBVIOUS
<1>1. CASE \E t \in Timers, e \in Events, v \in Variants : Apply(t, e, v)
  BY <1>1, ApplySession
<1>2. CASE DismissCurrent  BY <1>2, DismissCurrentSession
<1>3. CASE DismissAll  BY <1>3, DismissAllSession
<1>4. CASE UNCHANGED session
  BY <1>4 DEF session, SessionInv, SessionTypeOK, QueueWellFormed, CancelledStaysSilent,
     RingingNotRunning, Pending, Queued
<1> QED  BY <1>1, <1>2, <1>3, <1>4 DEF SessionNext

LEMMA SessionStart == SessionInit => SessionInv
<1> SUFFICES ASSUME SessionInit PROVE SessionInv  OBVIOUS
<1>1. SessionTypeOK  BY DEF SessionInit, SessionTypeOK
<1>2. Queued = {} /\ Pending = {}  BY DEF SessionInit, Queued, Pending
<1> QED
  BY <1>1, <1>2 DEF SessionInit, SessionInv, QueueWellFormed, CancelledStaysSilent, RingingNotRunning

-----------------------------------------------------------------------------
(* Whatever the tasks, handlers and deliveries do to the session, they do   *)
(* through its own operations, one at a time.                               *)

\* One step of the composition is at most one operation of the session.
LEMMA NextSession == [Next]_vars => [SessionNext]_session
<1> SUFFICES ASSUME [Next]_vars PROVE [SessionNext]_session  OBVIOUS
<1> USE DEF SessionNext
<1>0. CASE UNCHANGED vars  BY <1>0 DEF vars
<1>1. CASE \E t \in Timers, e \in Events, v \in Variants : TimerEvent(t, e, v)
  BY <1>1 DEF TimerEvent
<1>2. CASE \E t \in Timers : Deliver(t)
  BY <1>2 DEF Deliver, DeliverFinished, StartRinging
<1>3. ASSUME NEW k \in Tasks, Run(k) PROVE [SessionNext]_session
  <2>1. CASE RunBegins(k)  BY <2>1 DEF RunBegins
  <2>2. CASE SoundLoaded(k)  BY <2>2 DEF SoundLoaded
  <2>3. CASE Loop(k) \/ Arm(k)  BY <2>3 DEF Loop, Arm
  <2>4. CASE BurstDone(k)  BY <2>4 DEF BurstDone, BurstTimesOut
  <2>5. CASE RunEnds(k) \/ DoneCallback(k)  BY <2>5 DEF RunEnds, DoneCallback
  <2> QED  BY <1>3, <2>1, <2>2, <2>3, <2>4, <2>5 DEF Run
<1>4. ASSUME NEW h \in Handlers, CardDismiss(h) \/ Handle(h) PROVE [SessionNext]_session
  <2>1. CASE CardDismiss(h)  BY <2>1 DEF CardDismiss, Dismiss
  <2>2. CASE StopCancels(h) \/ StopEnds(h)  BY <2>2 DEF StopCancels, StopEnds
  <2>3. CASE DismissEnds(h)  BY <2>3 DEF DismissEnds
  <2>4. CASE ClearSession(h) \/ DeviceGone(h)  BY <2>4 DEF ClearSession, DeviceGone
  <2> QED  BY <1>4, <2>1, <2>2, <2>3, <2>4 DEF Handle
<1>5. CASE ButtonTap  BY <1>5 DEF ButtonTap
<1>6. CASE ButtonDismiss  BY <1>6 DEF ButtonDismiss, Dismiss
<1>7. CASE StopWordDismiss  BY <1>7 DEF StopWordDismiss, Dismiss
<1>8. CASE Disconnect \/ Reconnect \/ Mute  BY <1>8 DEF Disconnect, Reconnect, Mute
<1> QED  BY <1>0, <1>1, <1>2, <1>3, <1>4, <1>5, <1>6, <1>7, <1>8 DEF Next

\* The runner, its callers and the deliveries implement the session: whatever
\* interleaving of tasks, dismissals, time-outs, disconnects and repeated events
\* happens, the queue only ever moves by apply, dismiss_current or dismiss_all.
THEOREM ImplementsSession == Spec => SessionSpec
<1>1. Init => SessionInit  BY DEF Init
<1> QED  BY <1>1, NextSession, PTL DEF Spec, SessionSpec

\* AlarmSession.apply's tombstones: once Home Assistant has cancelled a timer, no
\* late or repeated event puts it back into the countdown or the ringing queue.
THEOREM CancelledIsSilent == Spec => []CancelledStaysSilent
<1>1. Init => SessionInv  BY SessionStart DEF Init
<1>2. SessionInv /\ [Next]_vars => SessionInv'  BY NextSession, SessionStep
<1>3. SessionInv => CancelledStaysSilent  BY DEF SessionInv
<1> QED  BY <1>1, <1>2, <1>3, PTL DEF Spec

\* A timer is queued at most once, never while it rings, nothing waits behind
\* silence, and no timer both counts down and rings.
THEOREM QueueIsWellFormed == Spec => [](QueueWellFormed /\ RingingNotRunning)
<1>1. Init => SessionInv  BY SessionStart DEF Init
<1>2. SessionInv /\ [Next]_vars => SessionInv'  BY NextSession, SessionStep
<1>3. SessionInv => QueueWellFormed /\ RingingNotRunning  BY DEF SessionInv
<1> QED  BY <1>1, <1>2, <1>3, PTL DEF Spec

-----------------------------------------------------------------------------
(* The stop-word arm.  It belongs to a task that has announced its alarm and *)
(* has not yet gone through on_state(False): the points of the ring itself,  *)
(* and the resumption of the music before it.  A device that is gone has no  *)
(* arm, which is why an on_state(False) that finds it gone loses nothing.    *)

HoldsArm == RingPoints \cup {"resume"}

ArmInv ==
    /\ armed # None => \E k \in Tasks : tpc[k] \in HoldsArm
    /\ armed # None => present

\* stop() waits for a task, never for nothing.
WaitsForTask == \A h \in Handlers : hpc[h] \in {"flush", "wait"} => htask[h] \in Tasks

RunnerInv == TypeOK /\ WaitsForTask /\ ArmInv

\* start() files a task it has just created.
LEMMA StartKeeps ==
  ASSUME RunnerInv, Start
  PROVE  /\ tracked' \in Tasks \cup {None} /\ registered' \in Tasks \cup {None}
         /\ cancelSet' \in SUBSET Tasks /\ tpc' \in [Tasks -> TaskPoints]
         /\ heard' \in [Tasks -> Timers \cup {None}]
         /\ \A k \in Tasks : tpc[k] \in HoldsArm => tpc'[k] \in HoldsArm
<1> USE DEF RunnerInv, TypeOK
<1>1. CASE IsRunning  BY <1>1 DEF Start
<1>2. CASE ~IsRunning
  <2> PICK k \in Tasks : /\ tpc[k] = "off" /\ tracked' = k /\ registered' = k
                         /\ cancelSet' = cancelSet \ {k} /\ heard' = [heard EXCEPT ![k] = None]
                         /\ tpc' = [tpc EXCEPT ![k] = "created"]
    BY <1>2 DEF Start, To
  <2>1. "created" \in TaskPoints  BY DEF TaskPoints
  <2>2. "off" \notin HoldsArm  BY DEF HoldsArm, RingPoints
  <2> QED  BY <2>1, <2>2
<1> QED  BY <1>1, <1>2

\* stop() picks the task to wait for, or leaves at once.
LEMMA StopBeginsKeeps ==
  ASSUME RunnerInv, NEW h \in Handlers, StopBegins(h)
  PROVE  /\ cancelSet' \in SUBSET Tasks
         /\ hpc' \in [Handlers -> {"idle", "tapped", "flush", "wait", "stopped", "cleared"}]
         /\ htask' \in [Handlers -> Tasks \cup {None}]
         /\ WaitsForTask'
<1> USE DEF RunnerInv, TypeOK, WaitsForTask
<1>1. CASE IsRunning /\ registered # None
  <2>1. tracked \in Tasks /\ registered \in Tasks  BY <1>1 DEF IsRunning
  <2> QED  BY <1>1, <2>1 DEF StopBegins
<1>2. CASE IsRunning /\ registered = None  BY <1>2 DEF StopBegins
<1>3. CASE ~IsRunning  BY <1>3 DEF StopBegins
<1> QED  BY <1>1, <1>2, <1>3

\* A dismissal up to its first await.
LEMMA DismissKeeps ==
  ASSUME RunnerInv, NEW h \in Handlers, Dismiss(h)
  PROVE  /\ cancelSet' \in SUBSET Tasks
         /\ hpc' \in [Handlers -> {"idle", "tapped", "flush", "wait", "stopped", "cleared"}]
         /\ hfor' \in [Handlers -> {"dismiss", "gone"}]
         /\ htask' \in [Handlers -> Tasks \cup {None}]
         /\ WaitsForTask'
<1>1. CASE current # None
  <2>1. StopBegins(h) /\ hfor' = [hfor EXCEPT ![h] = "dismiss"]  BY <1>1 DEF Dismiss
  <2>2. hfor' \in [Handlers -> {"dismiss", "gone"}]  BY <2>1 DEF RunnerInv, TypeOK
  <2> QED  BY <2>1, <2>2, StopBeginsKeeps
<1>2. CASE current = None
  BY <1>2 DEF Dismiss, RunnerInv, TypeOK, WaitsForTask
<1> QED  BY <1>1, <1>2

\* One stretch of a ringing task.
LEMMA RunKeeps ==
  ASSUME RunnerInv, SessionTypeOK', NEW k \in Tasks, Run(k)
  PROVE  RunnerInv'
<1> USE DEF RunnerInv, TypeOK, WaitsForTask
<1>t. /\ {"created", "load", "bail", "opening", "arming", "playing", "gap", "notify", "resume",
          "closing", "done", "off"} \subseteq TaskPoints
      /\ HoldsArm = {"arming", "playing", "gap", "notify", "resume"}
  BY DEF TaskPoints, Dead, RingPoints, ClosingPoints, HoldsArm
<1> USE <1>t DEF To, device, handlers
<1>1. CASE RunBegins(k)
  <2>1. CASE present  BY <1>1, <2>1 DEF RunBegins, ArmInv, session
  <2>2. CASE ~present  BY <1>1, <2>2 DEF RunBegins, ArmInv, session
  <2> QED  BY <2>1, <2>2
<1>2. CASE SoundLoaded(k)
  <2>1. tpc' = [tpc EXCEPT ![k] = "opening"] \/ tpc' = [tpc EXCEPT ![k] = "bail"]
    BY <1>2 DEF SoundLoaded
  <2> QED  BY <1>2, <2>1 DEF SoundLoaded, ArmInv
<1>3. CASE Loop(k)
  <2>1. \/ tpc' = [tpc EXCEPT ![k] = "resume"] /\ UNCHANGED <<heard, armed>>
        \/ /\ tpc' = [tpc EXCEPT ![k] = "arming"] /\ armed' = None
           /\ heard' = [heard EXCEPT ![k] = current]
        \/ /\ tpc' = [tpc EXCEPT ![k] = "playing"] /\ armed' = armed
           /\ heard' = [heard EXCEPT ![k] = current] \/ heard' = heard
    BY <1>3 DEF Loop, LoopTop
  <2>2. current \in Timers \cup {None}  BY DEF SessionTypeOK
  <2>3. heard' \in [Tasks -> Timers \cup {None}] /\ tpc' \in [Tasks -> TaskPoints]
        /\ armed' \in Timers \cup {None} /\ (armed' # None => armed' = armed)
    BY <2>1, <2>2
  <2>4. \A j \in Tasks : tpc[j] \in HoldsArm => tpc'[j] \in HoldsArm  BY <2>1
  <2> QED  BY <1>3, <2>3, <2>4 DEF Loop, ArmInv
<1>4. CASE Arm(k)
  <2>1. armed' \in Timers \cup {None} /\ (armed' # None => present)
    BY <1>4 DEF Arm, ArmInv
  <2>2. tpc' \in [Tasks -> TaskPoints] /\ tpc'[k] \in HoldsArm  BY <1>4 DEF Arm
  <2> QED  BY <1>4, <2>1, <2>2 DEF Arm, ArmInv
<1>5. CASE BurstDone(k)
  <2>1. \/ tpc' = [tpc EXCEPT ![k] = "resume"]
        \/ tpc' = [tpc EXCEPT ![k] = "notify"]
        \/ tpc' = [tpc EXCEPT ![k] = "gap"]
    BY <1>5 DEF BurstDone, BurstTimesOut
  <2> QED  BY <1>5, <2>1 DEF BurstDone, ArmInv
<1>6. CASE RunEnds(k)
  <2>1. CASE tpc[k] = "resume"
    <3>1. tpc' = [tpc EXCEPT ![k] = "closing"] /\ armed' = None /\ registered' = registered
      BY <1>6, <2>1 DEF RunEnds, RunCloses, DisarmRing, ArmInv
    <3> QED  BY <1>6, <3>1 DEF RunEnds, ArmInv
  <2>2. CASE tpc[k] \in {"closing", "bail"}
    <3>1. /\ tpc' = [tpc EXCEPT ![k] = "done"] /\ armed' = armed
          /\ registered' \in {None, registered}
      BY <1>6, <2>2 DEF RunEnds, RunCloses
    <3> QED  BY <1>6, <2>2, <3>1 DEF RunEnds, ArmInv
  <2> QED  BY <1>6, <2>1, <2>2 DEF RunEnds, RunCloses
<1>7. CASE DoneCallback(k)
  BY <1>7 DEF DoneCallback, ArmInv
<1> QED  BY <1>1, <1>2, <1>3, <1>4, <1>5, <1>6, <1>7 DEF Run

\* One stretch of a dismissal or a disconnect that is under way.
LEMMA HandleKeeps ==
  ASSUME RunnerInv, SessionTypeOK', NEW h \in Handlers, Handle(h)
  PROVE  RunnerInv'
<1> USE DEF RunnerInv, TypeOK, WaitsForTask
<1>t. /\ {"created", "load", "bail", "opening", "arming", "playing", "gap", "notify", "resume",
          "closing", "done", "off"} = TaskPoints
      /\ HoldsArm = {"arming", "playing", "gap", "notify", "resume"}
  BY DEF TaskPoints, Dead, RingPoints, ClosingPoints, HoldsArm
<1> USE <1>t DEF To, device, handlers, runner
<1>1. CASE StopCancels(h)
  <2> DEFINE k == htask[h]
  <2>1. k \in Tasks  BY <1>1 DEF StopCancels
  <2>2. tpc' = [tpc EXCEPT ![k] = AfterCancel[tpc[k]]]  BY <1>1 DEF StopCancels
  <2>3. \A p \in TaskPoints :
           /\ AfterCancel[p] \in TaskPoints
           /\ p \in HoldsArm /\ p # "resume" => AfterCancel[p] = "resume"
    BY DEF AfterCancel, RingPoints, Dead
  <2>4. armed' \in {None, armed} /\ (tpc[k] = "resume" => armed' = None)
    BY <1>1, <2>1 DEF StopCancels, DisarmRing, ArmInv
  <2>5. registered' \in {None, registered}  BY <1>1 DEF StopCancels
  <2> HIDE DEF k
  <2>6. tpc' \in [Tasks -> TaskPoints]  BY <2>1, <2>2, <2>3
  <2>7. armed' # None => \A j \in Tasks : tpc[j] \in HoldsArm => tpc'[j] \in HoldsArm
    BY <2>1, <2>2, <2>3, <2>4
  <2>8. ArmInv'  BY <1>1, <2>4, <2>7 DEF StopCancels, ArmInv
  <2> QED  BY <1>1, <2>4, <2>5, <2>6, <2>8 DEF StopCancels
<1>2. CASE StopEnds(h)  BY <1>2 DEF StopEnds, ArmInv
<1>3. CASE DismissEnds(h)
  <2>1. CASE current # None
    <3>1. Start  BY <1>3, <2>1 DEF DismissEnds
    <3>2. ArmInv'  BY <1>3, <3>1, StartKeeps DEF DismissEnds, ArmInv
    <3> QED  BY <1>3, <3>1, <3>2, StartKeeps DEF DismissEnds
  <2>2. CASE current = None  BY <1>3, <2>2 DEF DismissEnds, ArmInv
  <2> QED  BY <2>1, <2>2
<1>4. CASE ClearSession(h)  BY <1>4 DEF ClearSession, ArmInv
<1>5. CASE DeviceGone(h)  BY <1>5 DEF DeviceGone, ArmInv
<1> QED  BY <1>1, <1>2, <1>3, <1>4, <1>5 DEF Handle

\* Every step keeps the runner, its handlers and its arm in order.
LEMMA RunnerStep == RunnerInv /\ SessionTypeOK' /\ [Next]_vars => RunnerInv'
<1> SUFFICES ASSUME RunnerInv, SessionTypeOK', [Next]_vars PROVE RunnerInv'  OBVIOUS
<1>0. CASE UNCHANGED vars
  BY <1>0 DEF vars, device, runner, handlers, RunnerInv, TypeOK, WaitsForTask, ArmInv
<1>1. ASSUME NEW k \in Tasks, Run(k) PROVE RunnerInv'  BY <1>1, RunKeeps
<1>2. ASSUME NEW h \in Handlers, Handle(h) PROVE RunnerInv'  BY <1>2, HandleKeeps
<1>3. ASSUME NEW h \in Handlers, CardDismiss(h) PROVE RunnerInv'
  <2>1. Dismiss(h) /\ UNCHANGED <<device, delivery, tracked, registered, tpc, heard, armed, misdirected>>
    BY <1>3 DEF CardDismiss
  <2> QED  BY <2>1, DismissKeeps DEF device, RunnerInv, TypeOK, ArmInv
<1>4. CASE ButtonDismiss
  <2>1. Dismiss(Control)
        /\ UNCHANGED <<device, delivery, tracked, registered, tpc, heard, armed, misdirected>>
    BY <1>4 DEF ButtonDismiss
  <2> QED  BY <2>1, DismissKeeps, ControlAssumption DEF device, RunnerInv, TypeOK, ArmInv
<1>5. CASE StopWordDismiss
  <2>1. /\ Dismiss(Control) /\ armed' = None /\ misdirected' \in BOOLEAN
        /\ UNCHANGED <<device, delivery, tracked, registered, tpc, heard>>
    BY <1>5 DEF StopWordDismiss, RunnerInv, TypeOK
  <2> QED  BY <2>1, DismissKeeps, ControlAssumption DEF device, RunnerInv, TypeOK, ArmInv
<1>6. CASE Disconnect
  <2>1. /\ StopBegins(Control) /\ hfor' = [hfor EXCEPT ![Control] = "gone"]
        /\ UNCHANGED <<device, delivery, tracked, registered, tpc, heard, armed, misdirected>>
    BY <1>6 DEF Disconnect
  <2>2. hfor' \in [Handlers -> {"dismiss", "gone"}]  BY <2>1 DEF RunnerInv, TypeOK
  <2> QED  BY <2>1, <2>2, StopBeginsKeeps, ControlAssumption DEF device, RunnerInv, TypeOK, ArmInv
<1>7. ASSUME NEW t \in Timers, NEW e \in Events, NEW v \in Variants, TimerEvent(t, e, v)
      PROVE  RunnerInv'
  <2>1. delivery' \in [Timers -> {"none", "forward", "recheck", "push"}] /\ events' \in Nat
    BY <1>7 DEF TimerEvent, RunnerInv, TypeOK
  <2> QED
    BY <1>7, <2>1 DEF TimerEvent, runner, handlers, RunnerInv, TypeOK, WaitsForTask, ArmInv
<1>8. ASSUME NEW t \in Timers, DeliverFinished(t) PROVE RunnerInv'
  <2>1. delivery' \in [Timers -> {"none", "forward", "recheck", "push"}]
    BY <1>8 DEF DeliverFinished, RunnerInv, TypeOK
  <2> QED
    BY <1>8, <2>1 DEF DeliverFinished, device, runner, handlers, RunnerInv, TypeOK, WaitsForTask, ArmInv
<1>9. ASSUME NEW t \in Timers, StartRinging(t) PROVE RunnerInv'
  <2>1. /\ delivery' \in [Timers -> {"none", "forward", "recheck", "push"}]
        /\ UNCHANGED <<device, armed, handlers, misdirected>>
    BY <1>9 DEF StartRinging, RunnerInv, TypeOK
  <2>2. CASE current # None
    <3>1. Start  BY <1>9, <2>2 DEF StartRinging
    <3>2. ArmInv'  BY <2>1, <3>1, StartKeeps DEF ArmInv, RunnerInv, device
    <3> QED  BY <2>1, <3>1, <3>2, StartKeeps DEF device, handlers, RunnerInv, TypeOK, WaitsForTask
  <2>3. CASE current = None
    BY <1>9, <2>1, <2>3 DEF StartRinging, device, handlers, RunnerInv, TypeOK, WaitsForTask, ArmInv
  <2> QED  BY <2>2, <2>3
<1>10. CASE ButtonTap
  BY <1>10, ControlAssumption DEF ButtonTap, device, runner, RunnerInv, TypeOK, WaitsForTask, ArmInv
<1>11. CASE Reconnect
  BY <1>11 DEF Reconnect, runner, handlers, RunnerInv, TypeOK, WaitsForTask, ArmInv
<1>12. CASE Mute
  BY <1>12 DEF Mute, runner, handlers, RunnerInv, TypeOK, WaitsForTask, ArmInv
<1> QED
  BY <1>0, <1>1, <1>2, <1>3, <1>4, <1>5, <1>6, <1>7, <1>8, <1>9, <1>10, <1>11, <1>12 DEF Next, Deliver

\* The inductive invariant holds at the start and in every step.
LEMMA RunnerAlways == Spec => [](SessionInv /\ RunnerInv)
<1>1. Init => SessionInv /\ RunnerInv
  <2> SUFFICES ASSUME Init PROVE SessionInv /\ RunnerInv  OBVIOUS
  <2>1. SessionInv  BY SessionStart DEF Init
  <2>2. TypeOK
    BY <2>1, BoundsAssumption DEF Init, SessionInv, TypeOK, TaskPoints, Dead
  <2> QED  BY <2>1, <2>2 DEF Init, RunnerInv, WaitsForTask, ArmInv
<1>2. SessionInv /\ RunnerInv /\ [Next]_vars => (SessionInv /\ RunnerInv)'
  <2>1. SessionInv /\ [Next]_vars => SessionInv'  BY NextSession, SessionStep
  <2>2. SessionInv' => SessionTypeOK'  BY DEF SessionInv
  <2> QED  BY <2>1, <2>2, RunnerStep
<1> QED  BY <1>1, <1>2, PTL DEF Spec

\* Type correctness of the runner, its callers and the session.
THEOREM TimerAlarmTypes == Spec => []TypeOK
<1>1. RunnerInv => TypeOK  BY DEF RunnerInv
<1> QED  BY <1>1, RunnerAlways, PTL

\* on_state(False) and the cancellation of the task at any of its awaits: the
\* stop-word arm of a ring never outlives the ringing tasks, however many
\* dismissals, time-outs and disconnects end them.
THEOREM ArmDies == Spec => []ArmDiesWithRing
<1>1. RunnerInv => ArmDiesWithRing
  BY DEF RunnerInv, ArmInv, ArmDiesWithRing, HoldsArm, RingPoints, Alive, Dead
<1> QED  BY <1>1, RunnerAlways, PTL

=============================================================================
