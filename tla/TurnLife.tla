------------------------------ MODULE TurnLife ------------------------------
(* What the turn engine promises of one device's turns: voice turns are held *)
(* one at a time; an outcome is recorded before the owner of the turn is     *)
(* told that it is over; what ended the turn first stays its cause, and is   *)
(* the outcome unless a handler of the engine writes its own; an outcome is  *)
(* written again only for a turn that is interrupted.  Every turn goes all   *)
(* the way unless something breaks: only with a mishap is it written again,  *)
(* closed untold, or left open for ever (src/controller/em_turn_engine.py).  *)
EXTENDS Naturals

CONSTANTS Turns,       \* all turns of the device
          Voice,       \* those that hold the microphone
          Outcomes,
          Forced,      \* outcomes a handler writes whatever ended the turn
          Interrupted, \* the outcome of a turn whose task was cancelled
          NoOutcome

VARIABLES phase, outcome, cause,
          mishaps      \* how often something broke

progress == <<phase, outcome>>
lifeVars == <<progress, cause, mishaps>>

LifeInit ==
    /\ phase = [t \in Turns |-> "none"]
    /\ outcome = [t \in Turns |-> NoOutcome] /\ cause = [t \in Turns |-> NoOutcome]
    /\ mishaps = 0

Broken == mishaps' > mishaps
Move(t, p) == phase' = [phase EXCEPT ![t] = p]
Ends(t) == outcome' = [outcome EXCEPT ![t] = NoOutcome]

\* a voice turn is opened when the one before it is closed, or lost for ever
Open(t) ==
    /\ phase[t] = "none"
    /\ t \in Voice => \A u \in Voice : phase[u] \in {"none", "closed", "stray"}
    /\ \/ Move(t, "open")
       \/ Move(t, "stray") /\ Broken
    /\ UNCHANGED outcome

Record(t) ==
    /\ phase[t] = "open"
    /\ \E o \in Outcomes :
          /\ outcome[t] # NoOutcome => o = Interrupted
          /\ cause[t] # NoOutcome => o \in {cause[t]} \cup Forced
          /\ outcome' = [outcome EXCEPT ![t] = o]
    /\ Move(t, "recorded")

Interrupt(t) ==
    /\ t \in Voice /\ phase[t] \in {"recorded", "told"} /\ Broken
    /\ Move(t, "open") /\ UNCHANGED outcome

Tell(t) == phase[t] = "recorded" /\ Move(t, "told") /\ UNCHANGED outcome

Close(t) == phase[t] = "told" /\ Move(t, "closed") /\ Ends(t)

Fail(t) ==
    /\ phase[t] \in {"open", "recorded", "told"} /\ Broken
    /\ \/ Move(t, "closed") /\ Ends(t)
       \/ Move(t, "stray") /\ UNCHANGED outcome

Elsewhere == UNCHANGED progress

\* the first cause stays until the turn is closed
Blamed == \A t \in Turns : cause'[t] = cause[t] \/ cause[t] = NoOutcome \/ phase'[t] = "closed"

LifeNext ==
    /\ Blamed /\ (mishaps' = mishaps \/ Broken)
    /\ \/ Elsewhere
       \/ \E t \in Turns :
             Open(t) \/ Record(t) \/ Interrupt(t) \/ Tell(t) \/ Close(t) \/ Fail(t)

LifeSpec ==
    /\ LifeInit /\ [][LifeNext]_lifeVars
    /\ \A t \in Turns : WF_progress(Record(t)) /\ WF_progress(Tell(t)) /\ WF_progress(Close(t))
=============================================================================
