SPECIFICATION Spec
CONSTANTS
    Turns = {t1, t2}
    NoTurn = NoTurn
    MaxClock = 3
    MaxQueue = 2
    MaxFaults = 2
SYMMETRY Symmetry
INVARIANTS
    FreshArmsAccepted
    AcceptedArmWasCrossed
    NewerArmSurvives
PROPERTIES
    NoStopAfterDisarm
CHECK_DEADLOCK FALSE
