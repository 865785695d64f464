SPECIFICATION FairSpec
CONSTANTS
    Timers = {t1, t2}
    None = None
    Variants = {1}
    Handlers = {ctl, card}
    Control = ctl
    Tasks = {k1, k2}
    MaxMutes = 1
    MaxEvents = 2
INVARIANTS
    ArmDiesWithRing
    CancelledStaysSilent
PROPERTIES
    RingEnds
CHECK_DEADLOCK FALSE
