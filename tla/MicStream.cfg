CONSTANTS
    Streams = {s1, s2}
    Conns = {c1, c2}
    None = None
    MaxInbox = 2
    MaxEvents = 2
SPECIFICATION FairSpec
INVARIANTS StopChannelClosedOnce
PROPERTIES DeadlineEndsItsTurn SilentGrantEnds
CHECK_DEADLOCK FALSE
