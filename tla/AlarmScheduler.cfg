SPECIFICATION Spec
CONSTANTS
    Alarms = {a1, a2}
    None = None
    Day = 3
    At <- MCAt
    Recurrences <- MCTwoRecurrences
    Grace = 1
    MaxTime = 4
    MaxCrashes = 1
    MaxJumps = 1
    MaxFails = 1
    MaxChanges = 1
SYMMETRY Symmetry
INVARIANTS
    RingsWhenReady
    NextPastLast
    RingsOnce
