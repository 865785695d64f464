SPECIFICATION FairSpec
CONSTANTS
    Alarms = {a1}
    None = None
    Day = 3
    At <- MCAt
    Recurrences <- MCRecurrences
    Grace = 1
    MaxTime = 5
    MaxCrashes = 1
    MaxJumps = 1
    MaxFails = 1
    MaxChanges = 1
PROPERTIES
    DueAdvances
