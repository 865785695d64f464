SPECIFICATION FairSpec
CONSTANTS
    Cmds = {c1}
    Owners = {o1}
    Urls = {u1, u2}
    Feeds = {f1, f2, f3}
    Sessions = {s1, s2}
    None = None
    MaxCmds = 3
    MaxTurns = 1
    MaxGone = 1
INVARIANTS LastCommandWins OneFeed SpeechIsAlone
PROPERTY OperationsEnd
CHECK_DEADLOCK FALSE
