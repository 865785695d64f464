SPECIFICATION FairSpec
CONSTANTS
    Req = {r1, r2}
    None = None
    MaxConts = 1
    MaxChanges = 1
    MaxGiveUps = 1
INVARIANTS
    OneConversation
    AnsweredOnce
    MuteEndsRequestedTurn
PROPERTIES
    LockReleased
CHECK_DEADLOCK FALSE
