CONSTANTS
    move = move
    look = look
    Calls = {move, look}
    Physical = {move}
    MaxTurns = 2
    MaxMessages = 4
    MaxInbox = 2
SPECIFICATION FairSpec
INVARIANTS  GatedCallsApproved  NoTurnInCompletedSession
PROPERTIES  CancelledTurnEnds SessionCloses TurnsEnd
CHECK_DEADLOCK FALSE
