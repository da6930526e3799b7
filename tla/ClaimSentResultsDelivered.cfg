CONSTANTS
    move = move
    look = look
    Calls = {move, look}
    Physical = {move}
    MaxTurns = 2
    MaxMessages = 4
    MaxInbox = 2
SPECIFICATION SlowSpec
PROPERTIES SentResultsDelivered
CHECK_DEADLOCK FALSE
