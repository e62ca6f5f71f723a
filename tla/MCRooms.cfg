SPECIFICATION Spec
CONSTANTS
    Request = {r1, r2, r3}
    Code = {k}
    Bot = Bot
    None = None
    BotCounts = {0, 2}
    MinPlayers = 2
    MaxPlayers = 2
    MaxGames = 2
    MaxTries = 2
SYMMETRY Requests
CHECK_DEADLOCK FALSE
INVARIANTS
    RoomsTypeOK
    LimitsHold
    ActivityOfLiveGames
    CodesAreDistinct
    JoinedIsSeated
    RowsMatchGames
PROPERTIES
    StaleOnlyRemoved
