SPECIFICATION Spec
CONSTANTS
    Human = {a, b}
    Bot = {x}
    Nobody = nobody
    MinPlayers = 1
    MaxPlayers = 2
    DefaultMinPlayers = 2
    DefaultMaxPlayers = 3
    MaxMoves = 3
    MaxCrashes = 2
    MaxFailures = 1
SYMMETRY RecoverySymmetry
CHECK_DEADLOCK FALSE
INVARIANTS
    RecoveryTypeOK
    JoinedSurvives
    HumanMovesSurvive
    PlayableWhenIdle
    LostOnlyInsideHandlers
    RemovedStaysRemoved
    ListedWhenIdle
    RankedAreNamed
