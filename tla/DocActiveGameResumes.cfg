SPECIFICATION Spec
CONSTANTS
    Human = {a, b}
    Bot = {x}
    Nobody = nobody
    MinPlayers = 2
    MaxPlayers = 2
    DefaultMinPlayers = 2
    DefaultMaxPlayers = 3
    MaxMoves = 3
    MaxCrashes = 2
    MaxFailures = 0
SYMMETRY RecoverySymmetry
CHECK_DEADLOCK FALSE
INVARIANT
    AnyActiveGameResumes
