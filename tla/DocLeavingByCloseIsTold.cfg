SPECIFICATION Spec
CONSTANTS
    Client = {a, b}
    MinPlayers = 2
    MaxPlayers = 2
    MaxConnections = 3
    MaxWire = 1
    Nobody = nobody
SYMMETRY ClientSymmetry
CHECK_DEADLOCK FALSE
PROPERTY
    LeavingByCloseIsTold
