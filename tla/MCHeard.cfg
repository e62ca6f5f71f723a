SPECIFICATION FairSpec
CONSTANTS
    Client = {a}
    MinPlayers = 1
    MaxPlayers = 2
    MaxConnections = 3
    MaxWire = 1
    Nobody = nobody
CHECK_DEADLOCK FALSE
PROPERTY
    HeardIfPunctual
