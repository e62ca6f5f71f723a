SPECIFICATION TableSpec
CONSTANTS
    Player = {a, x}
    Bot = {x}
    DeckCards <- AttackDeck
    MinPlayers = 2
    MaxPlayers = 2
    StartingCards = 1
    Declarations = {"DECLARE_LAST_CARD"}
    SuitRequests = {"CROSS"}
    ReverseRequests = {FALSE}
    MaxRounds = 2
    MaxBotMoves = 3
CHECK_DEADLOCK FALSE
INVARIANT
    NoBotWaits
