SPECIFICATION Spec
CONSTANTS
    Player = {a, b}
    DeckCards <- RoundsDeck
    MinPlayers = 2
    MaxPlayers = 2
    StartingCards = 1
    Declarations = {}
    SuitRequests = {}
    ReverseRequests = {FALSE}
    MaxRounds = 3
SYMMETRY PlayerSymmetry
CHECK_DEADLOCK FALSE
INVARIANTS
    OneWinner
    ScoredOncePerRound
    WinsAddUp
PROPERTIES
    CardsInCustody
