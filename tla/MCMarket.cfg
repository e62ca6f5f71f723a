SPECIFICATION Spec
CONSTANTS
    Player = {a, b, c}
    DeckCards <- MarketDeck
    MinPlayers = 2
    MaxPlayers = 3
    StartingCards = 1
    Declarations = {}
    SuitRequests = {"CIRCLE"}
    ReverseRequests = {TRUE, FALSE}
    MaxRounds = 1
SYMMETRY PlayerSymmetry
CHECK_DEADLOCK FALSE
INVARIANTS
    TypeOK
    OneOwner
    OnlySeatedHold
    CallCardIsDiscarded
    CallCardIsNotDealt
PROPERTIES
    CardsInCustody
