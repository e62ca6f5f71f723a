----------------------------- MODULE WhotEngine -----------------------------
(***************************************************************************)
(* One game: GameState (seats, turn, piles, pending attack, demanded suit) *)
(* together with the GameEngine, TurnManager, Deck, Hand and Player        *)
(* operations that change it.                                              *)
(*                                                                         *)
(* A card is an object, not only a face: the deck is rebuilt from the      *)
(* template at the start of every round, so "gen", the round in which the  *)
(* object was made, tells the objects of two rounds apart.  The deck is a  *)
(* set: it is shuffled whenever it is filled, so a draw takes any of it.   *)
(*                                                                         *)
(* The driver is Application: a request is served only between handlers,   *)
(* and the transient phases STARTING and ROUND_ENDED are left by           *)
(* startNewRound inside the handler that entered them.  Nobody ever leaves *)
(* PlayerStatus::ACTIVE (nothing in the server calls eliminatePlayers or   *)
(* setStatus), so the active players are the seated ones.                  *)
(***************************************************************************)
EXTENDS WhotCards, Sequences

CONSTANTS
    Player,          \* player ids
    DeckCards,       \* the template of a deck: StandardDeck, or a part of it
    MinPlayers,      \* GameConfig::minPlayers
    MaxPlayers,      \* GameConfig::maxPlayers
    StartingCards,   \* GameConfig::startingCards
    Declarations,    \* the declarations players make
    SuitRequests,    \* the suits players ask for
    ReverseRequests, \* {FALSE}: no CHOOSE_SUIT carries a direction
    MaxRounds        \* bound: rounds that are started

ASSUME EngineAssumption ==
    /\ DeckCards \subseteq StandardDeck /\ IsFiniteSet(DeckCards)
    /\ MinPlayers \in Nat
    /\ MaxPlayers \in Nat
    /\ StartingCards \in Nat
    /\ Declarations \subseteq {"DECLARE_LAST_CARD", "DECLARE_CHECK_UP"}
    /\ SuitRequests \subseteq Suit
    /\ ReverseRequests \subseteq BOOLEAN
    /\ MaxRounds \in Nat

VARIABLES
    phase,        \* GameState::phase_
    creator,      \* GameState::creatorPlayerId_, as the set of at most one id
    seats,        \* GameState::players_
    turn,         \* GameState::currentPlayerIndex_, counted from 0
    direction,    \* GameState::direction_
    deck,         \* GameState::deck_
    discard,      \* GameState::discardPile_
    callCard,     \* GameState::callCard_
    pickCount,    \* GameState::activePickCount_
    demanded,     \* GameState::demandedSuit_
    multi,        \* TurnManager::allowMultipleActions_
    hand,         \* Player::hand_
    declared,     \* Player::saidLastCard_ and saidCheckUp_
    score,        \* Player::cumulativeScore_ (currentScore_ always equals it)
    gamesPlayed,  \* Player::gamesPlayed_
    gamesWon,     \* Player::gamesWon_
    round         \* the rounds started so far; no counterpart in the code

table  == <<turn, direction, pickCount, demanded, multi>>
piles  == <<deck, discard, callCard, hand>>
tally  == <<score, gamesPlayed, gamesWon>>
vars   == <<phase, creator, seats, table, piles, declared, tally, round>>

-----------------------------------------------------------------------------

Phases == {"LOBBY", "STARTING", "IN_PROGRESS", "ROUND_ENDED"}

\* Every card object there can be.
CardObject == [suit : Suit, value : CardValue, copy : Nat, gen : Nat]

\* Mutant: the objects of the last round are dealt again.
SameDeckAgain(g) ==
    {[suit |-> d.suit, value |-> d.value, copy |-> d.copy, gen |-> 1] : d \in DeckCards}

\* Deck::reset: the objects a new round's deck is made of.
NewDeck(g) == {[suit |-> d.suit, value |-> d.value, copy |-> d.copy, gen |-> g] :
                  d \in DeckCards}

Seated == {seats[i] : i \in 1..Len(seats)}

SeatOf(p) == CHOOSE i \in 1..Len(seats) : seats[i] = p

\* removePlayer closes the gap.
Without(s, i) == SubSeq(s, 1, i - 1) \o SubSeq(s, i + 1, Len(s))

\* getCurrentPlayer: nobody when the index has fallen off the end.
IsCurrent(p) == turn < Len(seats) /\ seats[turn + 1] = p

\* Mutant: no wrap-around below the first seat.
NoWrapBelow(i) ==
    LET n == Len(seats)
    IN  IF n = 0 THEN i
        ELSE IF direction = "CLOCKWISE" THEN (i + 1 + n) % n ELSE i - 1

\* getNextPlayerIndex, and advanceTurn which leaves the index of an empty
\* table alone.
NextIndex(i) ==
    LET n == Len(seats)
    IN  IF n = 0 THEN i
        ELSE IF direction = "CLOCKWISE" THEN (i + 1 + n) % n
                                        ELSE (i - 1 + n) % n

\* Requests are served between handlers.
Accepting == phase \in {"LOBBY", "IN_PROGRESS"}

AtMost(m, n) == IF m =< n THEN m ELSE n

-----------------------------------------------------------------------------
(* Piles.                                                                  *)

\* Mutant: the pile is turned over while the deck still has cards.
ReshuffleAnyway(dk, pile) == pile # {}

NeedsReshuffle(dk, pile) == dk = {} /\ pile # {}

\* Mutant: the call card is not left behind.
ReshuffledWithCall(pile, call) == pile

\* reshuffleFromDiscardPile: every discard that equals the call card is
\* left behind (and destroyed), the rest becomes the deck.
Reshuffled(pile, call) == {c \in pile : ~SameFace(c, call)}

(* The ways to hand out cards of a pile, share[p] of them to player p.     *)
Handouts(pile, share) ==
    {got \in [Player -> UNION {kSubset(share[p], pile) : p \in Player}] :
        /\ \A p \in Player : Cardinality(got[p]) = share[p]
        /\ \A p, q \in Player : p # q => got[p] \cap got[q] = {}}

\* Mutant: a draw looks at the top card and leaves it on the deck.
PeekedAt(got) == {}

AllOf(got) == UNION {got[p] : p \in Player}

\* Mutant: every known player is dealt to, seated or not.
DealToEveryone == [p \in Player |-> StartingCards]

\* Mutant: the last seats get a card less.
DealOneShort ==
    LET n == Len(seats)
        total == AtMost(StartingCards * n, Cardinality(DeckCards))
    IN  [p \in Player |-> IF p \in Seated THEN (total - SeatOf(p)) \div n ELSE 0]

\* Dealing goes round the table StartingCards times or until the deck ends.
DealShare ==
    LET n == Len(seats)
        total == AtMost(StartingCards * n, Cardinality(DeckCards))
    IN  [p \in Player |->
            IF p \in Seated THEN (total + n - SeatOf(p)) \div n ELSE 0]

-----------------------------------------------------------------------------
(* The lobby: joining, leaving and starting.                               *)

Init ==
    /\ phase = "LOBBY" /\ creator = {} /\ seats = << >>
    /\ turn = 0 /\ direction = "CLOCKWISE" /\ pickCount = 0
    /\ demanded = NoSuit /\ multi = FALSE
    /\ deck = {} /\ discard = {} /\ callCard = NoCard
    /\ hand = [p \in Player |-> {}]
    /\ declared = {}
    /\ score = [p \in Player |-> 0]
    /\ gamesPlayed = [p \in Player |-> 0]
    /\ gamesWon = [p \in Player |-> 0]
    /\ round = 0

\* Application::joinGame's checks.
MayJoin(p) == phase = "LOBBY" /\ p \notin Seated /\ Len(seats) < MaxPlayers

AddPlayer(p) ==
    /\ MayJoin(p)
    /\ creator' = IF seats = << >> THEN {p} ELSE creator
    /\ seats' = Append(seats, p)
    /\ UNCHANGED <<phase, table, piles, declared, tally, round>>

\* The player object goes, with its hand, its flags and its tallies; the
\* index of the current player, the creator and the rest of the table stay.
RemovePlayer(p) ==
    /\ Accepting
    /\ \E i \in 1..Len(seats) :
          /\ seats[i] = p
          /\ seats' = Without(seats, i)
    /\ hand' = [hand EXCEPT ![p] = {}]
    /\ declared' = {d \in declared : d[1] # p}
    /\ score' = [score EXCEPT ![p] = 0]
    /\ gamesPlayed' = [gamesPlayed EXCEPT ![p] = 0]
    /\ gamesWon' = [gamesWon EXCEPT ![p] = 0]
    /\ UNCHANGED <<phase, creator, table, deck, discard, callCard, round>>

\* Application::handleStartGame's checks.
MayStart(p) ==
    phase = "LOBBY" /\ p \in creator /\ Len(seats) >= MinPlayers

StartGame(p) ==
    /\ MayStart(p)
    /\ phase' = "STARTING"
    /\ turn' = 0 /\ direction' = "CLOCKWISE" /\ pickCount' = 0
    /\ demanded' = NoSuit
    /\ deck' = {} /\ discard' = {} /\ callCard' = NoCard
    /\ UNCHANGED <<creator, seats, multi, hand, declared, tally, round>>

\* startNewRound: the piles are new, the hands are not emptied first and the
\* multiple-actions flag is left as it was.
StartNewRound ==
    /\ phase \in {"STARTING", "ROUND_ENDED"}
    /\ round < MaxRounds
    /\ round' = round + 1
    /\ phase' = "IN_PROGRESS"
    /\ turn' = 0 /\ direction' = "CLOCKWISE" /\ pickCount' = 0
    /\ demanded' = NoSuit
    /\ declared' = {d \in declared : d[1] \notin Seated}
    /\ discard' = {}
    /\ \E got \in Handouts(NewDeck(round'), DealShare) :
          LET rest == NewDeck(round') \ AllOf(got)
          IN  /\ hand' = [p \in Player |-> hand[p] \cup got[p]]
              /\ \/ rest = {} /\ deck' = {} /\ callCard' = NoCard
                 \/ \E c \in rest : deck' = rest \ {c} /\ callCard' = Face(c)
    /\ UNCHANGED <<creator, seats, multi, tally>>

-----------------------------------------------------------------------------
(* Playing a card.                                                         *)

EmptyHanded == {i \in 1..Len(seats) : hand'[seats[i]] = {}}

\* The others draw one each, in seat order, the discard pile becoming the
\* deck if it runs out; who comes after the last card draws none.
GeneralMarket(p, c) ==
    LET n     == Len(seats) - 1
        k     == Cardinality(deck)
        again == n > k
        fresh == IF again THEN Reshuffled(discard \cup {c}, c) ELSE {}
        Place(q) == IF SeatOf(p) < SeatOf(q) THEN SeatOf(q) - 1 ELSE SeatOf(q)
        Served(places) == [q \in Player |->
            IF q \in Seated \ {p} /\ Place(q) \in places THEN 1 ELSE 0]
    IN  \E got \in Handouts(deck, Served(1..k)),
           more \in Handouts(fresh, Served(k + 1..k + Cardinality(fresh))) :
          /\ hand' = [q \in Player |->
                         (hand[q] \ {c}) \cup got[q] \cup more[q]]
          /\ deck' = (deck \cup fresh) \ (AllOf(got) \cup AllOf(more))
          /\ discard' = IF again THEN {} ELSE discard \cup {c}

\* Mutant: a Whot leaves the call card as it was.
WhotIsNoCallCard(p, c) ==
    /\ callCard' = IF IsWhotCard(c) THEN callCard ELSE Face(c)
    /\ demanded' = NoSuit
    /\ \/ SpecialAbility(c) = "GENERAL_MARKET" /\ GeneralMarket(p, c)
       \/ /\ SpecialAbility(c) # "GENERAL_MARKET"
          /\ hand' = [hand EXCEPT ![p] = @ \ {c}]
          /\ discard' = discard \cup {c}
          /\ UNCHANGED deck

\* The card leaves the hand, is the call card, and - unless a general market
\* turns the discard pile over - lies on the discard pile.
PutDown(p, c) ==
    /\ callCard' = Face(c)
    /\ demanded' = NoSuit
    /\ \/ SpecialAbility(c) = "GENERAL_MARKET" /\ GeneralMarket(p, c)
       \/ /\ SpecialAbility(c) # "GENERAL_MARKET"
          /\ hand' = [hand EXCEPT ![p] = @ \ {c}]
          /\ discard' = discard \cup {c}
          /\ UNCHANGED deck

PickAdded(c) ==
    CASE SpecialAbility(c) = "PICK_TWO" -> 2
      [] c.value = 5                    -> 3
      [] OTHER                          -> 0

\* skipNextPlayer, for a Hold On and for an Eight.
IndexAfterAbility(c) ==
    IF SpecialAbility(c) = "HOLD_ON" \/ c.value = 8 THEN NextIndex(turn) ELSE turn

MayPlayAgain(c) == multi \/ SpecialAbility(c) = "HOLD_ON"

\* getWinnerId: the first seat with an empty hand.
WinnerSeat(s) == s \in EmptyHanded /\ \A i \in EmptyHanded : s =< i

\* Mutant: the winner's round is not counted as played.
WinnerDidNotPlay ==
    /\ EmptyHanded # {}
    /\ phase' = "ROUND_ENDED"
    /\ \E s \in EmptyHanded :
          /\ WinnerSeat(s)
          /\ gamesWon' = [gamesWon EXCEPT ![seats[s]] = @ + 1]
          /\ gamesPlayed' = [p \in Player |->
                IF p \in Seated \ {seats[s]} THEN gamesPlayed[p] + 1
                                            ELSE gamesPlayed[p]]
    /\ UNCHANGED score

\* Mutant: the round is given to everybody who is scored.
EverybodyWins ==
    /\ EmptyHanded # {}
    /\ phase' = "ROUND_ENDED"
    /\ gamesWon' = [p \in Player |->
          IF p \in Seated THEN gamesWon[p] + 1 ELSE gamesWon[p]]
    /\ gamesPlayed' = [p \in Player |->
          IF p \in Seated THEN gamesPlayed[p] + 1 ELSE gamesPlayed[p]]
    /\ UNCHANGED score

EndRound ==
    /\ EmptyHanded # {}
    /\ phase' = "ROUND_ENDED"
    /\ \E s \in EmptyHanded :
          /\ WinnerSeat(s)
          /\ gamesWon' = [gamesWon EXCEPT ![seats[s]] = @ + 1]
    /\ score' = [p \in Player |->
          IF p \in Seated THEN score[p] + HandScore(hand'[p]) ELSE score[p]]
    /\ gamesPlayed' = [p \in Player |->
          IF p \in Seated THEN gamesPlayed[p] + 1 ELSE gamesPlayed[p]]

PlayCard(p, c) ==
    /\ Accepting
    /\ IsCurrent(p)
    /\ c \in hand[p]
    /\ CanPlayCard(c, callCard, demanded)
    /\ PutDown(p, c)
    /\ pickCount' = pickCount + PickAdded(c)
    /\ \/ /\ EndRound
          /\ turn' = IndexAfterAbility(c)
          /\ multi' = MayPlayAgain(c)
       \/ /\ EmptyHanded = {} /\ MayPlayAgain(c)
          /\ turn' = IndexAfterAbility(c)
          /\ multi' = TRUE
          /\ UNCHANGED <<phase, tally>>
       \/ /\ EmptyHanded = {} /\ ~MayPlayAgain(c)
          /\ turn' = NextIndex(IndexAfterAbility(c))
          /\ multi' = FALSE
          /\ UNCHANGED <<phase, tally>>
    /\ UNCHANGED <<creator, seats, direction, declared, round>>

-----------------------------------------------------------------------------
(* The other requests of the current player.                               *)

\* The pile is turned over at most once, before the first card is taken.
DrawCard(p) ==
    LET again == NeedsReshuffle(deck, discard) /\ callCard # NoCard
        pile  == IF again THEN Reshuffled(discard, callCard) ELSE deck
        count == AtMost(CalculateDrawCount(hand[p], callCard, pickCount),
                        Cardinality(pile))
    IN  /\ Accepting
        /\ IsCurrent(p)
        /\ MustDrawCard(hand[p], callCard, demanded, pickCount)
        /\ \E drawn \in kSubset(count, pile) :
              /\ hand' = [hand EXCEPT ![p] = @ \cup drawn]
              /\ deck' = pile \ drawn
        /\ discard' = IF again THEN {} ELSE discard
        /\ pickCount' = 0
        /\ multi' = FALSE
        /\ turn' = NextIndex(turn)
        /\ UNCHANGED <<phase, creator, seats, direction, callCard, demanded,
                       declared, tally, round>>

Declare(p, d) ==
    /\ Accepting
    /\ IsCurrent(p)
    /\ declared' = declared \cup {<<p, d>>}
    /\ UNCHANGED <<phase, creator, seats, table, piles, tally, round>>

Reversed == IF direction = "CLOCKWISE" THEN "COUNTER_CLOCKWISE" ELSE "CLOCKWISE"

\* Whatever the call card is, and without giving up the turn.
ChooseSuit(p, s, reverse) ==
    /\ Accepting
    /\ IsCurrent(p)
    /\ demanded' = s
    /\ direction' = IF reverse THEN Reversed ELSE direction
    /\ UNCHANGED <<phase, creator, seats, turn, pickCount, multi, piles,
                   declared, tally, round>>

-----------------------------------------------------------------------------

Next ==
    \/ StartNewRound
    \/ \E p \in Player :
          \/ AddPlayer(p)
          \/ RemovePlayer(p)
          \/ StartGame(p)
          \/ \E c \in hand[p] : PlayCard(p, c)
          \/ DrawCard(p)
          \/ \E d \in Declarations : Declare(p, d)
          \/ \E s \in SuitRequests, r \in ReverseRequests : ChooseSuit(p, s, r)

Spec == Init /\ [][Next]_vars

-----------------------------------------------------------------------------
(* Types.                                                                  *)

(* Every variable has its type: a card is an object of CardObject, the     *)
(* call card a face or nothing, a seat a player, the index a number that   *)
(* need not be a seat's.  The points are only said to be kept per player.  *)
TypeOK ==
    /\ phase \in Phases
    /\ creator \subseteq Player
    /\ seats \in Seq(Player)
    /\ turn \in Nat
    /\ direction \in {"CLOCKWISE", "COUNTER_CLOCKWISE"}
    /\ deck \subseteq CardObject
    /\ discard \subseteq CardObject
    /\ callCard \in Faces \cup {NoCard}
    /\ pickCount \in Nat
    /\ demanded \in Suit \cup {NoSuit}
    /\ multi \in BOOLEAN
    /\ hand \in [Player -> SUBSET CardObject]
    /\ declared \subseteq Player \X {"DECLARE_LAST_CARD", "DECLARE_CHECK_UP"}
    /\ DOMAIN score = Player
    /\ gamesPlayed \in [Player -> Nat]
    /\ gamesWon \in [Player -> Nat]
    /\ round \in Nat

-----------------------------------------------------------------------------
(* Who holds a card.                                                       *)

(* No card object is in two places: not in two hands, and not in a hand    *)
(* and a pile or in both piles, however often cards are drawn, played,     *)
(* handed out by a general market, reshuffled or left over from an earlier *)
(* round (Deck::draw, Hand::playCard, reshuffleFromDiscardPile move them). *)
OneOwner ==
    /\ deck \cap discard = {}
    /\ \A p \in Player : hand[p] \cap (deck \cup discard) = {}
    /\ \A p, q \in Player : p # q => hand[p] \cap hand[q] = {}

(* Nobody sits twice at a table: joinGame looks for the player first.      *)
OneSeatEach ==
    \A i, j \in 1..Len(seats) : seats[i] = seats[j] => i = j

(* A card object exists only from the round on in which it was made.       *)
BornByNow ==
    \A c \in deck \cup discard \cup UNION {hand[p] : p \in Player} : c.gen =< round

(* Whoever has no seat has no card: a player's cards go with him, and a    *)
(* deal reaches seated players only.                                       *)
OnlySeatedHold == \A p \in Player : hand[p] # {} => p \in Seated

(* While anything lies on the discard pile, the call card is the face of a *)
(* card that lies there: what players must match is a card on the table,   *)
(* although callCard_ and discardPile_ are set in separate calls.          *)
CallCardIsDiscarded ==
    discard # {} => \E c \in discard : SameFace(c, callCard)

(* In the first round, the face to match (unless it is a Whot, of which    *)
(* there are several) is in nobody's hand and not in the deck: the card is *)
(* on the table or was destroyed by the reshuffle, never dealt again.      *)
CallCardIsNotDealt ==
    (round = 1 /\ callCard # NoCard /\ callCard.value # 20) =>
        \A c \in deck \cup UNION {hand[p] : p \in Player} : ~SameFace(c, callCard)

-----------------------------------------------------------------------------
(* Rounds.                                                                 *)

(* A round in progress has nobody out of cards; a round that has ended has *)
(* exactly one seat out of cards, the winner's: getWinnerId, which takes   *)
(* the first empty hand, has only one to choose from.  (For a deck that    *)
(* has a card for every player.)                                           *)
OneWinner ==
    LET out == {p \in Seated : hand[p] = {}}
    IN  /\ phase = "IN_PROGRESS" => out = {}
        /\ phase = "ROUND_ENDED" => Cardinality(out) = 1

RoundsEnded == IF phase = "IN_PROGRESS" THEN round - 1 ELSE round

(* Every player at the table has been scored once for every round that has *)
(* ended, whoever left meanwhile.                                          *)
ScoredOncePerRound == \A p \in Seated : gamesPlayed[p] = RoundsEnded

(* The phase and the number of rounds agree, there is nothing to play on   *)
(* before the first round, and nobody without a seat has a score.          *)
BooksOpen ==
    /\ phase \in {"LOBBY", "STARTING"} => round = 0 /\ callCard = NoCard
    /\ phase \in {"IN_PROGRESS", "ROUND_ENDED"} => round > 0
    /\ \A p \in Player \ Seated : gamesPlayed[p] = 0

(* No round has two winners on the books, and while nobody has left, every *)
(* round that has ended has one.                                           *)
WinsAddUp ==
    LET wins == MapThenSumSet(LAMBDA p : gamesWon[p], Player)
    IN  /\ wins =< RoundsEnded
        /\ Seated = Player => wins = RoundsEnded

-----------------------------------------------------------------------------
(* Turns.                                                                  *)

(* The player whose turn it is has a move as long as no suit is demanded:  *)
(* a card that the engine accepts, or a draw that it accepts.  Under an    *)
(* attack that needs every card that forbids the draw (a defence) to be    *)
(* playable on the card that made the attack.                              *)
TurnHasMove ==
    \A p \in Player :
        (phase = "IN_PROGRESS" /\ IsCurrent(p) /\ demanded = NoSuit) =>
            \/ \E c \in hand[p] : CanPlayCard(c, callCard, demanded)
            \/ MustDrawCard(hand[p], callCard, demanded, pickCount)

(* A pending attack ends in one of two ways: with the round, or with the   *)
(* player whose turn it was taking the cards - all that are owed, or all   *)
(* that are left in the deck.                                              *)
AttackIsPaid ==
    [][ (pickCount > 0 /\ pickCount' = 0 /\ round' = round) =>
          \E p \in Player :
             /\ IsCurrent(p)
             /\ \/ Cardinality(hand'[p]) = Cardinality(hand[p]) + pickCount
                \/ deck' = {} ]_vars

-----------------------------------------------------------------------------
(* Where every card object is: the refinement mapping to CardCustody.      *)

Made(g) == g =< round

PlaceOf(c) ==
    CASE c \in deck    -> [at |-> "deck",    of |-> {}]
      [] c \in discard -> [at |-> "discard", of |-> {}]
      [] \E p \in Player : c \in hand[p] ->
            [at |-> "hand", of |-> {p \in Player : c \in hand[p]}]
      [] OTHER -> [at |-> IF Made(c.gen) THEN "lost" ELSE "unmade", of |-> {}]

Batches == {NewDeck(g) : g \in 1..MaxRounds}

Custody == INSTANCE CardCustody
             WITH place <- [c \in UNION Batches |-> PlaceOf(c)]

(* Cards move only as CardCustody lets them: a request takes at most one   *)
(* card out of one hand, its sender's; the discard pile is turned over     *)
(* whole, and only when the deck is used up; a card that was lost - the    *)
(* first call card, one dropped by a reshuffle, a leaver's, one left in    *)
(* the piles of a finished round - never shows up again.                   *)
CardsInCustody == Custody!Spec

=============================================================================
