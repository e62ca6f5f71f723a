----------------------------- MODULE WhotCards -----------------------------
(***************************************************************************)
(* The cards of the game and what the rules say of a pair of them: the     *)
(* 54-card template that Deck::createDeck builds, the ability and the      *)
(* score of a card, and the play and defence rules that GameEngine asks    *)
(* RuleEngine (which delegates to NigerianRules) about.  No state.         *)
(***************************************************************************)
EXTENDS Integers, FiniteSets, FiniteSetsExt

Suit == {"CIRCLE", "TRIANGLE", "CROSS", "BLOCK", "STAR", "WHOT"}

CardValue == {1, 2, 3, 4, 5, 7, 8, 10, 11, 12, 13, 14, 20}

\* The empty optionals: no suit is demanded, no call card is on the table.
NoSuit == "NO_SUIT"
NoCard == [suit |-> "NO_SUIT", value |-> 0]

(* A face is what Card::operator== compares: the suit and the value.       *)
Faces == [suit : Suit, value : CardValue]

Face(c) == [suit |-> c.suit, value |-> c.value]

SameFace(c, d) == c.suit = d.suit /\ c.value = d.value

-----------------------------------------------------------------------------
(* The template of a deck.  "copy" tells the five Whot cards apart.        *)

Suited(s, vs) == [suit : {s}, value : vs, copy : {1}]

CircleCards   == Suited("CIRCLE",   1..14 \ {6, 9})
TriangleCards == Suited("TRIANGLE", 1..14 \ {6, 9})
CrossCards    == Suited("CROSS",    1..14 \ {4, 6, 8, 9, 12})
BlockCards    == Suited("BLOCK",    1..14 \ {4, 6, 8, 9, 12})
StarCards     == Suited("STAR",     1..8 \ {6})

WHOT_CARDS_COUNT == 5
WhotCards     == [suit : {"WHOT"}, value : {20}, copy : 1..WHOT_CARDS_COUNT]

StandardDeck == CircleCards \cup TriangleCards \cup CrossCards
                  \cup BlockCards \cup StarCards \cup WhotCards

-----------------------------------------------------------------------------
(* Abilities.  FIVE and EIGHT have SpecialAbility::NONE in Card.cpp and    *)
(* are told by their value in GameEngine::executeSpecialCard.              *)

SpecialAbility(c) ==
    CASE c.value = 1  -> "HOLD_ON"
      [] c.value = 2  -> "PICK_TWO"
      [] c.value = 14 -> "GENERAL_MARKET"
      [] c.value = 20 -> "WHOT_CARD"
      [] OTHER        -> "NONE"

IsWhotCard(c) == SpecialAbility(c) = "WHOT_CARD"

IsStarCard(c) == c.suit = "STAR"

\* A star scores its inner value, twice the number printed on it.
ScoreValue(c) == IF IsStarCard(c) THEN 2 * c.value ELSE c.value

\* The points of a hand (a set of cards).
HandScore(cards) == MapThenSumSet(ScoreValue, cards)

-----------------------------------------------------------------------------
(* The rules.  callCard is a face or NoCard; demanded a suit or NoSuit.     *)

CanPlayOn(c, callCard) ==
    IsWhotCard(c) \/ c.suit = callCard.suit \/ c.value = callCard.value

RulesCanPlay(c, callCard, demanded) ==
    \/ IsWhotCard(c)
    \/ demanded # NoSuit /\ c.suit = demanded
    \/ demanded = NoSuit /\ CanPlayOn(c, callCard)

CanPlayCard(c, callCard, demanded) ==
    callCard # NoCard /\ RulesCanPlay(c, callCard, demanded)

\* Mutant: any pick card answers any other.
CrossDefence(attack, c) == attack.value \in {2, 5} /\ c.value \in {2, 5}

\* A 2 answers a 2 and a 5 answers a 5; nothing answers anything else.
CanDefendAgainstAttack(attack, c) ==
    attack.value \in {2, 5} /\ c.value = attack.value

HasPlayableCard(cards, callCard, demanded) ==
    callCard # NoCard /\ \E c \in cards : RulesCanPlay(c, callCard, demanded)

HasDefenseCard(cards, callCard, pick) ==
    /\ pick > 0
    /\ callCard # NoCard
    /\ \E c \in cards : CanDefendAgainstAttack(callCard, c)

\* A player draws when he has nothing to play - or, with an attack pending,
\* exactly when he has no defence, whatever else he could or could not play.
MustDrawCard(cards, callCard, demanded, pick) ==
    IF pick > 0 THEN ~HasDefenseCard(cards, callCard, pick)
                ELSE ~HasPlayableCard(cards, callCard, demanded)

\* Mutant: an attack costs one card.
DrawsOne(cards, callCard, pick) == 1

CalculateDrawCount(cards, callCard, pick) ==
    IF pick > 0 /\ ~HasDefenseCard(cards, callCard, pick) THEN pick ELSE 1
=============================================================================
