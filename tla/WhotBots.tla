------------------------------ MODULE WhotBots ------------------------------
(***************************************************************************)
(* What a bot may decide: AIPlayer::decideAction with the strategies and   *)
(* the difficulty levels behind it.  A choice by chance is the set of what *)
(* may come out of it.  The hand is a set, so where the code takes the     *)
(* first of several equally good cards, any of them may be taken here.     *)
(***************************************************************************)
EXTENDS WhotCards, SequencesExt

Level    == {"EASY", "MEDIUM", "HARD"}
Strategy == {"Random", "Aggressive", "Defensive", "Balanced"}

StrategyOf(level) ==
    CASE level = "EASY"   -> "Random"
      [] level = "MEDIUM" -> "Balanced"
      [] level = "HARD"   -> "Aggressive"

MakesMistakes(level) == level \in {"EASY", "MEDIUM"}

EvaluateCardValue(c) ==
    CASE SpecialAbility(c) = "GENERAL_MARKET" -> 14
      [] SpecialAbility(c) = "HOLD_ON"        -> 10
      [] SpecialAbility(c) = "PICK_TWO"       -> 5
      [] SpecialAbility(c) = "WHOT_CARD"      -> 12
      [] c.value = 5                          -> 4
      [] OTHER                                -> c.value

\* DefensiveStrategy keeps its Whots and gets rid of its attacks.
DefensiveValue(c) ==
    CASE IsWhotCard(c)       -> 20
      [] c.value \in {2, 5}  -> -10
      [] OTHER               -> ScoreValue(c)

\* The cards of the highest value, and of the lowest.
Highest(value) == {c \in DOMAIN value : \A d \in DOMAIN value : value[d] =< value[c]}
Lowest(value)  == {c \in DOMAIN value : \A d \in DOMAIN value : value[c] =< value[d]}

\* selectCard of each strategy, with a hand of so many cards.
SelectCard(strategy, size, playable) ==
    CASE strategy = "Random"     -> playable
      [] strategy = "Aggressive" -> Highest([c \in playable |-> EvaluateCardValue(c)])
      [] strategy = "Defensive"  -> Lowest([c \in playable |-> DefensiveValue(c)])
      [] strategy = "Balanced"   -> IF size =< 3
                                      THEN Highest([c \in playable |-> EvaluateCardValue(c)])
                                      ELSE Lowest([c \in playable |-> ScoreValue(c)])

\* The order of core::Suit, in which countSuits' map is walked.
SuitOrder == <<"CIRCLE", "TRIANGLE", "CROSS", "BLOCK", "STAR", "WHOT">>

CountSuit(cards, s) == Cardinality({c \in cards : c.suit = s})

\* selectSuit: one of five by chance, or the first of the most frequent
\* suits of the whole hand, which may be that of the Whots.
SelectSuit(strategy, cards) ==
    IF strategy = "Random" THEN Suit \ {"WHOT"}
    ELSE {SuitOrder[i] : i \in {i \in 1..6 : \A j \in 1..6 :
             \/ CountSuit(cards, SuitOrder[j]) < CountSuit(cards, SuitOrder[i])
             \/ CountSuit(cards, SuitOrder[j]) = CountSuit(cards, SuitOrder[i]) /\ i =< j}}

\* Mutant: a bot with nothing to play tries its first card all the same.
PlaysAnything(cards, callCard) == cards

\* getPlayableCards: the demanded suit is not looked at.
BotPlayable(cards, callCard) ==
    {c \in cards : callCard # NoCard /\ CanPlayOn(c, callCard)}

\* The cards equal in number to an attack, which shouldDefend is asked about.
Defences(cards, callCard, pick) ==
    {c \in cards : pick > 0 /\ callCard # NoCard /\ c.value = callCard.value}

\* A play names the suit chosen with a Whot; a defence never does.
Plays(cards, suits) ==
    UNION {[type : {"PLAY_CARD"}, card : {c},
            suit : IF IsWhotCard(c) THEN suits ELSE {NoSuit}] : c \in cards}
Draws == [type |-> "DRAW_CARD", card |-> NoCard, suit |-> NoSuit]

\* The random strategy may decline to defend itself.
MayDecline(strategy) == strategy = "Random"

\* decideAction of a bot of this level and strategy.
Decisions(level, strategy, cards, callCard, pick) ==
    LET playable == BotPlayable(cards, callCard)
        defences == Defences(cards, callCard, pick)
        suits    == SelectSuit(strategy, cards)
    IN  IF playable # {}
          THEN Plays(SelectCard(strategy, Cardinality(cards), playable), suits)
                 \cup (IF MakesMistakes(level) THEN Plays(playable, suits) ELSE {})
        ELSE Plays(defences, {NoSuit})
               \cup (IF defences = {} \/ MayDecline(strategy) THEN {Draws} ELSE {})
=============================================================================
