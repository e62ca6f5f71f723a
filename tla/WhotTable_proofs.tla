-------------------------- MODULE WhotTable_proofs --------------------------
(***************************************************************************)
(* Theorems about the handlers and the bots, for every table, every part   *)
(* of the standard deck and every limit of the loop.                       *)
(***************************************************************************)
EXTENDS WhotTable, WhotRounds_proofs

-----------------------------------------------------------------------------
(* A handler is made of the engine's operations.                           *)

(* Every step of a handler is an operation of the engine, or none.         *)
LEMMA HandlersUseTheEngine == [TableNext]_tableVars => [Next]_vars
<1> SUFFICES ASSUME [TableNext]_tableVars PROVE [Next]_vars
  OBVIOUS
<1>1. CASE \E p \in Player : Join(p) \/ Leave(p) \/ Start(p)
  BY <1>1 DEF Join, Leave, Start, Next
<1>2. CASE \E p \in Player : Move(p)
  BY <1>2 DEF Move, Next
<1>3. CASE HandOver
  BY <1>3 DEF HandOver, Next
<1>4. ASSUME NEW b \in Bot, BotMove(b) PROVE Next
  <2>1. b \in Player
    BY TableAssumption
  <2>2. PICK d \in Chosen(b) : PlayCard(b, d.card) \/ DrawCard(b)
    BY <1>4 DEF BotMove
  <2>3. PlayCard(b, d.card) => d.card \in hand[b]
    BY DEF PlayCard
  <2> QED
    BY <2>1, <2>2, <2>3 DEF Next
<1>5. CASE StopBots \/ \E b \in Bot : BotRefused(b)
  BY <1>5 DEF StopBots, BotRefused
<1>6. CASE UNCHANGED tableVars
  BY <1>6 DEF tableVars
<1> QED
  BY <1>1, <1>2, <1>3, <1>4, <1>5, <1>6 DEF TableNext, Request, HandlerStep

(* The handlers implement the engine's specification: whatever holds of    *)
(* every game that runs request by request holds with the hand-over to the *)
(* next round and the bots run inside the requests.                        *)
THEOREM HandlersImplementEngine == TableSpec => Spec
<1>1. TableInit => Init
  BY DEF TableInit
<1> QED
  BY <1>1, HandlersUseTheEngine, PTL DEF TableSpec, Spec

(* So the bots, too, deal with cards that have one owner.                  *)
THEOREM BotsKeepOneOwner == TableSpec => []OneOwner
BY HandlersImplementEngine, EveryCardHasOneOwner, PTL

(* And they, too, pay for an attack.                                       *)
THEOREM BotsPayAttacks == TableSpec => AttackIsPaid
BY HandlersImplementEngine, EveryAttackIsPaid, PTL

-----------------------------------------------------------------------------
(* What the bots decide.                                                   *)

(* Every strategy selects one of the cards it is given.                    *)
LEMMA SelectedFromPlayable ==
    ASSUME NEW strategy \in Strategy, NEW size, NEW playable
    PROVE  SelectCard(strategy, size, playable) \subseteq playable
<1>1. ASSUME NEW value PROVE Highest(value) \subseteq DOMAIN value
                             /\ Lowest(value) \subseteq DOMAIN value
  BY DEF Highest, Lowest
<1>2. CASE strategy = "Random"
  BY <1>2 DEF SelectCard
<1>3. CASE strategy = "Aggressive"
  <2>1. SelectCard(strategy, size, playable)
          = Highest([c \in playable |-> EvaluateCardValue(c)])
    BY <1>3 DEF SelectCard
  <2> QED
    BY <1>1, <2>1
<1>4. CASE strategy = "Defensive"
  <2>1. SelectCard(strategy, size, playable)
          = Lowest([c \in playable |-> DefensiveValue(c)])
    BY <1>4 DEF SelectCard
  <2> QED
    BY <1>1, <2>1
<1>5. CASE strategy = "Balanced"
  <2>1. \/ SelectCard(strategy, size, playable)
             = Highest([c \in playable |-> EvaluateCardValue(c)])
        \/ SelectCard(strategy, size, playable)
             = Lowest([c \in playable |-> ScoreValue(c)])
    BY <1>5 DEF SelectCard
  <2> QED
    BY <1>1, <2>1
<1> QED
  BY <1>2, <1>3, <1>4, <1>5 DEF Strategy

(* A bot plays a card that matches the call card, or draws having none.    *)
LEMMA DecisionsMatch ==
    ASSUME NEW level, NEW strategy \in Strategy, NEW cards, NEW call, NEW pick,
           NEW d \in Decisions(level, strategy, cards, call, pick)
    PROVE  \/ /\ d.type = "PLAY_CARD"
              /\ d.card \in cards /\ call # NoCard /\ CanPlayOn(d.card, call)
           \/ /\ d.type = "DRAW_CARD"
              /\ BotPlayable(cards, call) = {}
<1> DEFINE playable == BotPlayable(cards, call)
           defences == Defences(cards, call, pick)
           suits    == SelectSuit(strategy, cards)
           selected == SelectCard(strategy, Cardinality(cards), playable)
<1>1. \A x, y : d \in Plays(x, y) => d.type = "PLAY_CARD" /\ d.card \in x
  BY DEF Plays
<1>2. selected \subseteq playable
  BY SelectedFromPlayable
<1>3. \A c \in playable : c \in cards /\ call # NoCard /\ CanPlayOn(c, call)
  BY DEF BotPlayable
<1>4. \A c \in defences : c \in cards /\ call # NoCard /\ CanPlayOn(c, call)
  BY DEF Defences, CanPlayOn
<1> HIDE DEF playable, defences, suits, selected
<1>5. CASE playable # {}
  <2>1. d \in Plays(selected, suits) \/ d \in Plays(playable, suits)
    BY <1>5 DEF Decisions, playable, suits, selected
  <2> QED
    BY <1>1, <1>2, <1>3, <2>1
<1>6. CASE playable = {}
  <2>1. d \in Plays(defences, {NoSuit}) \/ d = Draws
    BY <1>6 DEF Decisions, playable, defences
  <2> QED
    BY <1>1, <1>4, <1>6, <2>1 DEF Draws, playable
<1> QED
  BY <1>5, <1>6

(* In every state of the game, reachable or not.                           *)
LEMMA BotsUnderstood == BotsAreUnderstood
<1> SUFFICES ASSUME NEW b \in Bot, demanded = NoSuit,
                    NEW level \in Level, NEW strategy \in Strategy,
                    NEW d \in DecisionsOf(b, level, strategy)
             PROVE  Accepts(b, d)
  BY DEF BotsAreUnderstood
<1>1. CASE /\ d.type = "PLAY_CARD"
           /\ callCard # NoCard /\ CanPlayOn(d.card, callCard)
  BY <1>1 DEF Accepts, CanPlayCard, RulesCanPlay
<1>2. CASE d.type = "DRAW_CARD" /\ BotPlayable(hand[b], callCard) = {}
  <2>1. \A c \in hand[b] : callCard # NoCard => ~CanPlayOn(c, callCard)
    BY <1>2 DEF BotPlayable
  <2>2. ~HasPlayableCard(hand[b], callCard, demanded)
    BY <2>1 DEF HasPlayableCard, RulesCanPlay, CanPlayOn
  <2>3. ~HasDefenseCard(hand[b], callCard, pickCount)
    BY <2>1 DEF HasDefenseCard, CanDefendAgainstAttack, CanPlayOn
  <2> QED
    BY <1>2, <2>2, <2>3 DEF Accepts, MustDrawCard
<1> QED
  BY <1>1, <1>2, DecisionsMatch DEF DecisionsOf

(* Whatever a bot of any level and strategy decides while no suit is       *)
(* demanded is a move the engine accepts.                                  *)
THEOREM EngineAcceptsBots == TableSpec => []BotsAreUnderstood
BY BotsUnderstood, PTL

(* A bot whose turn it is when no handler runs was left there by one of    *)
(* three things only, at any table and however long the loop may run.      *)
THEOREM WaitingBotsAreExplained == TableSpec => []WaitingBotIsExplained
<1>1. TableInit => WaitingBotIsExplained
  BY DEF TableInit, Init, WaitingBotIsExplained, BotToMove
<1>2. WaitingBotIsExplained /\ [TableNext]_tableVars => WaitingBotIsExplained'
  <2> SUFFICES ASSUME WaitingBotIsExplained, [TableNext]_tableVars
               PROVE  WaitingBotIsExplained'
    OBVIOUS
  <2> USE DEF WaitingBotIsExplained
  <2>1. ASSUME NEW p \in Player, Join(p) PROVE WaitingBotIsExplained'
    BY <2>1 DEF Join, AddPlayer, MayJoin, BotToMove
  <2>2. ASSUME NEW p \in Player, Leave(p) PROVE WaitingBotIsExplained'
    BY <2>2 DEF Leave
  <2>3. ASSUME NEW p \in Player, Start(p) \/ Move(p) PROVE WaitingBotIsExplained'
    BY <2>3 DEF Start, Move, Continue
  <2>4. CASE HandOver \/ \E b \in Bot : BotMove(b)
    BY <2>4 DEF HandOver, BotMove, Continue
  <2>5. ASSUME NEW b \in Bot, BotRefused(b) PROVE WaitingBotIsExplained'
    <3>1. phase = "IN_PROGRESS" /\ IsCurrent(b) /\ \E d \in Chosen(b) : ~Accepts(b, d)
      BY <2>5 DEF BotRefused
    <3>2. LevelOf(b) \in Level /\ StrategyOf(LevelOf(b)) \in Strategy
      BY DEF LevelOf, Level, StrategyOf, Strategy
    <3>3. demanded # NoSuit
      BY <3>1, <3>2, BotsUnderstood DEF BotsAreUnderstood, Chosen
    <3> QED
      BY <2>5, <3>3 DEF BotRefused, vars, table
  <2>6. CASE StopBots
    <3>1. BotToMove' <=> BotToMove
      BY <2>6 DEF StopBots, BotToMove, IsCurrent, vars, table
    <3> QED
      BY <2>6, <3>1 DEF StopBots
  <2>7. CASE UNCHANGED tableVars
    BY <2>7 DEF tableVars, vars, table, control, BotToMove, IsCurrent
  <2> QED
    BY <2>1, <2>2, <2>3, <2>4, <2>5, <2>6, <2>7 DEF TableNext, Request, HandlerStep
<1> QED
  BY <1>1, <1>2, PTL DEF TableSpec

(* The loop of bot turns never runs more often than its limit says.        *)
THEOREM TableTypeCorrect == TableSpec => []TableTypeOK
<1>1. TableInit => TableTypeOK
  BY TableAssumption DEF TableInit, TableTypeOK
<1>2. TableTypeOK /\ [TableNext]_tableVars => TableTypeOK'
  BY TableAssumption
     DEF TableTypeOK, TableNext, Request, HandlerStep, Join, Leave, Start, Move, Continue,
         HandOver, BotMove, BotRefused, StopBots, control, tableVars
<1> QED
  BY <1>1, <1>2, PTL DEF TableSpec

-----------------------------------------------------------------------------
(* The end of a handler.                                                   *)

\* How many steps the running handler may still take: for each move of a bot
\* that is left, one and the hand-over after it, and one to stop.
StepsLeft ==
    CASE handler = "idle"  -> 0
      [] handler = "bots"  -> 2 * (MaxBotMoves - moves) + 1
      [] handler = "round" -> 2 * (MaxBotMoves - moves) + 2

(* What is left is a number, and a handler begins with few steps.          *)
LEMMA StepsLeftType == TableTypeOK => StepsLeft \in 0..2 * MaxBotMoves + 2
<1> SUFFICES ASSUME TableTypeOK PROVE StepsLeft \in 0..2 * MaxBotMoves + 2
  OBVIOUS
<1>1. MaxBotMoves \in Nat /\ moves \in 0..MaxBotMoves
  BY TableAssumption DEF TableTypeOK
<1>2. handler \in {"idle", "round", "bots"}
  BY DEF TableTypeOK
<1> QED
  BY <1>1, <1>2 DEF StepsLeft

(* The safety half of HandlersEnd: while a handler runs nothing else does, *)
(* and whatever the bots decide, each of its steps leaves it fewer.  A     *)
(* round that a bot ends inside it does not give the loop its limit back:  *)
(* so a request costs the one thread 2 * MaxBotMoves + 2 steps at most.    *)
THEOREM HandlersComeCloser ==
    TableSpec => [][handler # "idle" => StepsLeft' \in 0..StepsLeft - 1]_tableVars
<1>1. ASSUME TableTypeOK, TableTypeOK', TableNext, handler # "idle"
      PROVE  StepsLeft' \in 0..StepsLeft - 1
  <2>1. StepsLeft \in Nat /\ StepsLeft' \in Nat
    <3>1. StepsLeft \in 0..2 * MaxBotMoves + 2
      BY <1>1, StepsLeftType
    <3>2. (StepsLeft \in 0..2 * MaxBotMoves + 2)'
      BY <1>1, StepsLeftType, PTL
    <3> QED
      BY <3>1, <3>2, TableAssumption
  <2>2. MaxBotMoves \in Nat /\ moves \in 0..MaxBotMoves
    BY <1>1, TableAssumption DEF TableTypeOK
  <2>3. HandlerStep
    BY <1>1 DEF TableNext, Request, Join, Leave, Start, Move
  <2>4. CASE HandOver
    BY <2>1, <2>2, <2>4 DEF HandOver, StepsLeft
  <2>5. ASSUME NEW b \in Bot, BotMove(b) PROVE StepsLeft' \in 0..StepsLeft - 1
    BY <2>1, <2>2, <2>5 DEF BotMove, Continue, StepsLeft
  <2>6. CASE StopBots \/ \E b \in Bot : BotRefused(b)
    BY <2>1, <2>2, <2>6 DEF StopBots, BotRefused, StepsLeft
  <2> QED
    BY <2>3, <2>4, <2>5, <2>6 DEF HandlerStep
<1> QED
  BY <1>1, TableTypeCorrect, PTL DEF TableSpec
=============================================================================
