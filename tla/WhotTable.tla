----------------------------- MODULE WhotTable ------------------------------
(***************************************************************************)
(* The handlers of Application around the engine: what one request of a    *)
(* human sets off until the next one is served - the hand-over to the next *)
(* round and the turns of the bots (runBotTurnsIfNeeded).  All of it runs  *)
(* on the WebSocket thread; a handler is a sequence of steps here, and a   *)
(* request is served when none is running.                                 *)
(***************************************************************************)
EXTENDS WhotEngine, WhotBots

CONSTANTS
    Bot,          \* the players that are bots
    MaxBotMoves   \* runBotTurnsIfNeeded's maxIterations

ASSUME TableAssumption == Bot \subseteq Player /\ MaxBotMoves \in Nat

VARIABLES
    handler,  \* "idle", or what the running handler is at
    moves,    \* the bots' moves in it
    halt      \* why the last handler stopped running bots

control   == <<handler, moves, halt>>
tableVars == <<vars, control>>

-----------------------------------------------------------------------------

TableInit == Init /\ handler = "idle" /\ moves = 0 /\ halt = "done"

BotToMove == phase = "IN_PROGRESS" /\ \E b \in Bot : IsCurrent(b)

\* Bots are created as AI_EASY.
LevelOf(b) == "EASY"

DecisionsOf(b, level, strategy) ==
    Decisions(level, strategy, hand[b], callCard, pickCount)

Chosen(b) == DecisionsOf(b, LevelOf(b), StrategyOf(LevelOf(b)))

\* processAction's answer to a decision of the current player.
Accepts(b, d) ==
    IF d.type = "PLAY_CARD" THEN CanPlayCard(d.card, callCard, demanded)
                            ELSE MustDrawCard(hand[b], callCard, demanded, pickCount)

\* Somebody sits down in the lobby: addBotsToGame seats the bots once the
\* creator has joined.
Join(p) ==
    /\ handler = "idle"
    /\ p \in Bot => seats # << >>
    /\ AddPlayer(p)
    /\ UNCHANGED control

\* leaveGame runs no bots.
Leave(p) ==
    /\ handler = "idle"
    /\ p \notin Bot
    /\ RemovePlayer(p)
    /\ halt' = "left"
    /\ UNCHANGED <<handler, moves>>

Start(p) ==
    /\ handler = "idle"
    /\ StartGame(p)
    /\ handler' = "round" /\ moves' = 0
    /\ UNCHANGED halt

\* Mutant: the bots are only run when a round begins.
BotsAtRoundStart == handler' = IF phase' = "ROUND_ENDED" THEN "round" ELSE "idle"

\* What a handler goes on with after an accepted action.
Continue == handler' = IF phase' = "ROUND_ENDED" THEN "round" ELSE "bots"

Move(p) ==
    /\ handler = "idle"
    /\ p \notin Bot
    /\ \/ \E c \in hand[p] : PlayCard(p, c)
       \/ DrawCard(p)
       \/ \E d \in Declarations : Declare(p, d)
       \/ \E s \in SuitRequests, r \in ReverseRequests : ChooseSuit(p, s, r)
    /\ Continue
    /\ moves' = 0
    /\ UNCHANGED halt

HandOver ==
    /\ handler = "round"
    /\ StartNewRound
    /\ handler' = "bots"
    /\ UNCHANGED <<moves, halt>>

BotMove(b) ==
    /\ handler = "bots" /\ moves < MaxBotMoves
    /\ phase = "IN_PROGRESS" /\ IsCurrent(b)
    /\ \E d \in Chosen(b) :
          \/ d.type = "PLAY_CARD" /\ PlayCard(b, d.card)
          \/ d.type = "DRAW_CARD" /\ DrawCard(b)
    /\ Continue
    /\ moves' = moves + 1
    /\ UNCHANGED halt

\* Mutant: the loop asks the bot again.
AskAgain(b) ==
    /\ handler = "bots" /\ moves < MaxBotMoves
    /\ phase = "IN_PROGRESS" /\ IsCurrent(b)
    /\ \E d \in Chosen(b) : ~Accepts(b, d)
    /\ halt' = "refused"
    /\ UNCHANGED <<vars, handler, moves>>

BotRefused(b) ==
    /\ handler = "bots" /\ moves < MaxBotMoves
    /\ phase = "IN_PROGRESS" /\ IsCurrent(b)
    /\ \E d \in Chosen(b) : ~Accepts(b, d)
    /\ handler' = "idle" /\ halt' = "refused"
    /\ UNCHANGED <<vars, moves>>

\* It is a human's turn, or nobody's, or the loop is used up.
StopBots ==
    /\ handler = "bots"
    /\ ~BotToMove \/ moves >= MaxBotMoves
    /\ handler' = "idle"
    /\ halt' = IF BotToMove THEN "cap" ELSE "done"
    /\ UNCHANGED <<vars, moves>>

HandlerStep ==
    \/ HandOver
    \/ \E b \in Bot : BotMove(b) \/ BotRefused(b)
    \/ StopBots

Request ==
    \E p \in Player : Join(p) \/ Leave(p) \/ Start(p) \/ Move(p)

TableNext == Request \/ HandlerStep

TableSpec == TableInit /\ [][TableNext]_tableVars

\* The WebSocket thread goes on with the handler it is in.
FairTable == TableSpec /\ WF_tableVars(HandlerStep)

-----------------------------------------------------------------------------

(* The control variables have their types.                                 *)
TableTypeOK ==
    /\ handler \in {"idle", "round", "bots"}
    /\ moves \in 0..MaxBotMoves
    /\ halt \in {"done", "left", "refused", "cap"}

(* As long as no suit is demanded, the engine accepts whatever a bot of    *)
(* any level and strategy may decide: AIPlayer matches its cards on its    *)
(* own and must agree with RuleEngine, also under an attack and with no    *)
(* call card.                                                              *)
BotsAreUnderstood ==
    \A b \in Bot :
        (phase = "IN_PROGRESS" /\ IsCurrent(b) /\ demanded = NoSuit) =>
            \A level \in Level, strategy \in Strategy :
                \A d \in DecisionsOf(b, level, strategy) : Accepts(b, d)

(* Between two requests it is a human's turn, unless one of three things   *)
(* happened: somebody left, the loop was used up, or the engine refused    *)
(* the bot because a suit is demanded.                                     *)
WaitingBotIsExplained ==
    (handler = "idle" /\ BotToMove) =>
        \/ halt \in {"left", "cap"}
        \/ halt = "refused" /\ demanded # NoSuit

(* Every handler comes to its end, whatever the bots do and even if only   *)
(* bots are left at the table, so the server's one thread gets to the next *)
(* request.  (MaxRounds is the model's bound, not the code's.)             *)
HandlersEnd ==
    (handler # "idle") ~> (handler = "idle" \/ round = MaxRounds)

-----------------------------------------------------------------------------
(* What the documentation says.                                            *)

(* docs/implementation-manual.md:313 "After every human action, [...]      *)
(* loops (up to 50 iterations) and executes [decideAction] for any bot     *)
(* whose turn it is."  With a suit demanded the bot's move is refused, the *)
(* loop ends, and nobody moves for the bot any more.                       *)
NoBotWaits ==
    (handler = "idle" /\ BotToMove) => halt \in {"left", "cap"}
=============================================================================
