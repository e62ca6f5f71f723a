# Whot: a verification development

TLA+ models of the Whot server of this repository, what TLC checks of them and
what TLAPS proves about them. Paths are relative to the repository's root.

## 1. The system

A C++ server lets people play the Nigerian card game Whot in a browser. A
client gets a game and a player id by HTTP, opens a WebSocket, ties the
connection to its seat with `JOIN_GAME`, and then sends moves and receives
states of the game. Bots may fill seats.

| Part | State it keeps | Operations | Correct when |
| --- | --- | --- | --- |
| `src/Core` cards, deck, hand, player | the card objects and who holds them, the declarations and tallies of a player | create, shuffle, draw, play, reshuffle from the discard pile | no card object is in two places; nothing comes back from where it was dropped |
| `src/Game/GameEngine`, `GameState`, `TurnManager` | phase, seats, whose turn it is, direction, piles, call card, pick count, demanded suit, multiple-actions flag, scores | add/remove player, start, new round, play, draw, declare, choose suit | whoever's turn it is has a move; an attack is paid; a round has one winner and is scored once |
| `src/Game/RuleEngine`, `src/Rules/NigerianRules`, `ScoreCalculator` | none | what may be played, what defends, who must draw, how many, what a hand scores | agrees with the documented rules |
| `src/Network/WebSocketServer` | the maps between connections and sessions; two timers | open, message, close, timeout check, ping, send | a close is handled once, after the messages that were served |
| `src/Network/SessionManager` | sessions: player id, game id, last activity | create, destroy, tie, expire, find by player or game | a player is tied to one session, and only while he has a seat |
| `src/Application` | the games and their activity times, behind a mutex | HTTP: create, join, clean up; WebSocket: join, leave, start, move; the disconnection handler; the bots' loop; load at start | a seat is given once, is not lost to an old connection; everybody sees what changed; bots do not stop the game |
| `src/Network/HTTPServer` | routes, the listening socket, a running flag; the accepting thread and a detached thread per connection | accept, one `recv`, route, handle, answer; start, stop | a request does what was sent or nothing; a shutdown comes to its end |
| `src/Persistence` | SQLite rows of games, of their players, of profiles and statistics | save, load, delete, list active | a restart restores a game that can go on |
| `src/AI` | none | choose a move | the move is one the engine accepts |
| `src/main.cpp` | the signal flag | start the servers, wait for the signal, shut down | the database is closed last; the process stops |
| `web/js/game.js` | its socket, game id, player id, pending join | connect, reconnect, join, send | a reconnect gets the seat and the states back |
| `src/Utils`, `deploy`, `scripts` | none of the game's | logging, random numbers, validation, start-up | not considered |

How they interact. The WebSocket server runs every handler and timer on one
asio thread; `Application` registers callbacks with it, and those call the
engine and `SessionManager` directly. HTTP requests run on threads of their own
and call the same `Application` methods; the games' mutex protects the map of
games, not the games. The engine is purely sequential and calls nothing outside
`src/Game` and `src/Core`. A handler calls the engine, broadcasts, saves with
statements that no transaction holds together, then runs the bots. `main` waits
for a signal and takes the threads down one after the other.

What is hard here: states that are only reached by a long series of legal moves
(flags and counters that outlive the move that set them, piles that run out);
connections that fail at either end, are noticed late, time out or are replaced;
HTTP threads between two steps of a check; a crash between two statements, or
between a broadcast and a save; a thread that waits where nothing wakes it.
`PROJECT.json` lists each such hazard at its line.

## 2. Modules

| Module | What it is |
| --- | --- |
| `WhotCards` | the deck template, abilities, scores, and the rules the engine asks for; no state |
| `WhotEngine` | one game: `GameState`, `GameEngine`, `TurnManager`, one action per operation |
| `CardCustody` | abstract: where every card object is and the ways it can move; `WhotEngine` implements it |
| `WhotBots` | what a bot of each level and strategy may decide; no state |
| `WhotTable` | the WebSocket handlers around the engine: the next round and the bots' loop; composes `WhotEngine` and `WhotBots`, and implements `WhotEngine` |
| `WhotSessions` | clients, connections, sessions, seats, and who has been sent the present state |
| `WhotDocumentedSessions` | what the documentation says of a player who leaves |
| `WhotRooms` | the maps of games and the threads that work on them, step by step |
| `WhotRecovery` | the handlers statement by statement, the database, crashes and restarts |
| `WhotHttp` | methods, routes, parameters and what a request is taken for; no state |
| `WhotServer` | the process from start to end: `main`, the WebSocket thread, the accepting thread, the connections; composes `WhotHttp` with them |
| `MCWhotEngine`, `MCWhotTable`, `MCWhotSessions`, `MCWhotRooms`, `MCWhotRecovery`, `MCWhotServer` | decks, requests and symmetry for TLC |
| `WhotEngine_proofs`, `WhotRounds_proofs` (of `WhotEngine` too), `WhotTable_proofs`, `WhotSessions_proofs`, `WhotRooms_proofs`, `WhotRecovery_proofs`, `WhotSurvival_proofs` (of `WhotRecovery` too), `WhotServer_proofs` | theorems about the module each is named after |

`Application` appears in four of them, each with the part of its handlers that
the question is about: `WhotTable` has the cards and serves one request after
the other; `WhotSessions` has who is connected; `WhotRooms` lets the threads
interleave; `WhotRecovery` lets the process die. What one of them leaves out
another has, and each module's head says which.

### WhotEngine and the code

A card object is a record with the number of the round whose deck it was made
in (`gen`), because `startRound` builds a whole new deck while players keep the
cards of the round before. `deck` and `discard` are sets: shuffles make the
order random, so a draw takes any card. `seats` is `players_`, `turn` is
`currentPlayerIndex_` (from 0, not adjusted when a player leaves), `multi` is
the turn manager's `allowMultipleActions_`, `pickCount` the accumulated attack,
`declared` the two flags of every player.

| Action | Code |
| --- | --- |
| `AddPlayer` | `Application::joinGame`, `GameState::addPlayer` |
| `RemovePlayer` | `GameState::removePlayer`: the player object goes with its hand |
| `StartGame`, `StartNewRound` | the two calls of `handleStartGame`; `StartNewRound` also after a round ended |
| `PlayCard` | `isValidAction`, `handlePlayCard`, `executeSpecialCard`, the general market with its reshuffles, the end of the round with its scores |
| `DrawCard` | `handleDrawCard`: one reshuffle at most, before the first card |
| `Declare` | `handleDeclaration`: either declaration, at any time of one's turn |
| `ChooseSuit` | `handleSuitChoice`: the suit and, for callers of the engine, a reversal |

`Application` serves no request between the end of a round and the next
`startNewRound` (same handler), nor between `startGame` and the first one;
`Accepting` says so. `handleGameAction` never sets `chosenDirection`, so
reversals exist only for direct callers of the engine; `ReverseRequests` is
`{TRUE, FALSE}` where they matter. The web client sends neither `CHOOSE_SUIT`
nor `DECLARE_CHECK_UP`; the server accepts both, so the model has them.

Left out, because nothing reads them or nothing calls them: the turn history,
the turn timer, event callbacks, `eliminatePlayers`, `endGame`, queued skips.
So no reachable state is `GAME_ENDED`, in the code and in the model.

### WhotTable and the code

All of it runs on the one WebSocket thread. `handler` is what the running
handler is at (`idle`: the next request can be served), `moves` the counter of
the bots' loop, `halt` why the loop last stopped: it is only written, and lets
`WaitingBotIsExplained` say that every bot left with the turn has a reason. The
other variables are `WhotEngine`'s.

| Action | Code |
| --- | --- |
| `Join`, `Leave` | `joinGame` and `addBotsToGame`; `leaveGame`, which runs no bots |
| `Start` | `handleStartGame`, up to `startNewRound` |
| `Move` | `handleGameAction` with a human's action |
| `HandOver` | `startNewRound` when the action ended the round |
| `BotMove`, `BotRefused`, `StopBots` | one iteration of `runBotTurnsIfNeeded`: the engine accepts the bot's move; refuses it, and the loop breaks; it is nobody's turn the loop is for, or the last iteration was used |

A bot's choice is the set of what its strategy may come up with
(`Decisions`): by chance, by mistake, or by the order of equally good cards.
`BotsAreUnderstood` asks it for every level and every strategy, although
`addBotsToGame` creates `AI_EASY` bots only and `createStrategy` gives no level
the defensive strategy.

### WhotRooms and the code

A step is what one thread does between two points where another can come in:
taking or giving up `gamesMutex_`, the database's own lock, or a read and a
later write of a `GameState` that no lock protects. `at` is where a request's
thread is, `own` its local variables, `serving` what the WebSocket thread does
next. A game is named after the request that creates it, a player after the
request that joins.

| Action | Code |
| --- | --- |
| `AskToCreate`, `DrawCode`, `Insert`, `Load` | `handleCreateGame` and `createGame`: the number of bots; a code of the loop of twenty, looked up under the lock; the insertion under the lock again; `getGame` after it |
| `Save`, `Write` | `saveGame`: `toJson` of the game, and the statement |
| `Ask`, `AskByCode` | `handleJoinGameHttp`; `handleJoinByCode` with `getGameIdByCode` |
| `CheckJoin`, `Touch` | `joinGame`: its checks up to `addPlayer`, `touchGameActivity` |
| `AddPlayer`, `PushPlayer` | `GameState::addPlayer`, of a joining player or of the next bot: the look at the size, and the append, which no lock joins to it |
| `CountBots` | `addBotsToGame`: as many bots as seats are free then; each is seated by the two steps above |
| `Collect`, `RemoveGame`, `RemovedAll` | `handleCleanupStaleLobbies`: under the lock; `removeGame` for each, under it again; the answer |
| `Lost` | a thread goes on with a game that was destroyed: undefined behaviour, and it ends with any answer |
| `StartGame`, `SaveStarted`, `WriteStarted` | the WebSocket thread's `handleStartGame`: the deal, and `saveGame` in two steps |
| `LeaveGame`, `Refresh` | `leaveGame`; the `JOIN_GAME` of a player who sits there still, and a `LEAVE_GAME` of one who does not any more, which change nothing but the activity |
| `TouchServed` | the `touchGameActivity` all of these end with, mostly that of `broadcastGameState` |
| `Idle` | time passes |

Three variables are history: `raced` has the games that two threads were in at
once, `abreast` the pairs of creations that were both between the end of their
loop and their insertion, `left` who left. The properties say that nothing goes
wrong outside of them. Inside of them it does: of two joins of the last seat one
is answered 200 and has no seat, or both append and the table has one too many; a
join that overlaps the start has a seat and no cards; a lobby that is started, or
come back to, between the two locks of a clean-up is removed although it is
played or fresh; two creations that found the same code free both take it.

Two threads that append to one vector at once have undefined behaviour; the
model has the outcomes of their steps one after the other, and no property of
tables speaks of such a game, which is in `raced`. A `JOIN_GAME` of somebody who
has no seat runs `joinGame` on the WebSocket thread and then broadcasts: that is
the thread of an `Ask` and a `Refresh` after it, with more interleavings than the
one WebSocket thread has. Moves are not in this module: they touch games in
progress, which no clean-up collects.

### WhotRecovery and the code

`up`, `live`, `game` and `todo` are what a crash takes away; `row`, `listed`,
`profiled` and `ranked` are the tables `games`, `game_players`, `players` and
`player_stats`. A handler changes the game and leaves in `todo` the statements
and the stretches of code between them, in the code's order; `Execute` does the
first of them. Each statement is atomic and durable, since SQLite commits it; it
may fail, and the code goes on, since nobody looks at what `executeBound`
returns.

| Action | Code |
| --- | --- |
| `HandleCreateGame`, `HandleJoinByCode`, `TakeSeat`, `Answer` | `createGame`, `joinGame`, `addBotsToGame` and the answer |
| `HandleLeaveGame`, `HandleStartGame`, `HandleGameAction`, `StartNewRound`, `Handled` | the WebSocket handlers; `Handled` is where the human's move has been dealt with |
| `PlayBot`, `StopPlaying` | `runBotTurnsIfNeeded`, which saves nothing |
| `HandleCleanupStaleLobbies`, `AnswerRemoved` | `removeGame` and the answer |
| `SaveRow`, `UnlistPlayers`, `ListPlayer` | `GameRepository::saveGame` |
| `SaveProfile`, `SaveStats` | `PlayerRepository::savePlayer` |
| `UnlistPlayers`, `DeleteRow` | `GameRepository::deleteGame` |
| `Crash`, `Restart` | the process dies between any two of them; `setupDatabase` and `loadExistingGames`, whose query may fail too |

There is one game, and its cards are not kept: a move counts one up and leaves
the turn with any seat. How many players it needs and seats it has are `fewest`
and `limit` of the game, because one read back has the default configuration and
not the one its creator chose. `joined` and
`saved` are history: what clients have been answered.

### WhotHttp, WhotServer and the code

`WhotHttp` is what `HttpServer` and the handlers make of one request: the
method, the exact routes, the two patterns with `matchRoute`'s loop, the static
files, the normalised game code, the idle time of a clean-up, the effect and
the status. A path is a sequence of characters, a word of the API one letter; a
query is the digits of its `maxIdleSeconds`, which `std::stoi` reads; a body is
what matters of it. `MatchRoute` is checked against
`BySegments`, which is what a pattern is meant to mean, and proved to be it. The loops
of the code are recursive functions on positions, one position of the pattern
and one of the path in `MatchRoute`.

| Action | Code |
| --- | --- |
| `StartWebSocket`, `StartHttp` | `Application::run`; either port may be taken, and nobody notices |
| `Signal` | `main.cpp`'s signal handler, at any time |
| `StopWebSocket`, `JoinWebSocket` | `WebSocketServer::stop`: a stop posted to the thread, and a join |
| `StopHttp`, `CloseHttp`, `JoinHttp` | `HttpServer::stop`: the flag, the socket, the join |
| `Disconnect` | `shutdown` closes the database, `main` returns |
| `Event`, `Handled`, `EndWebSocket` | asio's loop: a handler or timer runs, ends; the posted stop is taken |
| `Check`, `Accept`, `Accepted` | the accepting thread's loop in `HttpServer::start`: its condition, waiting in `accept`, a connection and its detached thread |
| `Knock`, `HangUp` | a client connects, goes away |
| `Receive`, `HandleRequest`, `Respond` | the detached thread: one `recv`, which may end in the method, the path, the query or before the end of the body; the route and the handler; the answer |

What was read is served as if it were all. `POST /api/games/join` that ends with
`/api/games` creates a game, and a clean-up of lobbies idle for 3600 seconds that
ends with `maxIdleSeconds=36` removes those idle for the least limit, a minute:
`ActsAsSent` says how far off a cut request may be, and no more.

A thread in `accept` is not woken by a `close` of its socket on Linux; until it
returns the kernel keeps the socket, so a client can still connect (`Knock`).

### WhotSessions and the code

`socket` is the client's side of its connection and `link` the server's
(`unused`, `open`, `closing` after the server closed it, `closed` once the close
handler has run): they disagree between a failure and its being noticed. `wire`
holds the requests sent and not yet read. `session` and `player` are
`SessionManager`'s map, `seats`, `creator`, `phase`, `live` the table.
`told` is the set of connections whose last state is the present one.

| Action | Code |
| --- | --- |
| `Connect`, `Send`, `Drop`, `Notices` | `game.js`: `connect`, the requests, a closed page or broken network, `onclose` |
| `HandleCreateGame`, `HandleJoinByCode`, `HandleCleanupStaleLobbies` | the HTTP handlers, one step each here |
| `HandleJoinGame` (`Reattach`, `FreshJoin`), `HandleLeaveGame`, `HandleStartGame`, `HandleGameAction` | the WebSocket handlers of `Application` |
| `CheckTimeouts` | `removeExpiredSessions`, then `closeSession` for each |
| `OnClose` | `on_close`: the disconnection handler, then `destroySession` |

The web client never sends `LEAVE_GAME`; the protocol and the server have it.
The engine's verdict on a move is nondeterministic here. That websocketpp hands
over no data frame once a connection is closing (`Readable` asks for `open`) and
runs the close handler for each connection it loses is behaviour of that
library, assumed as the code assumes it. One game is modelled: sessions of other
games differ in the game id and are not touched by any of these handlers except
through a client that changes games, which is not modelled.

## 3. Runs

| Run | Instance | Question |
| --- | --- | --- |
| `market` | 3 players, 6 cards: two 14s, an 8, two Whots; 1 round | where the cards are: `OneOwner`, `OnlySeatedHold`, `CallCardIsDiscarded`, `CallCardIsNotDealt`, and the refinement `CardsInCustody` |
| `rounds` | 2 players, 4 cards, 3 rounds | `OneWinner`, `ScoredOncePerRound`, `WinsAddUp`, `CardsInCustody` over hands kept from round to round |
| `table` | a human and a bot, 5 cards: two 2s, a 5, a 1, a Whot; 2 rounds; 3 iterations of the bots' loop; with fairness | `TurnHasMove`, `AttackIsPaid`: does an attack leave its victim without a move, or disappear unpaid? `BotsAreUnderstood`, `WaitingBotIsExplained`, `HandlersEnd`: does the engine take what a bot decides, and does the server get to its next request? |
| `sessions` | 2 clients, 3 connections in all, 1 request under way on each | `AttachedIsSeated`, `OneSessionEach`, `SeatSurvivesTakeover`, `RequestIsTold` |
| `heard` | 1 client, 3 connections, with fairness | `HeardIfPunctual`: a seated and connected client is tied to the game again and again |
| `rooms` | 3 HTTP requests, 1 code drawn twice at most, tables and server of 2, creations without and with bots | what survives every interleaving of the threads: the limit of games in `LimitsHold`, `ActivityOfLiveGames`; how two games may come by one code: `CodesAreDistinct`; and what survives where two threads were not in one game at once: the limit of seats, `JoinedIsSeated`, `RowsMatchGames`, `StaleOnlyRemoved` |
| `recovery` | 2 humans and a bot, a table of 2, 3 moves, 2 crashes, 1 failed statement | what was answered is in the database: `JoinedSurvives`, `HumanMovesSurvive`, `RemovedStaysRemoved`; what is read back is in the lobby or in a round, and is read back at all: `PlayableWhenIdle`, `LostOnlyInsideHandlers`; the tables agree: `ListedWhenIdle`, `RankedAreNamed` |
| `server` | 2 connections, 14 kinds of requests on one of them, with fairness | `RoutesGoBySegments`, `ActsAsSent`: what a request that is cut off is taken for; `ClosedLast`, `StopsWhenKnocked`: the order and the end of a shutdown |
| `doc_leave_told`, `doc_bots`, `doc_resume`, `doc_ctrl_c` | small instances of `WhotSessions`, `WhotTable`, `WhotRecovery`, `WhotServer` | a statement of the documentation or of the program, violated |

Each run has between ninety thousand and two million distinct states.

Bounds. `MaxRounds`, `MaxConnections` (connections opened in all), `MaxWire`
(requests on a connection), `MaxMoves`, `MaxCrashes` and `MaxFailures` are the
only cuts that are not in the code, and each is a guard of the actions that
count; beside them there are the sizes of the sets of players, clients,
`Request` (requests to the server in all), `Code` and `Connection`.
`MaxBotMoves`, `MaxPlayers`, `MaxGames`, `MaxTries`, `MinCode` and `MaxCode` are
limits of the code, made small (the bots' loop's 50 is 3, a code's 20 draws
are 2) so that they are reached.
Decks of four to six cards make every ability, defence by suit and by number,
and every way of running out of cards happen within a few turns; the market deck
cannot serve two general markets without a reshuffle. Three rounds are one more
than it takes for hands to survive a round. Three connections let a client be on
its third while the first two are not yet closed, or two clients have one to
spare; a fourth repeats that. Three requests are a creation and two more that
run into each other in the game it made, or one that has the code, another that
draws it in vain and a clean-up that sets it free between its two draws. Two crashes are one more than it takes to lose what a restart
wrote; three moves end a round and begin the next with bots in between. The
mutants in `PROJECT.json`, each a bug one could write into the code, show that
the bounds are large enough to find a violation of every property.

`CHECK_DEADLOCK FALSE` everywhere: a game whose players have all left, one whose
rounds, moves or connections are used up, requests that are all answered and a
process that has ended may really stop. That the player whose turn it is can
always move is checked as `TurnHasMove` instead.

Fairness. `heard`: weak fairness of `Serve(s)` and `OnClose(s)`, since one
thread runs asio's loop, takes what is ready, and TCP reports a connection whose
other end is gone; weak fairness of `Notices(p)`, since a browser calls
`onclose`. `table`: weak fairness of `HandlerStep`, since the thread that is in
a handler goes on with it; none of any request, so no human is made to move.
`server`: weak fairness of `MainStep`, `AcceptorStep` and `Handled`, since
threads run; strong fairness of `EndWebSocket`, since the posted stop waits in
the `io_service`'s queue and is taken in its turn, however many messages come.
None is assumed of clients, of a signal, or of detached threads.

The liveness properties have premises the code needs. `HeardIfPunctual`: no
request is read from a connection its client has already given up. Otherwise the
`JOIN_GAME` of the old connection may be served after that of the new one;
`handleJoinGame` destroys the new connection's session and keeps the connection,
the old session times out, its close finds no session and leaves the seat, and
the client has its seat and an open connection and is never sent a state again.
`StopsWhenKnocked`: clients keep connecting while there is a socket; without it
the property is `StopsOnSignal`, which `doc_ctrl_c` refutes. `HandlersEnd` lets a
handler stop where `MaxRounds` is used up: that is the model's bound, and the
code deals the next round.

Refinement. `market` and `rounds` check that `WhotEngine` implements
`CardCustody` under the mapping `Custody`, and `WhotEngine_proofs` proves it;
that `WhotTable` implements `WhotEngine` is proved in `WhotTable_proofs`.

Symmetry: players, clients, humans and requests are interchangeable; not used in
the runs with a liveness property.

### Where documentation and code disagree

Four statements have a run that violates them; see "findings". Others met while
modelling, which follow from the same models and have no run:

- implementation-manual.md:58, "HOLD_ON - current player plays again": the turn
  is moved on to the next player, who then keeps it (GameEngine.cpp:241).
- implementation-manual.md:63, "WHOT_CARD - player calls any suit": the suit sent
  with the card is not read, and the card clears a demand (GameEngine.cpp:267).
- RuleEngine.hpp:40, `mustDrawCard`, "True if: no playable cards OR under attack
  and cannot defend": under an attack only the second is asked, so who could
  defend but for a demanded suit can neither play nor draw (RuleEngine.cpp:43).
- NigerianRules.hpp:20, "Players start with 3-6 cards": `startNewRound` deals to
  hands that still have the cards of the round before (GameEngine.cpp:24).
- implementation-manual.md:59, "PICK_TWO - next player draws 2": with a Hold
  On's flag set the turn stays with the attacker (GameEngine.cpp:175).
- implementation-manual.md:114, canPlayCard validates "pick-chain defense
  rules": it never reads the pick count (RuleEngine.cpp:35).
- implementation-manual.md:116, calculateDrawCount "returns the accumulated pick
  count": fewer cards are drawn when the deck runs out in between, even if the
  discard pile could be turned over (GameEngine.cpp:189).
- NigerianRules.hpp:31, "Players must declare 'Check up'": nothing asks for it
  (GameEngine.cpp:161).
- implementation-manual.md:291-292, JOIN_GAME is answered with broadcasts: a
  client that joined by HTTP is sent the state alone (Application.cpp:384).
- implementation-manual.md:308, "game deleted if empty": `leaveGame` deletes
  nothing (Application.cpp:222).
- implementation-manual.md:327, "a reconnect seamlessly re-joins the same game":
  the close of the old connection has taken the seat, and a game in progress
  gives out none (Application.cpp:200, 292).
- implementation-manual.md:153, session data "still readable at callback time":
  not for a session that timed out, which is erased before its connection is
  closed, so the seat stays taken (WebSocketServer.cpp:342).
- HTTPServer.cpp:42: a full server's 503 is sent as "200 OK", since `statusLine`
  has no such code.

## 4. Proofs

TLAPS checks these for every value of the constants, from the named assumptions
`EngineAssumption`, `TableAssumption`, `SessionsAssumption`, `RoomsAssumption`,
`RecoveryAssumption`, `CodeAssumption` and `SentAssumption` (types of the constants;
the deck a finite part of the standard deck; bots are players; nobody is no client,
no bot a human; the shortest code has a character and is no longer than the longest;
paths and codes are sequences of characters, queries of digits; and `NoneIsNoStatus`, no answer is no
status). Three theorems have a hypothesis of their own:

- `OneWinnerPerRound` has `EveryoneIsDealtTo`: a round is dealt at least one card
  each, from a deck with a card for every seat. `GameConfig`'s defaults are 6 cards,
  8 seats and 54 cards. Without it the deal gives a late seat nothing, and that
  player is out of cards before the first move.
- `EveryRoundHasAWinner` has a finite set of players: the sum of an infinite one's
  wins is no number. There are never more seats than `MaxPlayers`; players who come
  and go are the ones without a bound.
- `RequestsActAsSent` has `ClientsKnowTheApi`: what the client wants of a request
  (`wants`, which no code reads) is what `Asked` says of it as a whole: by its
  path, segment by segment, and not by the routing tables and `matchRoute`'s loop. The
  `wants` of the `server` run's requests were written down by hand and are all so.

`WhotEngine_proofs`, by the inductive invariant `IInv`:

- `TypeCorrect`, `EveryCardHasOneOwner`, `OnlyTheSeatedHold`,
  `CallCardOnThePile`, `EveryRoundIsScoredOnce`, `TheTurnHasAMove`.
- `OneOwner` is not inductive alone: the cards of a new round must be new
  (`BornByNow`). `OnlySeatedHold` needs distinct seats (`OneSeatEach`) and finite
  piles, since a share of no cards is the empty set only then.
  `ScoredOncePerRound` needs the round count to follow the phase and an empty
  tally for whoever has no seat (`BooksOpen`). `TurnHasMove` follows from the
  types: a defence that forbids the draw has the attacking card's value, so it
  can be played - unless a suit is demanded.

Refinement, also in `WhotEngine_proofs`: `WhotEngineImplementsCustody`,
`Spec => CardsInCustody`: every step of the game is a step of `CardCustody` or leaves all cards where they
are. By `IInv` each card object has one place (`PlacesTell`). What takes work is
the general market: the discard pile is turned over only if there are more
players to serve than cards in the deck, and then every card of the deck has gone
to a hand, since as many players as the deck has cards were served one each.

`WhotRounds_proofs`, by `RoundInv` (`IInv` and what a round adds):

- `CallCardStaysOut`: two cards of one deck with one face are Whots or the same
  card, so in the first round, when all cards in play are of one deck
  (`MadeByDeals`), a second card with the face to match could only be the same
  object in a second place, which `OneOwner` excludes. A general market may
  reshuffle in the middle of its dealing: the proof follows the face through it.
- `OneWinnerPerRound`: only a step of the player whose turn it is can empty a hand
  (`OnlyTheMoverRunsOut`), and that step ends the round. That nobody starts with an
  empty hand needs the deal to come to the last seat, hence `SeatsFit` (`joinGame`
  checks the limit first) and `EveryoneIsDealtTo`.
- `EveryAttackIsPaid`: the draw under attack gives the player as many cards as the
  count says unless the deck runs out in the loop, which needs finite hands
  (`HandsFinite`) to count them; nobody can be attacked before the first deal
  (`NothingBeforeDeal`).
- `EveryRoundHasAWinner`: `WinsAddUp` is about a sum over the set of players, a
  fold. Its facts (`SumsType`, `SumsChange`, `SumsOfZeros`) are proved by induction on
  the size of a set, without the library's induction theorems: the sizes of which
  something holds are a set of numbers, and if any were missing there would be a
  least one (`NaturalsFromZero`, `SubsetsOneByOne`). The function that the fold
  recurs by is shown to exist in the same way (`SumsExist`).

`WhotTable_proofs`:

- `HandlersImplementEngine`: every step of a handler is a step of the engine or
  leaves the game alone, so `TableSpec => Spec`, and each invariant proved of the
  engine holds with bots and handlers too.
- `EngineAcceptsBots`: holds in every state, by what `AIPlayer` and `RuleEngine`
  ask of a card. `WaitingBotsAreExplained` is inductive with it: a refused bot
  leaves the loop with `halt = "refused"`, and that needs a demanded suit.
- `HandlersComeCloser`, the half of `HandlersEnd` that is safety: `StepsLeft` counts the
  bots' moves that are left and a hand-over after each, and every step of a running
  handler makes it smaller; nothing else happens meanwhile.
- `TableTypeCorrect`, and `BotsKeepOneOwner` and `BotsPayAttacks` as examples of what
  follows: `table` checks `AttackIsPaid` with the handlers and the bots.

`WhotSessions_proofs`, by its own `IInv`:

- `TypeCorrect`, `AttachedAreSeated`, `NobodyHasTwoSessions`,
  `SeatsSurviveTakeovers`, `RequestsAreTold`.
- `AttachedIsSeated` and `OneSessionEach` need each other: `leaveGame` unties the
  first session it finds, which is enough only if there is no second, and a fresh
  join destroys no other session, which is safe only if a player without a seat
  has none. Both need a game that is gone to have no sessions
  (`NoGameNoSession`), or the next game would begin with them.

`WhotRooms_proofs`, by `RInv`, and `LimitsAreKept`, `JoinsAreKept` and `RowsAreCurrent`
by `OInv`:

- `RoomsTypeCorrect`, `MapsAgree`, `CodesLeadToOneGame`, `CleanUpTakesStaleLobbies`.
- `CodesBooked`: a code that a creation has found free stays free until its game
  is inserted, unless another creation had settled on one by then (`abreast`) or one
  of the two has used up its draws (`CodeDrawn`). That nobody else can take it is
  what the order of look and insertion gives, and all it gives.
- A clean-up's list is of lobbies that are stale still, or of games in `raced`
  (`ListedAreStale`, `RacesBooked`): a change or a touch of a listed game is a
  second thread in it. Nobody holds a game that is not made yet
  (`UnbornUnknown`). The games are finitely many, or their number would say
  nothing.
- `JoinsAreKept` (`JoinedIsSeated`): what a thread found at a table is still so when
  it acts on it, if it was alone there (`SeatsKept`): a creator that has no seat yet
  has an empty table, so he becomes its creator; a thread between the look at the
  size and the append has a lobby with the seat still free (`ForItself`, `ForItsBots`,
  `StillFree`); one that is past it sits there. A table changes in four ways only
  (`TableMoves`): it is made, somebody is added, it is dealt to, somebody leaves. Of
  these a second thread's would put the game in `raced` (`NobodyElse`), except for
  a leaver's, who takes away his own seat. A deal crosses no join: whoever sits
  there then is dealt to.
- `LimitsAreKept` (`LimitsHold`): the number of games by the count and the insertion
  under one lock; the seats of a table no two threads were in by `SeatsKept`: the
  seat that was free at the look is free at the append.
- `RowsAreCurrent` (`RowsMatchGames`): the row shows the table, or somebody is about
  to save it, and what was written down for that save shows the table too
  (`RowsKept`). A removed game has no row, since nobody else was about to write it
  (`HeldExist`); leaving saves nothing, but only takes names away.

`WhotRecovery_proofs`, by `CInv`:

- `RecoveryTypeCorrect`, `MovesAreKept`, `LeaderboardIsNamed`.
- `MovesKept`: while a handler is before its "handled", a save of the move is
  before it in `todo` or was written; the bots' moves come after it. `TasksFit`:
  a dead process has nothing to do, and only what was removed is deleted.
  `StatsOfKnown`: the statement on the statistics is only ever due for a player
  whose profile was written.

`WhotSurvival_proofs`, by `CInv` and what `todo` owes (`SInv`):

- `SeatsSurviveCrashes`, `IdleGamesGoOn`, `IdleGamesAreReadBack`,
  `RemovalsArePermanent`, `GamesAreFound`.
- `RoundsGoOn`: while a round has ended, a new one and then a save are due; a
  game whose row a restart would not read has a save due. `RemovedKept`: the row
  is gone or its deletion comes before the answer. `JoinedKept`: a player about
  to be answered has his seat, and it is saved or a save comes first; or he is
  the first to get one, there is a place, and a save follows. That
  he is the first is what keeps the place free: the creator's seat comes before
  the bots'.
- `GamesAreFound` (`ListedWhenIdle`), by `ListedKept`: a save's statements on
  `game_players` come before all else, the DELETE first (`ListsFirst`). While the
  DELETE is due, the names to come are all those of the row, whatever failed before;
  when it is done, those listed and those to come are. So one complete save mends
  every failure before it, and a failure in it is in `failed` when it ends.

`WhotServer_proofs`:

- `DatabaseClosesLast`, by `SInv`: where the two threads can be at each step of the
  shutdown.
- `ShutdownComesCloser`, the half of `StopsWhenKnocked` that is safety: once the flag
  is down (`FlagDown`), each step of `main` or the accepting thread leaves them fewer,
  so at most one more connection is accepted.
- `RoutesMatchBySegments` and `RequestsActAsSent`, by `Reads`: a request that was read
  is one that was sent, cut where it may be cut, and an answer is its handler's.
- What these need is about the operators, for any sequences of characters.
  `MatchRoute`, `Segments` and `NormalizeGameCode` are recursive functions, and such a
  definition says nothing until the recursion is shown to have a solution:
  `MatchesExist`, `SegmentsExist` and `CapsExist` build one row, or position, at a time
  (`CountingUp`, from the least element of a set of numbers), since a row looks only
  at those behind it (`RowsBehind`, `SegmentsBehind`).
- `MatchesBySegments`: the loop takes exactly the paths `/g/`, then a non-empty rest
  without a slash (`MatchGame`), or the same with anything for the parameter, also
  nothing, and then `/j` (`MatchJoin`). The comparison by segments takes the
  same ones, by where the first slashes are (`SegmentsBelowGames`, `GameBySegments`,
  `JoinBySegments`). It is proved of this server's two patterns; of all patterns it
  would be false: the loop takes a colon inside a segment for a parameter, too.
- `EffectIsAsked`: through the exact routes, the patterns in their order and the
  handlers, the part of a request that was read does what `Asked` says of that part.
  A body that was not read is no code (`NoCodeIsInvalid`). A query that was cut off
  gives a clean-up another limit, of a minute at least whatever the digits
  (`IdleAMinute`, `CleanUpsWait`), and changes nothing else. A path that is cut off
  may be another request, so of those the theorem says only that none but posts act
  and that what is refused has done nothing.
- `CodesAreNormal`: a code is looked up in one form only, whatever was typed.

Only model-checked: the liveness properties `HeardIfPunctual`, `HandlersEnd` and
`StopsWhenKnocked`, since liveness under fairness is out of the prover's reach (of the
last two it is proved that only so many steps can be taken, not that the next one is
taken), and the documented claims of section 3, which runs refute. Every safety invariant
and every action property that a passing run checks is a theorem.

## 5. Not modelled

- Encoding and decoding of messages and JSON (`MessageProtocol`, `jsonGet...`),
  headers, CORS, content types, logging, rendering in the browser, arguments of
  `main`, shell scripts: formatting; no state of the game depends on how they do
  it. SQLite and websocketpp are modelled by what the code expects of them.
- Code that nothing calls: the turn history and timer, event callbacks,
  `eliminatePlayers` and `endGame` (so `GAME_ENDED`, and with it `updateStats`,
  is never reached), `ScoreCalculator`'s rankings, `getCompletedGames`,
  `deleteOldGames`, `archiveCompletedGames`, `migrate`, transactions,
  `loadPlayer`, `setupGameApi`, `addStaticDirectory`, `cleanupInactiveGames`,
  `findGameByPlayer` (which would not work: it reads the phase as a string, and
  `toJson` writes a number).
- What a detached HTTP thread does that is still running when the database is
  closed or `main` returns: `ClosedLast` says only that no other thread can be.
- Data races inside one `GameState` beyond the order of steps: `WhotRooms` has the
  steps of two threads in any order, each step whole, and calls a game `raced`
  when it happens.
- Several games in `WhotSessions` and `WhotRecovery`: their handlers touch one
  game each, and a client that changes games is not modelled.
- A failing read of the database other than the one at the start.

What could come next: `WhotRooms` with the sessions of the players in it, so that a
game removed under its players' connections is seen from theirs.
