---------------------------- MODULE WhotRecovery ----------------------------
(***************************************************************************)
(* What a crash leaves of a game: Application's handlers with the SQL      *)
(* statements of GameRepository and PlayerRepository as steps of their own *)
(* (nothing runs them in a transaction), a crash between any two of them,  *)
(* and the restart that reads the game back.                               *)
(*                                                                         *)
(* One game.  Its cards are not kept: a move counts one up and leaves the  *)
(* turn with any seat.  Requests are served one after the other here; what *)
(* their threads do to each other is WhotRooms'.                           *)
(*                                                                         *)
(* A statement is atomic and durable (SQLite commits each); it may also    *)
(* fail, and the callers go on as if it had not.                           *)
(***************************************************************************)
EXTENDS Integers, Sequences, FiniteSets, SequencesExt

CONSTANTS
    Human,             \* players that come by HTTP
    Bot,               \* the bots the creator may ask for
    Nobody,
    MinPlayers,        \* GameConfig::minPlayers as the creator chose it,
    MaxPlayers,        \* and maxPlayers
    DefaultMinPlayers, \* those of a game read back
    DefaultMaxPlayers,
    MaxMoves,          \* bound: moves of a game
    MaxCrashes,        \* bound: crashes
    MaxFailures        \* bound: statements that fail

ASSUME RecoveryAssumption ==
    /\ Human \cap Bot = {} /\ Nobody \notin Human \cup Bot
    /\ MinPlayers \in Nat /\ MaxPlayers \in Nat
    /\ DefaultMinPlayers \in Nat /\ DefaultMaxPlayers \in Nat
    /\ MaxMoves \in Nat /\ MaxCrashes \in Nat /\ MaxFailures \in Nat

VARIABLES
    (* Lost at a crash. *)
    up,        \* the process runs
    live,      \* the game is in Application::activeGames_
    game,      \* its GameState: phase, seats, turn, limits, and how many moves
    todo,      \* what the running handler still has to do
    (* The database. *)
    row,       \* the game's row of the table games
    listed,    \* its player ids in the table game_players
    profiled,  \* the player ids in the table players
    ranked,    \* the player ids in the table player_stats
    (* What happened. *)
    born,      \* the game was created
    crashes,
    failed,    \* statements whose failure no later success has mended
    failures,
    joined,    \* players that were told they have joined, and did not leave
    saved,     \* moves of the game when a human's move was last dealt with
    removed    \* a clean-up has answered that it removed the game

memory   == <<up, live, game, todo>>
database == <<row, listed, profiled, ranked>>
history  == <<born, crashes, failed, failures, joined, saved, removed>>
vars     == <<memory, database, history>>

-----------------------------------------------------------------------------

Player == Human \cup Bot

Phase == {"LOBBY", "IN_PROGRESS", "ROUND_ENDED"}

Game == [phase : Phase, seats : Seq(Player), turn : Nat, fewest : Nat, limit : Nat, moves : Nat]

Row == [status : {"none", "active", "round_ended"}, phase : Phase,
        seats : Seq(Player), turn : Nat, moves : Nat]

\* GameState's constructor and initialize.
NewGame(limit) == [phase |-> "LOBBY", seats |-> << >>, turn |-> 0,
                   fewest |-> MinPlayers, limit |-> limit, moves |-> 0]

Seated == {game.seats[i] : i \in 1..Len(game.seats)}

\* getCurrentPlayer: nobody when the index is past the last seat.
Mover(g) == IF g.turn < Len(g.seats) THEN g.seats[g.turn + 1] ELSE Nobody

\* The row saveGame writes; the configuration is not part of toJson.
Snapshot(g) ==
    [status |-> IF g.phase = "ROUND_ENDED" THEN "round_ended" ELSE "active",
     phase |-> g.phase, seats |-> g.seats, turn |-> g.turn, moves |-> g.moves]

NoRow == [status |-> "none", phase |-> "LOBBY", seats |-> << >>, turn |-> 0,
          moves |-> 0]

\* Mutant: the phase is read from the wrong column.
PhaseFromStatus(r) == [phase |-> r.status, seats |-> r.seats, turn |-> r.turn,
                       fewest |-> DefaultMinPlayers, limit |-> DefaultMaxPlayers,
                       moves |-> r.moves]

\* fromJson: what is not in the row gets its default.
FromRow(r) == [phase |-> r.phase, seats |-> r.seats, turn |-> r.turn,
               fewest |-> DefaultMinPlayers, limit |-> DefaultMaxPlayers, moves |-> r.moves]

\* Mutant: every game that has a row is taken for an active one.
AnyRow(r) == r.status # "none"

\* The WHERE of getActiveGames.
IsActive(r) == r.status \in {"active", "in_progress"}

\* getLeaderboard: who has statistics, and whether his name is found.
Leaderboard == {[player |-> p, named |-> p \in profiled] : p \in ranked}

\* getGamesByPlayer: the game of a player that game_players names.
FoundBy(p) == p \in listed /\ row # NoRow

-----------------------------------------------------------------------------
(* What a handler has to do, one entry a statement or a stretch of code    *)
(* between two of them.                                                    *)

Steps == {"seat", "profile", "stats", "save", "unlist", "list",
          "answer", "newRound", "play", "drop", "removed", "handled"}

Task == [do : Steps, for : Player \cup {Nobody}]

Do(step)       == [do |-> step, for |-> Nobody]
DoFor(step, p) == [do |-> step, for |-> p]

\* joinGame after its checks, and the answer of the handler that called it.
JoinTasks(p) == <<DoFor("seat", p), DoFor("profile", p), Do("save")>>

\* addBotsToGame takes as many as there are places for, up to one less than
\* the table holds.
BotTasks(bots) == [i \in 1..Len(bots) |-> DoFor("seat", bots[i])]

Next1(step) == todo # << >> /\ Head(todo).do = step

Idle == up /\ todo = << >>

Works(steps) == failed' = failed \ steps /\ UNCHANGED failures

\* executeBound returns false and nobody looks.
Fails(step) ==
    /\ failures < MaxFailures
    /\ failures' = failures + 1
    /\ failed' = failed \cup {step}

-----------------------------------------------------------------------------
(* The statements.                                                         *)

\* saveGame: the row, then the players' rows; without the row, neither.
SaveRow ==
    /\ Next1("save")
    /\ \/ /\ row' = Snapshot(game)
          /\ todo' = <<Do("unlist")>>
                       \o [i \in 1..Len(game.seats) |-> DoFor("list", game.seats[i])]
                       \o Tail(todo)
          /\ Works({"save"})
       \/ row' = row /\ todo' = Tail(todo) /\ Fails("save")
    /\ UNCHANGED <<up, live, game, listed, profiled, ranked, born, crashes,
                   joined, saved, removed>>

\* Mutant: whoever was listed once stays listed.
KeepListed ==
    /\ Next1("unlist")
    /\ todo' = Tail(todo)
    /\ listed' = listed /\ Works({"unlist", "list"})
    /\ UNCHANGED <<up, live, game, row, profiled, ranked, born, crashes,
                   joined, saved, removed>>

\* DELETE FROM game_players, of saveGame and of deleteGame.
UnlistPlayers ==
    /\ Next1("unlist")
    /\ todo' = Tail(todo)
    /\ \/ listed' = {} /\ Works({"unlist", "list"})
       \/ listed' = listed /\ Fails("unlist")
    /\ UNCHANGED <<up, live, game, row, profiled, ranked, born, crashes,
                   joined, saved, removed>>

\* INSERT OR IGNORE INTO game_players.
ListPlayer ==
    /\ Next1("list")
    /\ todo' = Tail(todo)
    /\ \/ listed' = listed \cup {Head(todo).for} /\ Works({})
       \/ listed' = listed /\ Fails("list")
    /\ UNCHANGED <<up, live, game, row, profiled, ranked, born, crashes,
                   joined, saved, removed>>

\* Mutant: the row of player_stats is written whatever became of the other.
StatsAnyway ==
    /\ Next1("profile")
    /\ todo' = <<DoFor("stats", Head(todo).for)>> \o Tail(todo)
    /\ \/ profiled' = profiled \cup {Head(todo).for} /\ Works({"profile"})
       \/ profiled' = profiled /\ Fails("profile")
    /\ UNCHANGED <<up, live, game, row, listed, ranked, born, crashes, joined,
                   saved, removed>>

\* savePlayer: the player's row, and only then that of the statistics.
SaveProfile ==
    /\ Next1("profile")
    /\ \/ /\ profiled' = profiled \cup {Head(todo).for}
          /\ todo' = <<DoFor("stats", Head(todo).for)>> \o Tail(todo)
          /\ Works({"profile"})
       \/ profiled' = profiled /\ todo' = Tail(todo) /\ Fails("profile")
    /\ UNCHANGED <<up, live, game, row, listed, ranked, born, crashes, joined,
                   saved, removed>>

SaveStats ==
    /\ Next1("stats")
    /\ todo' = Tail(todo)
    /\ \/ ranked' = ranked \cup {Head(todo).for} /\ Works({"stats"})
       \/ ranked' = ranked /\ Fails("stats")
    /\ UNCHANGED <<up, live, game, row, listed, profiled, born, crashes,
                   joined, saved, removed>>

\* The second statement of deleteGame.
DeleteRow ==
    /\ Next1("drop")
    /\ todo' = Tail(todo)
    /\ \/ row' = NoRow /\ Works({"drop"})
       \/ row' = row /\ Fails("drop")
    /\ UNCHANGED <<up, live, game, listed, profiled, ranked, born, crashes,
                   joined, saved, removed>>

-----------------------------------------------------------------------------
(* The handlers.  Each does what it does to the game and leaves the rest   *)
(* in todo.                                                                *)

Init ==
    /\ up = TRUE /\ live = FALSE /\ game = NewGame(0) /\ todo = << >>
    /\ row = NoRow /\ listed = {} /\ profiled = {} /\ ranked = {}
    /\ born = FALSE /\ crashes = 0 /\ failed = {} /\ failures = 0
    /\ joined = {} /\ saved = 0 /\ removed = FALSE

\* handleCreateGame: createGame, joinGame, addBotsToGame, answer.
HandleCreateGame(p, bots) ==
    /\ Idle /\ ~born
    /\ Len(bots) < MaxPlayers
    /\ born' = TRUE
    /\ live' = TRUE
    /\ game' = NewGame(MaxPlayers)
    /\ todo' = <<Do("save")>> \o JoinTasks(p)
                 \o BotTasks(bots) \o (IF bots = << >> THEN << >> ELSE <<Do("save")>>)
                 \o <<DoFor("answer", p)>>
    /\ UNCHANGED <<up, database, crashes, failed, failures, joined, saved, removed>>

\* Mutant: the answer does not wait for the database.
AnswerFirst(p) ==
    /\ Idle /\ live
    /\ game.phase = "LOBBY" /\ p \notin Seated /\ Len(game.seats) < game.limit
    /\ todo' = <<DoFor("answer", p)>> \o JoinTasks(p)
    /\ UNCHANGED <<up, live, game, database, history>>

HandleJoinByCode(p) ==
    /\ Idle /\ live
    /\ game.phase = "LOBBY" /\ p \notin Seated /\ Len(game.seats) < game.limit
    /\ todo' = JoinTasks(p) \o <<DoFor("answer", p)>>
    /\ UNCHANGED <<up, live, game, database, history>>

\* addPlayer, of joinGame and of addBotsToGame.
TakeSeat ==
    /\ Next1("seat")
    /\ todo' = Tail(todo)
    /\ game' = IF Len(game.seats) < game.limit
                  THEN [game EXCEPT !.seats = Append(@, Head(todo).for)]
                  ELSE game
    /\ UNCHANGED <<up, live, database, history>>

Answer ==
    /\ Next1("answer")
    /\ todo' = Tail(todo)
    /\ joined' = joined \cup {Head(todo).for}
    /\ UNCHANGED <<up, live, game, database, born, crashes, failed, failures,
                   saved, removed>>

\* leaveGame saves nothing, and leaves the index of the turn alone.
HandleLeaveGame(p) ==
    /\ Idle /\ live
    /\ \E i \in 1..Len(game.seats) :
          game.seats[i] = p /\ game' = [game EXCEPT !.seats = RemoveAt(@, i)]
    /\ joined' = joined \ {p}
    /\ UNCHANGED <<up, live, todo, database, born, crashes, failed, failures,
                   saved, removed>>

\* startGame and startNewRound, then one save.
HandleStartGame ==
    /\ Idle /\ live
    /\ game.phase = "LOBBY" /\ Len(game.seats) >= game.fewest
    /\ game' = [game EXCEPT !.phase = "IN_PROGRESS", !.turn = 0]
    /\ todo' = <<Do("save"), Do("play")>>
    /\ UNCHANGED <<up, live, database, history>>

AfterMove(phase, turn) ==
    [game EXCEPT !.phase = phase, !.turn = turn, !.moves = @ + 1]

\* Mutant: one save for the move and for the round it ended.
OneSave(ends) ==
    <<Do("save")>> \o (IF ends THEN <<Do("newRound")>> ELSE << >>)
                   \o <<Do("handled"), Do("play")>>

\* Mutant: the game is saved once the bots have played.
SaveAfterBots(ends) ==
    (IF ends THEN <<Do("newRound")>> ELSE << >>)
        \o <<Do("handled"), Do("play"), Do("save")>>

\* The rest of handleGameAction, after the broadcast.
ActionTasks(ends) ==
    IF ends THEN <<Do("save"), Do("newRound"), Do("save"), Do("handled"), Do("play")>>
            ELSE <<Do("save"), Do("handled"), Do("play")>>

\* The engine accepts the move: the turn is any seat's, the round may end.
HandleGameAction(p) ==
    /\ Idle /\ live
    /\ p = Mover(game) /\ p \in Human
    /\ game.moves < MaxMoves
    /\ \E turn \in 0..Len(game.seats) - 1 :
          \/ /\ game' = AfterMove(game.phase, turn)
             /\ todo' = ActionTasks(FALSE)
          \/ /\ game.phase = "IN_PROGRESS"
             /\ game' = AfterMove("ROUND_ENDED", turn)
             /\ todo' = ActionTasks(TRUE)
    /\ UNCHANGED <<up, live, database, history>>

StartNewRound ==
    /\ Next1("newRound")
    /\ todo' = Tail(todo)
    /\ game' = [game EXCEPT !.phase = "IN_PROGRESS", !.turn = 0]
    /\ UNCHANGED <<up, live, database, history>>

Handled ==
    /\ Next1("handled")
    /\ todo' = Tail(todo)
    /\ saved' = game.moves
    /\ UNCHANGED <<up, live, game, database, born, crashes, failed, failures,
                   joined, removed>>

\* One turn of runBotTurnsIfNeeded; the round it may end is handed over in
\* the same turn, and nothing is saved.
PlayBot ==
    /\ Next1("play")
    /\ game.phase = "IN_PROGRESS" /\ Mover(game) \in Bot
    /\ game.moves < MaxMoves
    /\ \E turn \in 0..Len(game.seats) - 1 : game' = AfterMove("IN_PROGRESS", turn)
    /\ UNCHANGED <<up, live, todo, database, history>>

\* The loop ends at a human's turn; or at a bot's, whose move was refused or
\* was the last the loop allows (WhotTable tells when).
StopPlaying ==
    /\ Next1("play")
    /\ todo' = Tail(todo)
    /\ UNCHANGED <<up, live, game, database, history>>

\* Mutant: the rows are deleted after the answer.
AnswerThenDelete ==
    /\ Idle /\ live
    /\ game.phase = "LOBBY"
    /\ live' = FALSE
    /\ todo' = <<Do("removed"), Do("unlist"), Do("drop")>>
    /\ joined' = {} /\ saved' = 0
    /\ UNCHANGED <<up, game, database, born, crashes, failed, failures, removed>>

\* handleCleanupStaleLobbies and removeGame.
HandleCleanupStaleLobbies ==
    /\ Idle /\ live
    /\ game.phase = "LOBBY"
    /\ live' = FALSE
    /\ todo' = <<Do("unlist"), Do("drop"), Do("removed")>>
    /\ joined' = {} /\ saved' = 0
    /\ UNCHANGED <<up, game, database, born, crashes, failed, failures, removed>>

AnswerRemoved ==
    /\ Next1("removed")
    /\ todo' = Tail(todo)
    /\ removed' = TRUE
    /\ UNCHANGED <<up, live, game, database, born, crashes, failed, failures,
                   joined, saved>>

-----------------------------------------------------------------------------
(* Crash and restart.                                                      *)

\* Statements that will now never come have failed, if those before them
\* were executed.
Crash ==
    /\ up
    /\ crashes < MaxCrashes
    /\ crashes' = crashes + 1
    /\ up' = FALSE /\ live' = FALSE /\ game' = NewGame(0) /\ todo' = << >>
    /\ failed' = IF \/ Next1("unlist") \/ Next1("list") \/ Next1("drop")
                   THEN failed \cup {"list"} ELSE failed
    /\ UNCHANGED <<database, born, failures, joined, saved, removed>>

\* loadExistingGames.
Load ==
    /\ \/ IsActive(row) /\ live' = TRUE /\ game' = FromRow(row)
       \/ ~IsActive(row) /\ UNCHANGED <<live, game>>
    /\ UNCHANGED failures

\* A query that fails returns nothing, as if there were no game.
LoadFails ==
    /\ failures < MaxFailures
    /\ failures' = failures + 1
    /\ UNCHANGED <<live, game>>

\* setupDatabase and loadExistingGames.  What a failed save has lost is not
\* to be lost again.
Restart ==
    /\ ~up
    /\ up' = TRUE
    /\ Load \/ LoadFails
    /\ joined' = IF "save" \in failed THEN joined \cap ToSet(row.seats) ELSE joined
    /\ saved' = IF "save" \in failed /\ row.moves < saved THEN row.moves ELSE saved
    /\ UNCHANGED <<todo, database, born, crashes, failed, removed>>

BotSeqs == UNION {{s \in [1..n -> Bot] : \A i, j \in 1..n : i # j => s[i] # s[j]} :
                     n \in 0..Cardinality(Bot)}

Execute ==
    \/ SaveRow \/ UnlistPlayers \/ ListPlayer \/ SaveProfile \/ SaveStats
    \/ DeleteRow \/ TakeSeat \/ Answer \/ StartNewRound \/ Handled
    \/ PlayBot \/ StopPlaying \/ AnswerRemoved

Next ==
    \/ \E p \in Human :
          \/ \E bots \in BotSeqs : HandleCreateGame(p, bots)
          \/ HandleJoinByCode(p)
          \/ HandleLeaveGame(p)
          \/ HandleGameAction(p)
    \/ HandleStartGame
    \/ HandleCleanupStaleLobbies
    \/ Execute
    \/ Crash
    \/ Restart

Spec == Init /\ [][Next]_vars

-----------------------------------------------------------------------------

(* Every variable has its type.                                            *)
RecoveryTypeOK ==
    /\ up \in BOOLEAN /\ live \in BOOLEAN /\ born \in BOOLEAN /\ removed \in BOOLEAN
    /\ game \in Game
    /\ todo \in Seq(Task)
    /\ row \in Row
    /\ listed \subseteq Player /\ profiled \subseteq Player /\ ranked \subseteq Player
    /\ crashes \in Nat /\ failures \in Nat /\ failed \subseteq Steps
    /\ joined \subseteq Player /\ saved \in Nat

(* A player who was told that he has joined has his seat in the database,  *)
(* whenever the process dies: joinGame saves before it returns.            *)
JoinedSurvives ==
    "save" \notin failed => joined \subseteq ToSet(row.seats)

(* A human's move that was dealt with is never undone by a crash: the row  *)
(* is at least as far (the bots' moves after it are not in it).            *)
HumanMovesSurvive ==
    "save" \notin failed => saved =< row.moves

(* Whenever no handler is running - also right after a restart, from       *)
(* whatever row a crash left behind - the game is in the lobby or in a     *)
(* round, never between two rounds, which only the handler that ended one  *)
(* leaves.  That whoever has the turn then plays is not said: a bot may be *)
(* waiting (AnyActiveGameResumes).                                         *)
PlayableWhenIdle ==
    (Idle /\ live) => game.phase \in {"LOBBY", "IN_PROGRESS"}

(* A live game that a restart would not read back is one that has not been *)
(* saved yet or one whose handler is just about to write the next round:   *)
(* the window in which a crash loses a game closes with every handler.     *)
LostOnlyInsideHandlers ==
    (Idle /\ live /\ "save" \notin failed) => IsActive(row)

(* A lobby whose removal was answered is gone for good, though its rows    *)
(* were deleted in two statements.                                         *)
RemovedStaysRemoved ==
    (removed /\ "drop" \notin failed) => row = NoRow

(* The table game_players, which getGamesByPlayer goes by, names the seats *)
(* of the saved game whenever no handler runs, unless a statement failed   *)
(* or a crash came between the statements of a save.                       *)
ListedWhenIdle ==
    (todo = << >> /\ failed \cap {"unlist", "list", "drop"} = {}) =>
        \A p \in Player : FoundBy(p) <=> p \in ToSet(row.seats)

(* Everybody on the leaderboard has a name, though the two tables behind   *)
(* it are written one after the other: savePlayer gives up when the first  *)
(* of its statements fails.                                                *)
RankedAreNamed == \A entry \in Leaderboard : entry.named

-----------------------------------------------------------------------------
(* What the documentation says.                                            *)

(* docs/implementation-manual.md:256 "so a crash-restarted server can      *)
(* resume any active game".  A game that waits for a human is read back    *)
(* with a bot to move when the bots moved after the last save, and nothing *)
(* runs the bots of a game that was read back.                             *)
AnyActiveGameResumes ==
    (Idle /\ live /\ game.phase = "IN_PROGRESS" /\ Mover(game) \in Human) =>
        IsActive(row) /\ Mover(FromRow(row)) \in Human
=============================================================================
