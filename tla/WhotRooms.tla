------------------------------ MODULE WhotRooms -----------------------------
(***************************************************************************)
(* The games of one server while HTTP requests run at the same time, each  *)
(* on a thread of its own, next to the WebSocket thread.  gamesMutex_      *)
(* protects the two maps activeGames_ and gameActivity_ and nothing else:  *)
(* the GameState a handler got from getGame is read and written without a  *)
(* lock, and a clean-up may destroy it meanwhile.  A step is what one      *)
(* thread does between two points where another may come in: GameState's   *)
(* addPlayer looks at the size in one and appends in the next.  (That two  *)
(* threads write one vector at once is undefined on top; every property of *)
(* a table is about games no two threads were in at once.)                 *)
(*                                                                         *)
(* A request is one player's (its id is made for it), and a game is named  *)
(* after the request that creates it.  The cards and the moves are         *)
(* WhotEngine's, crashes and failing statements WhotRecovery's,            *)
(* connections WhotSessions'.                                              *)
(***************************************************************************)
EXTENDS Integers, Sequences, FiniteSets, SequencesExt, Functions

CONSTANTS
    Request,    \* HTTP requests
    Code,       \* game codes generateGameCode may come up with
    Bot,        \* what sits on a bot's seat
    None,
    BotCounts,  \* botCount of POST /api/games
    MinPlayers,
    MaxPlayers,
    MaxGames,   \* ApplicationConfig::maxGamesPerServer
    MaxTries    \* codes createGame draws: 20

ASSUME RoomsAssumption ==
    /\ Bot \notin Request /\ None \notin Request \cup Code \cup {Bot}
    /\ BotCounts \subseteq Nat /\ MinPlayers \in Nat
    /\ MaxPlayers \in Nat /\ MaxGames \in Nat /\ MaxTries \in Nat \ {0}

\* No answer is not an answer.
ASSUME NoneIsNoStatus == None \notin {200, 201, 400, 404, 500, 503}

VARIABLES
    active,    \* activeGames_: the games that exist
    activity,  \* gameActivity_: whether the last activity is long ago
    table,     \* the GameState of each game
    row,       \* the row of each game in the database
    at,        \* what each request's thread does next
    own,       \* its local variables
    serving,   \* what the WebSocket thread does next, and for which game
    told,      \* the answer to each request
    left,      \* history: players that left their game
    raced,     \* history: games two threads were in at the same time
    abreast    \* history: pairs of threads that had a code and no game yet

vars == <<active, activity, table, row, at, own, serving, told, left, raced, abreast>>

-----------------------------------------------------------------------------

Phase   == {"LOBBY", "IN_PROGRESS"}
Seat    == Request \cup {Bot}
Table   == [phase : Phase, seats : Seq(Seat), creator : Seat \cup {None},
            dealt : SUBSET Seat, code : Code \cup {None}]
NoRow   == [phase |-> None, seats |-> << >>]
NewGame == [phase |-> "LOBBY", seats |-> << >>, creator |-> None, dealt |-> {},
            code |-> None]

Snapshot == [phase : Phase \cup {None}, seats : Seq(Seat)]

Step == {"new", "code", "insert", "load", "save", "write", "join", "seat", "push",
         "touch", "bots", "remove", "done"}

Local == [game : Request \cup {None}, code : Code \cup {None}, attempt : Nat,
          snapshot : Snapshot, first : BOOLEAN,
          then : {"join", "touch", "answer"}, bots : Int, creates : BOOLEAN,
          stale : SUBSET Request]

NoLocal == [game |-> None, code |-> None, attempt |-> 0, snapshot |-> NoRow,
            first |-> FALSE, then |-> "answer", bots |-> 0, creates |-> FALSE, stale |-> {}]

Seated(g) == Range(table[g].seats)

\* The games a thread is in: it holds a pointer, or has them on its list.
Holds(r) == IF at[r] \in {"save", "write", "seat", "push", "touch"} THEN {own[r].game}
            ELSE IF at[r] = "remove" THEN own[r].stale
            ELSE IF at[r] \in {"load", "join", "bots"} /\ own[r].creates THEN {own[r].game}
            ELSE {}

\* Two threads are in one game: both HTTP, or one of them the WebSocket's.
Crowded(g) ==
    \/ \E r, s \in Request : r # s /\ g \in Holds(r) \cap Holds(s)
    \/ serving.step # "idle" /\ serving.game = g /\ \E r \in Request : g \in Holds(r)

\* Two creations are between the end of their loop and their insertion.
Abreast(r, s) == r # s /\ at[r] = "insert" /\ at[s] = "insert"

InUse(c) == \E g \in active : table[g].code = c

\* Players know the id made for them from the answer.
Joined(p) == told[p] \in {200, 201} /\ own[p].game # None

-----------------------------------------------------------------------------

Init ==
    /\ active = {}
    /\ activity = << >>
    /\ table = [g \in Request |-> NewGame]
    /\ row = [g \in Request |-> NoRow]
    /\ at = [r \in Request |-> "new"]
    /\ own = [r \in Request |-> NoLocal]
    /\ serving = [step |-> "idle", game |-> None, snapshot |-> NoRow]
    /\ told = [r \in Request |-> None]
    /\ left = {} /\ raced = {} /\ abreast = {}

Goto(r, step) == at' = [at EXCEPT ![r] = step]

Answer(r, status) == Goto(r, "done") /\ told' = [told EXCEPT ![r] = status]

maps == <<active, activity>>
ws   == <<serving, left>>

\* POST /api/games.
AskToCreate(r) ==
    /\ at[r] = "new"
    /\ \E n \in BotCounts :
          own' = [own EXCEPT ![r] = [NoLocal EXCEPT !.game = r, !.creates = TRUE,
                     !.bots = IF n >= MaxPlayers THEN MaxPlayers - 1 ELSE n]]
    /\ Goto(r, "code")
    /\ UNCHANGED <<maps, table, row, ws, told>>

\* Mutant: the first code will do.
FirstCode(r) ==
    /\ at[r] = "code"
    /\ \E c \in Code : own' = [own EXCEPT ![r].code = c]
    /\ Goto(r, "insert")
    /\ UNCHANGED <<maps, table, row, ws, told>>

\* createGame's loop: a code, looked up under the lock.  The last one drawn
\* is taken all the same.
DrawCode(r) ==
    /\ at[r] = "code"
    /\ \E c \in Code :
          LET tries == own[r].attempt + 1 IN
          IF InUse(c)
            THEN /\ own' = [own EXCEPT ![r] = [@ EXCEPT !.code = c, !.attempt = tries]]
                 /\ Goto(r, IF tries >= MaxTries THEN "insert" ELSE "code")
            ELSE /\ own' = [own EXCEPT ![r].code = c]
                 /\ Goto(r, "insert")
    /\ UNCHANGED <<maps, table, row, ws, told>>

\* Mutant: the size of the map is not looked at.
InsertAnyway(r) ==
    /\ at[r] = "insert"
    /\ active' = active \cup {r}
    /\ activity' = [g \in DOMAIN activity \cup {r} |-> IF g = r THEN "fresh" ELSE activity[g]]
    /\ table' = [table EXCEPT ![r] = [NewGame EXCEPT !.code = own[r].code]]
    /\ Goto(r, "load")
    /\ UNCHANGED <<row, own, ws, told>>

\* createGame, under the lock.  (503 is handleCreateGame's; statusLine knows
\* no such code and sends it as "200 OK".)
Insert(r) ==
    /\ at[r] = "insert"
    /\ IF Cardinality(active) >= MaxGames
         THEN Answer(r, 503) /\ UNCHANGED <<maps, table>>
         ELSE /\ active' = active \cup {r}
              /\ activity' = [g \in DOMAIN activity \cup {r} |->
                                 IF g = r THEN "fresh" ELSE activity[g]]
              /\ table' = [table EXCEPT ![r] = [NewGame EXCEPT !.code = own[r].code]]
              /\ Goto(r, "load") /\ UNCHANGED told
    /\ UNCHANGED <<row, own, ws>>

\* createGame gets the game it has just inserted, if it is still there.
Load(r) ==
    /\ at[r] = "load"
    /\ Goto(r, IF own[r].game \in active THEN "save" ELSE "join")
    /\ own' = [own EXCEPT ![r].then = "join"]
    /\ UNCHANGED <<maps, table, row, ws, told>>

\* A thread that goes on with a game that has been destroyed: what it does
\* then is undefined, and here it ends.
Lost(r) ==
    /\ at[r] \in {"save", "write", "seat", "push"}
    /\ own[r].game \notin active
    /\ Answer(r, 500)
    /\ UNCHANGED <<maps, table, row, own, ws>>

\* saveGame: toJson ...
Save(r) ==
    /\ at[r] = "save"
    /\ own[r].game \in active
    /\ own' = [own EXCEPT ![r].snapshot =
                  [phase |-> table[own[r].game].phase, seats |-> table[own[r].game].seats]]
    /\ Goto(r, "write")
    /\ UNCHANGED <<maps, table, row, ws, told>>

\* Mutant: the thread stops after the bots are saved, without an answer.
NoAnswer(r) ==
    /\ at[r] = "write"
    /\ row' = [row EXCEPT ![own[r].game] = own[r].snapshot]
    /\ own' = [own EXCEPT ![r].snapshot = NoRow]
    /\ Goto(r, own[r].then)
    /\ UNCHANGED <<maps, table, ws, told>>

\* ... and the statement, which waits for the database's own lock; the game
\* may be gone by then.
Write(r) ==
    /\ at[r] = "write"
    /\ row' = [row EXCEPT ![own[r].game] = own[r].snapshot]
    /\ IF own[r].then = "answer" THEN Answer(r, 201)
                                 ELSE Goto(r, own[r].then) /\ UNCHANGED told
    /\ own' = [own EXCEPT ![r].snapshot = NoRow]
    /\ UNCHANGED <<maps, table, ws>>

\* POST /api/games/:id/join, and /api/games/join with the code looked up.
Ask(r, g) ==
    /\ at[r] = "new"
    /\ g \in active
    /\ own' = [own EXCEPT ![r] = [NoLocal EXCEPT !.game = g]]
    /\ Goto(r, "join")
    /\ UNCHANGED <<maps, table, row, ws, told>>

AskByCode(r, c) ==
    /\ at[r] = "new"
    /\ IF InUse(c)
         THEN \E g \in active :
                 /\ table[g].code = c
                 /\ own' = [own EXCEPT ![r] = [NoLocal EXCEPT !.game = g]]
                 /\ Goto(r, "join") /\ UNCHANGED told
         ELSE Answer(r, 404) /\ UNCHANGED own
    /\ UNCHANGED <<maps, table, row, ws>>

\* Mutant: the seats are left to addPlayer.
CheckPhaseOnly(r) ==
    /\ at[r] = "join"
    /\ IF own[r].game \in active /\ table[own[r].game].phase = "LOBBY"
         THEN /\ own' = [own EXCEPT ![r].then = "touch"]
              /\ Goto(r, "seat") /\ UNCHANGED told
         ELSE Answer(r, IF own[r].creates THEN 500 ELSE 400) /\ UNCHANGED own
    /\ UNCHANGED <<maps, table, row, ws>>

\* joinGame, up to addPlayer.
CheckJoin(r) ==
    LET g == own[r].game IN
    /\ at[r] = "join"
    /\ IF g \in active /\ table[g].phase = "LOBBY" /\ Len(table[g].seats) < MaxPlayers
         THEN /\ own' = [own EXCEPT ![r].then = "touch"]
              /\ Goto(r, "seat") /\ UNCHANGED told
         ELSE Answer(r, IF own[r].creates THEN 500 ELSE 400) /\ UNCHANGED own
    /\ UNCHANGED <<maps, table, row, ws>>

\* Whom a thread seats: its player first, its bots when he has been saved.
Newcomer(r) == IF own[r].then = "touch" THEN r ELSE Bot

\* After addPlayer: the next bot, or saveGame.
NextBot(r) == Newcomer(r) = Bot /\ own[r].bots > 1

AfterSeat(r) == IF NextBot(r) THEN "seat" ELSE "save"
BotsLeft(r)  == IF NextBot(r) THEN own[r].bots - 1 ELSE own[r].bots

\* addPlayer looks at the size again, and says nothing when there is no
\* seat left ...
AddPlayer(r) ==
    LET seats == table[own[r].game].seats IN
    /\ at[r] = "seat"
    /\ own[r].game \in active
    /\ IF Len(seats) < MaxPlayers
         THEN own' = [own EXCEPT ![r].first = seats = << >>] /\ Goto(r, "push")
         ELSE own' = [own EXCEPT ![r].bots = BotsLeft(r)] /\ Goto(r, AfterSeat(r))
    /\ UNCHANGED <<maps, table, row, ws, told>>

\* ... and appends; the first one is the creator.
SitDown(t, p, first) ==
    [t EXCEPT !.seats = Append(t.seats, p), !.creator = IF first THEN p ELSE t.creator]

PushPlayer(r) ==
    /\ at[r] = "push"
    /\ own[r].game \in active
    /\ table' = [table EXCEPT ![own[r].game] = SitDown(@, Newcomer(r), own[r].first)]
    /\ own' = [own EXCEPT ![r] = [@ EXCEPT !.bots = BotsLeft(r), !.first = FALSE]]
    /\ Goto(r, AfterSeat(r))
    /\ UNCHANGED <<maps, row, ws, told>>

\* Mutant: touchGameActivity does not look whether the game is still there.
TouchAnyway(r) ==
    /\ at[r] = "touch"
    /\ activity' = [g \in DOMAIN activity \cup {own[r].game} |->
                       IF g = own[r].game THEN "fresh" ELSE activity[g]]
    /\ IF own[r].creates /\ own[r].bots > 0
         THEN Goto(r, "bots") /\ UNCHANGED told
         ELSE Answer(r, IF own[r].creates THEN 201 ELSE 200)
    /\ UNCHANGED <<active, table, row, own, ws>>

Touch(r) ==
    /\ at[r] = "touch"
    /\ activity' = IF own[r].game \in active THEN [activity EXCEPT ![own[r].game] = "fresh"]
                                             ELSE activity
    /\ IF own[r].creates /\ own[r].bots > 0
         THEN Goto(r, "bots") /\ UNCHANGED told
         ELSE Answer(r, IF own[r].creates THEN 201 ELSE 200)
    /\ UNCHANGED <<active, table, row, own, ws>>

\* addBotsToGame, up to its loop of addPlayer: as many as seats are free.
CountBots(r) ==
    LET g    == own[r].game
        free == MaxPlayers - Len(table[g].seats)
        n    == IF own[r].bots > free THEN free ELSE own[r].bots
    IN  /\ at[r] = "bots"
        /\ IF g \notin active \/ free =< 0
             THEN Answer(r, 201) /\ UNCHANGED own
             ELSE /\ own' = [own EXCEPT ![r] = [@ EXCEPT !.then = "answer", !.bots = n]]
                  /\ Goto(r, "seat") /\ UNCHANGED told
        /\ UNCHANGED <<maps, table, row, ws>>

\* Time passes without anything happening to a game.
Idle(g) ==
    /\ g \in active /\ activity[g] = "fresh"
    /\ activity' = [activity EXCEPT ![g] = "stale"]
    /\ UNCHANGED <<active, table, row, at, own, ws, told>>

\* Mutant: what is idle is removed, lobby or not.
CollectIdle(r) ==
    /\ at[r] = "new"
    /\ own' = [own EXCEPT ![r].stale = {g \in active : activity[g] = "stale"}]
    /\ Goto(r, "remove")
    /\ UNCHANGED <<maps, table, row, ws, told>>

\* POST /api/games/cleanup-stale: collect under the lock ...
Collect(r) ==
    /\ at[r] = "new"
    /\ own' = [own EXCEPT ![r].stale =
                  {g \in active : table[g].phase = "LOBBY" /\ activity[g] = "stale"}]
    /\ Goto(r, "remove")
    /\ UNCHANGED <<maps, table, row, ws, told>>

\* Mutant: the row stays.
RemoveFromMemory(r, g) ==
    /\ at[r] = "remove"
    /\ g \in own[r].stale
    /\ active' = active \ {g}
    /\ activity' = [h \in DOMAIN activity \ {g} |-> activity[h]]
    /\ own' = [own EXCEPT ![r].stale = @ \ {g}]
    /\ UNCHANGED <<table, row, at, ws, told>>

\* ... then removeGame for each, under the lock again, the rows included.
RemoveGame(r, g) ==
    /\ at[r] = "remove"
    /\ g \in own[r].stale
    /\ active' = active \ {g}
    /\ activity' = [h \in DOMAIN activity \ {g} |-> activity[h]]
    /\ row' = [row EXCEPT ![g] = NoRow]
    /\ own' = [own EXCEPT ![r].stale = @ \ {g}]
    /\ UNCHANGED <<table, at, ws, told>>

RemovedAll(r) ==
    /\ at[r] = "remove"
    /\ own[r].stale = {}
    /\ Answer(r, 200)
    /\ UNCHANGED <<maps, table, row, own, ws>>

\* startGame, and startNewRound's deal to whoever sits there.
Deal(t) == [t EXCEPT !.phase = "IN_PROGRESS", !.dealt = Range(t.seats)]

\* START_GAME of the creator, on the WebSocket thread: the checks and the
\* deal ...
StartGame(g) ==
    /\ serving.step = "idle"
    /\ g \in active
    /\ table[g].phase = "LOBBY"
    /\ table[g].creator \in Request /\ Joined(table[g].creator)
    /\ Len(table[g].seats) >= MinPlayers
    /\ table' = [table EXCEPT ![g] = Deal(@)]
    /\ serving' = [serving EXCEPT !.step = "save", !.game = g]
    /\ UNCHANGED <<maps, row, at, own, left, told>>

NotServing == [step |-> "idle", game |-> None, snapshot |-> NoRow]

\* ... its saveGame ...
SaveStarted ==
    LET g == serving.game IN
    /\ serving.step = "save"
    /\ serving' = IF g \in active
                    THEN [serving EXCEPT !.step = "write", !.snapshot =
                             [phase |-> table[g].phase, seats |-> table[g].seats]]
                    ELSE NotServing
    /\ UNCHANGED <<maps, table, row, at, own, left, told>>

WriteStarted ==
    /\ serving.step = "write"
    /\ row' = [row EXCEPT ![serving.game] = serving.snapshot]
    /\ serving' = [NotServing EXCEPT !.step = "touch", !.game = serving.game]
    /\ UNCHANGED <<maps, table, at, own, left, told>>

\* ... and the touch of broadcastGameState, with which leaveGame ends too.
TouchServed ==
    LET g == serving.game IN
    /\ serving.step = "touch"
    /\ activity' = IF g \in active THEN [activity EXCEPT ![g] = "fresh"] ELSE activity
    /\ serving' = NotServing
    /\ UNCHANGED <<active, table, row, at, own, left, told>>

\* removePlayer.
GiveUpSeat(t, i) == [t EXCEPT !.seats = RemoveAt(t.seats, i)]

\* leaveGame saves nothing, and broadcasts.  (A player has one seat: his
\* request took it.)
LeaveGame(p, g) ==
    /\ serving.step = "idle"
    /\ g \in active /\ Joined(p)
    /\ \E i \in 1..Len(table[g].seats) :
          /\ table[g].seats[i] = p
          /\ table' = [table EXCEPT ![g] = GiveUpSeat(@, i)]
    /\ left' = left \cup {p}
    /\ serving' = [serving EXCEPT !.step = "touch", !.game = g]
    /\ UNCHANGED <<maps, row, at, own, told>>

\* JOIN_GAME of a player who still sits there, or LEAVE_GAME of one who has
\* left: nothing is left of them but the touch.  (JOIN_GAME of anybody else
\* takes the steps of Ask's thread, and this one after them.)
Refresh(p, g) ==
    /\ serving.step = "idle"
    /\ g \in active /\ Joined(p) /\ own[p].game = g
    /\ serving' = [serving EXCEPT !.step = "touch", !.game = g]
    /\ UNCHANGED <<maps, table, row, at, own, left, told>>

HttpStep(r) ==
    \/ AskToCreate(r) \/ DrawCode(r) \/ Insert(r) \/ Load(r)
    \/ Save(r) \/ Write(r) \/ Lost(r)
    \/ \E g \in active : Ask(r, g)
    \/ \E c \in Code : AskByCode(r, c)
    \/ CheckJoin(r) \/ AddPlayer(r) \/ PushPlayer(r) \/ Touch(r) \/ CountBots(r)
    \/ Collect(r) \/ RemovedAll(r)
    \/ \E g \in own[r].stale : RemoveGame(r, g)

WebSocketStep ==
    \/ \E g \in active : StartGame(g)
    \/ SaveStarted \/ WriteStarted \/ TouchServed
    \/ \E p \in Request, g \in active : LeaveGame(p, g) \/ Refresh(p, g)

Next ==
    /\ \/ \E r \in Request : HttpStep(r)
       \/ WebSocketStep
       \/ \E g \in active : Idle(g)
    /\ raced' = raced \cup {g \in Request : Crowded(g)'}
    /\ abreast' = abreast \cup {p \in Request \X Request : Abreast(p[1], p[2])'}

Spec == Init /\ [][Next]_vars

-----------------------------------------------------------------------------

(* Every variable has its type.                                            *)
RoomsTypeOK ==
    /\ active \subseteq Request
    /\ DOMAIN activity \subseteq Request /\ Range(activity) \subseteq {"fresh", "stale"}
    /\ table \in [Request -> Table]
    /\ row \in [Request -> Snapshot]
    /\ at \in [Request -> Step]
    /\ own \in [Request -> Local]
    /\ serving \in [step : {"idle", "save", "write", "touch"}, game : Request \cup {None},
                     snapshot : Snapshot]
    /\ told \in [Request -> {None, 200, 201, 400, 404, 500, 503}]
    /\ left \subseteq Request /\ raced \subseteq Request /\ abreast \subseteq Request \X Request

(* However the requests run into each other, there are never more games    *)
(* than the server is configured for: createGame counts under the lock it  *)
(* inserts under.  The seats are counted without one, so only a table no   *)
(* two threads were at together is sure to have no more players than seats,*)
(* whichever of its player and its bots its creator seats first.           *)
LimitsHold ==
    /\ Cardinality(active) =< MaxGames
    /\ \A g \in active \ raced : Len(table[g].seats) =< MaxPlayers

(* gameActivity_ has an entry for each game and for no other, also when a  *)
(* game is removed while its last join is still on its way to touch it.    *)
ActivityOfLiveGames == DOMAIN activity = active

(* Who was told to have joined a game no two threads were in at once sits  *)
(* in it until he leaves, has cards once it is started, and may start it   *)
(* if he created it.  (Two joins of the last seat: one is told so and has  *)
(* no seat; a join that overlaps the start: a seat and no cards.)          *)
JoinedIsSeated ==
    \A r \in Request : \A g \in active :
        (Joined(r) /\ own[r].game = g /\ r \notin left /\ g \notin raced) =>
            /\ r \in Seated(g)
            /\ table[g].phase = "IN_PROGRESS" => r \in table[g].dealt
            /\ own[r].creates => table[g].creator = r

(* A game no two threads were ever in at once, and none is in now, is in   *)
(* the database as it is, but for who left; a removed one is not.          *)
RowsMatchGames ==
    \A g \in Request :
        (g \notin raced /\ serving.game # g /\ \A r \in Request : g \notin Holds(r)) =>
            IF g \in active
              THEN row[g].phase = table[g].phase /\ Seated(g) \subseteq Range(row[g].seats)
              ELSE row[g] = NoRow

(* Two games have one code only if one of the creations found all the      *)
(* codes it drew in use, or both had theirs and no game yet at one time:   *)
(* a code that has been looked up is free until it is used, but for the    *)
(* creations that were as far.                                             *)
CodesAreDistinct ==
    \A g, h \in active : (g # h /\ table[g].code = table[h].code) =>
        <<g, h>> \in abreast \/ MaxTries \in {own[g].attempt, own[h].attempt}

(* A clean-up takes away stale lobbies only, unless another thread was in  *)
(* the game at the same time: one that was started, joined, left or come   *)
(* back to after the collection is removed all the same.                   *)
StaleOnlyRemoved ==
    [][ \A g \in active \ active' :
            g \in raced \/ (table[g].phase = "LOBBY" /\ activity[g] = "stale") ]_vars
=============================================================================
