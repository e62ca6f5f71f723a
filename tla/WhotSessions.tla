---------------------------- MODULE WhotSessions ----------------------------
(***************************************************************************)
(* Who is connected, who sits at the table, and who has been told: the web *)
(* client's socket (game.js), WebSocketServer's connection maps, the       *)
(* SessionManager, and the Application handlers that tie a session to a    *)
(* player of a game.  One game, of which only the table (phase, creator,   *)
(* seats) is kept; what a move does to the cards is WhotEngine's.          *)
(*                                                                         *)
(* The WebSocket server runs its handlers and timers on one thread, so     *)
(* each is one step.  The HTTP requests (create, join, clean up) come from *)
(* other threads and are one step each here.  A connection is known by its *)
(* client and by how many connections that client opened before.           *)
(***************************************************************************)
EXTENDS Integers, Sequences, FiniteSets

CONSTANTS
    Client,       \* the clients; each gets its player id from an HTTP request
    MinPlayers,
    MaxPlayers,
    MaxConnections,  \* bound: connections that are opened
    MaxWire,      \* bound: requests on their way on one connection
    Nobody        \* the empty playerId of a session

ASSUME SessionsAssumption ==
    /\ MinPlayers \in Nat
    /\ MaxPlayers \in Nat
    /\ MaxConnections \in Nat
    /\ MaxWire \in Nat
    /\ Nobody \notin Client

VARIABLES
    live,     \* the game is in Application::activeGames_
    phase,    \* GameState::phase_, "LOBBY" until the game is started
    creator,  \* GameState::creatorPlayerId_, as the set of at most one id
    seats,    \* the ids in GameState::players_
    known,    \* the clients that have been given a game and a player id
    socket,   \* the number of the connection the client is on, 0 for none
    link,     \* WsServerImpl's side of each connection
    session,  \* SessionManager::sessions_: the ids of the sessions there are
    player,   \* Session::playerId of a session that is tied to the game
    wire,     \* the requests the server has yet to read from a connection
    told      \* the connections whose last game state is the present one

table  == <<live, phase, creator, seats>>
client == <<known, socket>>
vars   == <<table, client, link, session, player, wire, told>>

-----------------------------------------------------------------------------

Session == Client \X (1..MaxConnections)

OwnerOf(s) == s[1]

Request == {"JOIN_GAME", "LEAVE_GAME", "START_GAME", "PLAY_CARD"}

\* getSessionsForGame: the sessions that carry the game's id.
Attached == {s \in session : player[s] # Nobody}

SessionsOf(p) == {s \in session : player[s] = p}

\* The client's end of the connection is gone.
Abandoned(s) == socket[OwnerOf(s)] # s[2]

Readable(s) == link[s] = "open" /\ wire[s] # << >>

Serves(s, r) ==
    /\ Readable(s) /\ Head(wire[s]) = r
    /\ wire' = [wire EXCEPT ![s] = Tail(@)]

\* Mutant: the change is not broadcast.
Silent == told' = {}

\* The game has changed and broadcastGameState sends it to its sessions.
Broadcast == told' = Attached'

Init ==
    /\ live = FALSE /\ phase = "LOBBY" /\ creator = {} /\ seats = {}
    /\ known = {}
    /\ socket = [p \in Client |-> 0]
    /\ link = [s \in Session |-> "unused"]
    /\ session = {}
    /\ player = [s \in Session |-> Nobody]
    /\ wire = [s \in Session |-> << >>]
    /\ told = {}

-----------------------------------------------------------------------------
(* The client.                                                             *)

\* A client that is on a connection asks to be tied to its seat.
AsksToJoin(p, k) ==
    IF k = 0 THEN UNCHANGED wire
             ELSE wire' = [wire EXCEPT ![<<p, k>>] = Append(@, "JOIN_GAME")]

\* on_open makes the session before the client can send anything on it.
Connect(p) ==
    /\ socket[p] = 0
    /\ Cardinality({s \in Session : link[s] # "unused"}) < MaxConnections
    /\ \E k \in 1..MaxConnections :
          /\ link[<<p, k>>] = "unused" /\ \A j \in 1..k - 1 : link[<<p, j>>] # "unused"
          /\ socket' = [socket EXCEPT ![p] = k]
          /\ link' = [link EXCEPT ![<<p, k>>] = "open"]
          /\ session' = session \cup {<<p, k>>}
          /\ IF p \in known THEN AsksToJoin(p, k) ELSE UNCHANGED wire
    /\ UNCHANGED <<table, known, player, told>>

Send(p, r) ==
    LET s == <<p, socket[p]>>
    IN  /\ p \in known /\ socket[p] # 0
        /\ Len(wire[s]) < MaxWire
        /\ wire' = [wire EXCEPT ![s] = Append(@, r)]
        /\ UNCHANGED <<table, client, link, session, player, told>>

\* The page is closed or the network fails.  What was sent may still arrive.
Drop(p) ==
    /\ socket[p] # 0
    /\ socket' = [socket EXCEPT ![p] = 0]
    /\ UNCHANGED <<table, known, link, session, player, wire, told>>

\* onclose, after the server has closed the connection.
Notices(p) ==
    /\ socket[p] # 0 /\ link[<<p, socket[p]>>] \in {"closing", "closed"}
    /\ Drop(p)

-----------------------------------------------------------------------------
(* HTTP.                                                                   *)

HandleCreateGame(p) ==
    /\ ~live /\ known = {} /\ MaxPlayers > 0
    /\ live' = TRUE /\ creator' = {p} /\ seats' = {p}
    /\ known' = {p}
    /\ AsksToJoin(p, socket[p])
    /\ told' = {}
    /\ UNCHANGED <<phase, socket, link, session, player>>

\* joinGame, for a player who has no seat.
MayJoin(p) ==
    live /\ phase = "LOBBY" /\ p \notin seats /\ Cardinality(seats) < MaxPlayers

TakesSeat(p) ==
    /\ seats' = seats \cup {p}
    /\ creator' = IF seats = {} THEN {p} ELSE creator

\* Nobody at the table is told.
HandleJoinByCode(p) ==
    /\ p \notin known /\ MayJoin(p)
    /\ TakesSeat(p)
    /\ known' = known \cup {p}
    /\ AsksToJoin(p, socket[p])
    /\ told' = {}
    /\ UNCHANGED <<live, phase, socket, link, session, player>>

\* removeGame on a lobby: its sessions are erased, their connections stay.
HandleCleanupStaleLobbies ==
    /\ live /\ phase = "LOBBY"
    /\ live' = FALSE
    /\ session' = session \ Attached
    /\ player' = [s \in Session |-> Nobody]
    /\ told' = {}
    /\ UNCHANGED <<phase, creator, seats, client, link, wire>>

-----------------------------------------------------------------------------
(* The requests of a connection.  The client puts its player id into every *)
(* message, so the handlers serve it whether there is a session or not;    *)
(* setGameId and setPlayerId do nothing for a session that is gone.        *)

\* Mutant: the session gets the id of the game's creator.
TiesTheCreator(s, p) ==
    IF s \in session' /\ creator # {}
      THEN [player EXCEPT ![s] = CHOOSE c \in creator : TRUE] ELSE player

TiedTo(s, p) ==
    IF s \in session' THEN [player EXCEPT ![s] = p] ELSE player

\* Mutant: the sessions of the player's earlier connections are kept.
ReattachBeside(s, p) ==
    /\ p \in seats
    /\ session' = session
    /\ player' = TiedTo(s, p)
    /\ told' = told \cup {s}
    /\ UNCHANGED table

\* Mutant: the player's sessions are erased after the new one is tied to him.
ReattachThenErase(s, p) ==
    /\ p \in seats
    /\ session' = session \ (SessionsOf(p) \cup {s})
    /\ player' = [t \in Session |-> IF player[t] = p THEN Nobody ELSE player[t]]
    /\ told' = told \cup {s}
    /\ UNCHANGED table

\* The player has a seat: the session takes over from his other sessions,
\* and it alone is sent the state.
Reattach(s, p) ==
    /\ p \in seats
    /\ session' = session \ (SessionsOf(p) \ {s})
    /\ player' = [t \in Session |->
          IF t = s /\ s \in session THEN p
          ELSE IF player[t] = p THEN Nobody ELSE player[t]]
    /\ told' = told \cup {s}
    /\ UNCHANGED table

\* Mutant: the session is tied before joinGame is asked.
TiedFirst(s, p) ==
    /\ live /\ p \notin seats
    /\ IF MayJoin(p) THEN TakesSeat(p) ELSE UNCHANGED <<seats, creator>>
    /\ session' = session
    /\ player' = TiedTo(s, p)
    /\ Broadcast
    /\ UNCHANGED <<live, phase>>

FreshJoin(s, p) ==
    /\ MayJoin(p)
    /\ TakesSeat(p)
    /\ session' = session
    /\ player' = TiedTo(s, p)
    /\ Broadcast
    /\ UNCHANGED <<live, phase>>

HandleJoinGame(s) ==
    LET p == OwnerOf(s)
    IN  /\ Serves(s, "JOIN_GAME")
        /\ \/ live /\ Reattach(s, p)
           \/ FreshJoin(s, p)
           \/ /\ ~live \/ (p \notin seats /\ ~MayJoin(p))
              /\ UNCHANGED <<table, session, player, told>>
        /\ UNCHANGED <<client, link>>

\* leaveGame: the seat goes, and one session of the player is untied.
LeavesSeat(p) ==
    /\ seats' = seats \ {p}
    /\ IF SessionsOf(p) = {} THEN UNCHANGED player
       ELSE \E s \in SessionsOf(p) : player' = [player EXCEPT ![s] = Nobody]
    /\ UNCHANGED <<live, phase, creator>>

HandleLeaveGame(s) ==
    /\ Serves(s, "LEAVE_GAME")
    /\ \/ /\ live /\ LeavesSeat(OwnerOf(s)) /\ session' = session
          /\ Broadcast
       \/ ~live /\ UNCHANGED <<table, session, player, told>>
    /\ UNCHANGED <<client, link>>

MayStart(p) ==
    live /\ phase = "LOBBY" /\ p \in creator /\ Cardinality(seats) >= MinPlayers

HandleStartGame(s) ==
    LET p == OwnerOf(s)
    IN  /\ Serves(s, "START_GAME")
        /\ UNCHANGED <<session, player>>
        /\ \/ MayStart(p) /\ phase' = "IN_PROGRESS" /\ Broadcast
           \/ ~MayStart(p) /\ UNCHANGED <<phase, told>>
        /\ UNCHANGED <<live, creator, seats, client, link>>

\* Whether the engine accepts a seated player's move is its business.
HandleGameAction(s) ==
    /\ Serves(s, "PLAY_CARD")
    /\ UNCHANGED <<session, player>>
    /\ \/ live /\ OwnerOf(s) \in seats /\ Broadcast
       \/ UNCHANGED told
    /\ UNCHANGED <<table, client, link>>

-----------------------------------------------------------------------------
(* The end of a connection.                                                *)

\* checkTimeouts: the sessions that were idle too long (any may have been)
\* are erased first, then their connections are closed.
CheckTimeouts ==
    \E expired \in SUBSET session \ {{}} :
       /\ session' = session \ expired
       /\ player' = [s \in Session |-> IF s \in expired THEN Nobody ELSE player[s]]
       /\ link' = [s \in Session |-> IF s \in expired THEN "closing" ELSE link[s]]
       /\ UNCHANGED <<table, client, wire, told>>

\* Mutant: the handler goes by the connection, not by its session.
LeavesAnyway(s) ==
    \/ live /\ LeavesSeat(OwnerOf(s)) /\ told' = {}
    \/ ~live /\ told' = told \ {s} /\ UNCHANGED <<table, player>>

\* The disconnection handler.  It hands leaveGame the session's own strings,
\* which leaveGame then blanks: its broadcast is for a game without an id.
HandleDisconnection(s) ==
    \/ s \in Attached /\ live /\ LeavesSeat(player[s]) /\ told' = {}
    \/ (s \notin Attached \/ ~live) /\ told' = told \ {s} /\ UNCHANGED <<table, player>>

OnClose(s) ==
    /\ link[s] = "closing" \/ (link[s] = "open" /\ Abandoned(s))
    /\ link' = [link EXCEPT ![s] = "closed"]
    /\ HandleDisconnection(s)
    /\ session' = session \ {s}
    /\ wire' = [wire EXCEPT ![s] = << >>]
    /\ UNCHANGED client

-----------------------------------------------------------------------------

Serve(s) ==
    \/ HandleJoinGame(s) \/ HandleLeaveGame(s)
    \/ HandleStartGame(s) \/ HandleGameAction(s)

Next ==
    \/ HandleCleanupStaleLobbies \/ CheckTimeouts
    \/ \E p \in Client :
          \/ Connect(p) \/ Drop(p)
          \/ HandleCreateGame(p) \/ HandleJoinByCode(p)
          \/ \E r \in Request \ {"JOIN_GAME"} : Send(p, r)
    \/ \E s \in Session : Serve(s) \/ OnClose(s)

Spec == Init /\ [][Next]_vars

\* The server's thread serves what has arrived and runs the close handler
\* of a dead connection; a client sees its connection end.
Fairness ==
    /\ \A s \in Session : WF_vars(Serve(s)) /\ WF_vars(OnClose(s))
    /\ \A p \in Client : WF_vars(Notices(p))

FairSpec == Spec /\ Fairness

-----------------------------------------------------------------------------
(* Every variable has its type; only a session there is is tied to a       *)
(* player, and only to the one whose connection it is on.                  *)
SessionsTypeOK ==
    /\ live \in BOOLEAN
    /\ phase \in {"LOBBY", "IN_PROGRESS"}
    /\ creator \subseteq Client
    /\ seats \subseteq Client
    /\ known \subseteq Client
    /\ socket \in [Client -> 0..MaxConnections]
    /\ link \in [Session -> {"unused", "open", "closing", "closed"}]
    /\ session \subseteq Session
    /\ player \in [Session -> Client \cup {Nobody}]
    /\ \A s \in Session : player[s] # Nobody => s \in session /\ player[s] = OwnerOf(s)
    /\ wire \in [Session -> Seq(Request)]
    /\ told \subseteq Session

(* The session table and the table of the game agree: a session that gets  *)
(* a game's states belongs to a player of that game, through leaves,       *)
(* reconnects, timeouts and closes in any order (handleJoinGame and        *)
(* leaveGame change the two in separate calls).                            *)
AttachedIsSeated == live => \A s \in Attached : player[s] \in seats

(* A player is heard and told on one session: reattaching ends the others, *)
(* and leaveGame, which unties only the first it finds, unties all.        *)
OneSessionEach == \A s, t \in Attached : player[s] = player[t] => s = t

(* A seat outlives the connections a client has moved on from: the close   *)
(* of a connection takes a seat only if the session on it is the one its   *)
(* player is heard on, however late the server notices.                    *)
SeatSurvivesTakeover ==
    [][ \A s \in Session : (link[s] # "closed" /\ link'[s] = "closed") =>
           \A p \in seats \ seats' : s \in SessionsOf(p) ]_vars

(* A request that changes the game leaves no attached session with the     *)
(* state before it (handleLeaveGame, handleStartGame, handleGameAction and *)
(* a fresh join all broadcast after the change).                           *)
RequestIsTold ==
    [][ \A s \in Session :
          (/\ Readable(s) /\ wire'[s] = Tail(wire[s]) /\ link'[s] = "open"
           /\ ~(told \subseteq told'))
             => Attached' \subseteq told' ]_vars

(* A client with a seat that stays on a connection is, again and again,    *)
(* tied to its game - unless it loses the seat, the game or the connection.*)
SeatedIsHeard ==
    \A s \in Session :
        LET p == OwnerOf(s)
        IN  (live /\ p \in seats /\ socket[p] = s[2])
              ~> (s \in SessionsOf(p) \/ p \notin seats \/ ~live \/ Abandoned(s))

(* So it is as long as no request outlives the client's end of its         *)
(* connection: then no order of reconnects, timeouts, closes and cleanups  *)
(* leaves a client seated, connected and never told anything.              *)
HeardIfPunctual ==
    [](\A s \in Session : Abandoned(s) => ~Readable(s)) => SeatedIsHeard
=============================================================================
