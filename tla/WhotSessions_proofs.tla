------------------------- MODULE WhotSessions_proofs -------------------------
(***************************************************************************)
(* Theorems about WhotSessions, for every set of clients, every number of  *)
(* connections and requests, and every size of the table.                  *)
(***************************************************************************)
EXTENDS WhotSessions, SequenceTheorems, TLAPS

-----------------------------------------------------------------------------
(* The inductive invariant.  AttachedIsSeated needs OneSessionEach, since  *)
(* leaveGame unties one session only, and OneSessionEach needs it in turn, *)
(* since a fresh join destroys no other session: whoever has no seat has   *)
(* none.  A game that is gone has no session, or a new one would start     *)
(* with it.                                                                *)

NoGameNoSession == ~live => Attached = {}

IInv ==
    /\ SessionsTypeOK
    /\ OneSessionEach
    /\ AttachedIsSeated
    /\ NoGameNoSession

-----------------------------------------------------------------------------
(* Lemmas about the operators of the model.                                *)

(* A request that is read leaves the queue, one that is sent joins it.     *)
LEMMA WireMoves ==
    ASSUME NEW q \in Seq(Request)
    PROVE  /\ q # << >> => /\ Tail(q) \in Seq(Request) /\ Tail(q) # q
                           /\ Head(q) \in Request
           /\ \A r \in Request : /\ Append(q, r) \in Seq(Request)
                                 /\ q # << >> => Append(q, r) # Tail(q)
<1>1. Len(q) \in Nat /\ (q # << >> => Len(q) > 0)
  BY EmptySeq
<1>2. q # << >> => /\ Tail(q) \in Seq(Request) /\ Len(Tail(q)) = Len(q) - 1
                   /\ Head(q) \in Request
  BY HeadTailProperties
<1>3. \A r \in Request : /\ Append(q, r) \in Seq(Request)
                         /\ Len(Append(q, r)) = Len(q) + 1
  BY AppendProperties
<1> QED
  BY <1>1, <1>2, <1>3

(* A session has an owner among the clients, who is not nobody.            *)
LEMMA Owners == \A s \in Session : OwnerOf(s) \in Client /\ OwnerOf(s) # Nobody
BY SessionsAssumption DEF SessionsAssumption, Session, OwnerOf

(* The sessions of a player are his own.                                   *)
LEMMA Ties ==
    ASSUME IInv, NEW p, p # Nobody
    PROVE  /\ \A s \in Session : player[s] = p => s \in SessionsOf(p) /\ OwnerOf(s) = p
           /\ SessionsOf(p) \subseteq Attached
           /\ \A s, t \in SessionsOf(p) : s = t
           /\ live /\ p \notin seats => SessionsOf(p) = {}
<1>1. \A s \in Session : player[s] # Nobody => s \in session /\ player[s] = OwnerOf(s)
  BY DEF IInv, SessionsTypeOK
<1>2. session \subseteq Session
  BY DEF IInv, SessionsTypeOK
<1>3. SessionsOf(p) \subseteq Attached
  BY DEF SessionsOf, Attached
<1> QED
  BY <1>1, <1>2, <1>3 DEF IInv, OneSessionEach, AttachedIsSeated, SessionsOf

LEMMA InvInit == Init => IInv
<1> SUFFICES ASSUME Init PROVE IInv
  OBVIOUS
<1>1. << >> \in Seq(Request)
  OBVIOUS
<1>2. SessionsTypeOK
  <2>1. 0 \in 0..MaxConnections
    BY SessionsAssumption DEF SessionsAssumption
  <2>2. /\ socket \in [Client -> 0..MaxConnections]
        /\ link \in [Session -> {"unused", "open", "closing", "closed"}]
        /\ wire \in [Session -> Seq(Request)]
    BY <1>1, <2>1 DEF Init
  <2>3. /\ player \in [Session -> Client \cup {Nobody}]
        /\ \A s \in Session : player[s] = Nobody
    BY DEF Init
  <2> QED
    BY <2>2, <2>3 DEF Init, SessionsTypeOK
<1>3. Attached = {}
  BY DEF Init, Attached
<1> QED
  BY <1>2, <1>3 DEF IInv, OneSessionEach, AttachedIsSeated, NoGameNoSession

-----------------------------------------------------------------------------
(* Each step keeps the invariant.                                          *)

LEMMA WireStep ==
    ASSUME IInv, [Next]_vars
    PROVE  wire' \in [Session -> Seq(Request)]
<1>1. wire \in [Session -> Seq(Request)] /\ << >> \in Seq(Request)
  BY DEF IInv, SessionsTypeOK
<1>2. ASSUME NEW s \in Session, NEW r \in Request, wire' = [wire EXCEPT ![s] = Append(@, r)]
      PROVE  wire' \in [Session -> Seq(Request)]
  <2>1. Append(wire[s], r) \in Seq(Request)
    BY <1>1, WireMoves
  <2> QED
    BY <1>1, <1>2, <2>1
<1>3. ASSUME NEW p \in Client, NEW k \in 0..MaxConnections, AsksToJoin(p, k)
      PROVE  wire' \in [Session -> Seq(Request)]
  <2>1. k # 0 => <<p, k>> \in Session
    BY SessionsAssumption DEF SessionsAssumption, Session
  <2> QED
    BY <1>1, <1>2, <1>3, <2>1 DEF AsksToJoin, Request
<1>4. socket \in [Client -> 0..MaxConnections]
  BY DEF IInv, SessionsTypeOK
<1>5. ASSUME NEW p \in Client, Connect(p) PROVE wire' \in [Session -> Seq(Request)]
  <2>1. 1..MaxConnections \subseteq 0..MaxConnections
    BY SessionsAssumption DEF SessionsAssumption
  <2> QED
    BY <1>1, <1>3, <1>5, <2>1 DEF Connect
<1>6. ASSUME NEW p \in Client, NEW r \in Request, Send(p, r)
      PROVE  wire' \in [Session -> Seq(Request)]
  <2>1. <<p, socket[p]>> \in Session
    BY <1>4, <1>6, SessionsAssumption DEF Send, SessionsAssumption, Session
  <2> QED
    BY <1>2, <1>6, <2>1 DEF Send
<1>7. ASSUME NEW p \in Client, HandleCreateGame(p) \/ HandleJoinByCode(p)
      PROVE  wire' \in [Session -> Seq(Request)]
  BY <1>3, <1>4, <1>7 DEF HandleCreateGame, HandleJoinByCode
<1>8. ASSUME NEW s \in Session, NEW r \in Request, Serves(s, r)
      PROVE  wire' \in [Session -> Seq(Request)]
  <2>1. Tail(wire[s]) \in Seq(Request)
    BY <1>1, <1>8, WireMoves DEF Serves, Readable
  <2> QED
    BY <1>1, <1>8, <2>1 DEF Serves
<1>9. ASSUME NEW s \in Session, Serve(s) PROVE wire' \in [Session -> Seq(Request)]
  BY <1>8, <1>9 DEF Serve, HandleJoinGame, HandleLeaveGame, HandleStartGame,
                    HandleGameAction, Request
<1>10. ASSUME NEW s \in Session, OnClose(s) PROVE wire' \in [Session -> Seq(Request)]
  BY <1>1, <1>10 DEF OnClose
<1>11. CASE UNCHANGED wire
  BY <1>1, <1>11
<1> QED
  BY <1>5, <1>6, <1>7, <1>9, <1>10, <1>11
     DEF Next, HandleCleanupStaleLobbies, CheckTimeouts, Drop, vars

LEMMA LinkStep ==
    ASSUME IInv, [Next]_vars
    PROVE  /\ link' \in [Session -> {"unused", "open", "closing", "closed"}]
           /\ socket' \in [Client -> 0..MaxConnections]
           /\ known' \subseteq Client
<1>1. /\ link \in [Session -> {"unused", "open", "closing", "closed"}]
      /\ socket \in [Client -> 0..MaxConnections]
      /\ known \subseteq Client
      /\ 0 \in 0..MaxConnections /\ 1..MaxConnections \subseteq 0..MaxConnections
  BY SessionsAssumption DEF IInv, SessionsTypeOK, SessionsAssumption
<1>2. ASSUME NEW p \in Client, Connect(p)
      PROVE  /\ link' \in [Session -> {"unused", "open", "closing", "closed"}]
             /\ socket' \in [Client -> 0..MaxConnections]
  BY <1>1, <1>2 DEF Connect
<1>3. ASSUME NEW p \in Client, Drop(p) PROVE socket' \in [Client -> 0..MaxConnections]
  BY <1>1, <1>3 DEF Drop
<1>4. ASSUME CheckTimeouts
      PROVE  link' \in [Session -> {"unused", "open", "closing", "closed"}]
  BY <1>1, <1>4 DEF CheckTimeouts
<1>5. ASSUME NEW s \in Session, OnClose(s)
      PROVE  link' \in [Session -> {"unused", "open", "closing", "closed"}]
  BY <1>1, <1>5 DEF OnClose
<1>6. ASSUME NEW s \in Session, Serve(s) PROVE UNCHANGED <<client, link>>
  BY <1>6 DEF Serve, HandleJoinGame, HandleLeaveGame, HandleStartGame, HandleGameAction
<1> QED
  BY <1>1, <1>2, <1>3, <1>4, <1>5, <1>6
     DEF Next, Connect, Drop, Send, HandleCreateGame, HandleJoinByCode,
         HandleCleanupStaleLobbies, CheckTimeouts, OnClose, client, vars

LEMMA TableStep ==
    ASSUME IInv, [Next]_vars
    PROVE  /\ live' \in BOOLEAN
           /\ phase' \in {"LOBBY", "IN_PROGRESS"}
           /\ creator' \subseteq Client
           /\ seats' \subseteq Client
<1> DEFINE Typed == /\ live' \in BOOLEAN
                    /\ phase' \in {"LOBBY", "IN_PROGRESS"}
                    /\ creator' \subseteq Client
                    /\ seats' \subseteq Client
<1>1. /\ live \in BOOLEAN
      /\ phase \in {"LOBBY", "IN_PROGRESS"}
      /\ creator \subseteq Client
      /\ seats \subseteq Client
  BY DEF IInv, SessionsTypeOK
<1>2. CASE UNCHANGED table
  BY <1>1, <1>2 DEF table
<1>3. ASSUME NEW p \in Client, HandleCreateGame(p) \/ HandleJoinByCode(p) PROVE Typed
  BY <1>1, <1>3 DEF HandleCreateGame, HandleJoinByCode, TakesSeat
<1>4. ASSUME NEW p, LeavesSeat(p) PROVE Typed
  BY <1>1, <1>4 DEF LeavesSeat
<1>5. ASSUME NEW s \in Session, Serve(s) PROVE Typed
  <2>1. OwnerOf(s) \in Client
    BY Owners
  <2>2. CASE HandleJoinGame(s)
    BY <1>1, <1>2, <2>1, <2>2 DEF HandleJoinGame, Reattach, FreshJoin, TakesSeat
  <2>3. CASE HandleLeaveGame(s)
    BY <1>2, <1>4, <2>3 DEF HandleLeaveGame
  <2>4. CASE HandleStartGame(s)
    BY <1>1, <2>4 DEF HandleStartGame
  <2>5. CASE HandleGameAction(s)
    BY <1>2, <2>5 DEF HandleGameAction
  <2> QED
    BY <1>5, <2>2, <2>3, <2>4, <2>5 DEF Serve
<1>6. ASSUME NEW s \in Session, OnClose(s) PROVE Typed
  BY <1>2, <1>4, <1>6 DEF OnClose, HandleDisconnection, table
<1>7. CASE HandleCleanupStaleLobbies
  BY <1>1, <1>7 DEF HandleCleanupStaleLobbies
<1> QED
  BY <1>2, <1>3, <1>5, <1>6, <1>7 DEF Next, CheckTimeouts, Connect, Drop, Send, vars

(* A leaver's one session is untied; then nobody without a seat has one.   *)
LEMMA Leaving ==
    ASSUME IInv, live, NEW p \in Client, LeavesSeat(p), session' \subseteq session,
           \A s \in session \ session' : OwnerOf(s) = p
    PROVE  /\ player' \in [Session -> Client \cup {Nobody}]
           /\ \A s \in Session : player'[s] # Nobody =>
                 /\ s \in session' /\ player'[s] = player[s]
                 /\ player'[s] = OwnerOf(s) /\ player'[s] # p
           /\ seats' = seats \ {p} /\ live'
<1>1. p # Nobody
  BY SessionsAssumption DEF SessionsAssumption
<1>2. /\ player \in [Session -> Client \cup {Nobody}]
      /\ session \subseteq Session
      /\ \A s \in Session : player[s] # Nobody => s \in session /\ player[s] = OwnerOf(s)
  BY DEF IInv, SessionsTypeOK
<1>3. /\ \A s \in Session : player[s] = p => s \in SessionsOf(p)
      /\ \A s, t \in SessionsOf(p) : s = t
  BY <1>1, Ties
<1>4. /\ player' \in [Session -> Client \cup {Nobody}]
      /\ \A s \in Session : player'[s] = IF player[s] = p THEN Nobody ELSE player[s]
  <2>1. CASE SessionsOf(p) = {}
    BY <1>2, <1>3, <2>1 DEF LeavesSeat
  <2>2. CASE SessionsOf(p) # {}
    <3>1. PICK t \in SessionsOf(p) : player' = [player EXCEPT ![t] = Nobody]
      BY <2>2 DEF LeavesSeat
    <3>2. t \in Session /\ player[t] = p
      BY <1>2 DEF SessionsOf
    <3> QED
      BY <1>2, <1>3, <3>1, <3>2
  <2> QED
    BY <2>1, <2>2
<1> QED
  BY <1>2, <1>4 DEF LeavesSeat

(* What the invariant says of the ties, session by session.                *)
TiesHold ==
    /\ session \subseteq Session
    /\ player \in [Session -> Client \cup {Nobody}]
    /\ \A s \in Session : player[s] # Nobody =>
          s \in session /\ player[s] = OwnerOf(s) /\ live /\ player[s] \in seats
    /\ \A s, t \in Session : player[s] # Nobody /\ player[s] = player[t] => s = t

LEMMA InvTies == IInv => TiesHold
BY DEF IInv, TiesHold, SessionsTypeOK, OneSessionEach, AttachedIsSeated,
       NoGameNoSession, Attached

LEMMA TiesInv ==
    TiesHold => OneSessionEach /\ AttachedIsSeated /\ NoGameNoSession
BY DEF TiesHold, OneSessionEach, AttachedIsSeated, NoGameNoSession, Attached

LEMMA TiesStep ==
    ASSUME IInv, [Next]_vars
    PROVE  TiesHold'
<1>1. TiesHold
  BY InvTies
<1>2. CASE UNCHANGED <<session, player, live, seats>>
  BY <1>1, <1>2 DEF TiesHold
<1>3. ASSUME NEW p \in Client, Connect(p) PROVE TiesHold'
  <2>1. UNCHANGED <<player, live, seats>> /\ session \subseteq session'
    BY <1>3 DEF Connect, table
  <2>2. session' \subseteq Session
    BY <1>1, <1>3 DEF Connect, Session, TiesHold
  <2> QED
    BY <1>1, <2>1, <2>2 DEF TiesHold
<1>4. ASSUME NEW p \in Client, HandleCreateGame(p) PROVE TiesHold'
  <2>1. ~live /\ UNCHANGED <<session, player>>
    BY <1>4 DEF HandleCreateGame
  <2> QED
    BY <1>1, <2>1 DEF TiesHold
<1>5. ASSUME NEW p \in Client, HandleJoinByCode(p) PROVE TiesHold'
  <2>1. UNCHANGED <<session, player, live>> /\ seats \subseteq seats'
    BY <1>5 DEF HandleJoinByCode, TakesSeat
  <2> QED
    BY <1>1, <2>1 DEF TiesHold
<1>6. CASE HandleCleanupStaleLobbies
  BY <1>1, <1>6 DEF HandleCleanupStaleLobbies, TiesHold
<1>7. CASE CheckTimeouts
  <2>1. PICK expired \in SUBSET session \ {{}} :
          /\ session' = session \ expired
          /\ player' = [s \in Session |-> IF s \in expired THEN Nobody ELSE player[s]]
          /\ UNCHANGED table
    BY <1>7 DEF CheckTimeouts
  <2> QED
    BY <1>1, <2>1 DEF TiesHold, table
<1>8. ASSUME NEW p \in Client, live, LeavesSeat(p), session' \subseteq session,
             \A s \in session \ session' : OwnerOf(s) = p
      PROVE  TiesHold'
  <2>1. /\ player' \in [Session -> Client \cup {Nobody}]
        /\ \A s \in Session : player'[s] # Nobody =>
              /\ s \in session' /\ player'[s] = player[s]
              /\ player'[s] = OwnerOf(s) /\ player'[s] # p
        /\ seats' = seats \ {p} /\ live'
    BY <1>8, Leaving
  <2> QED
    BY <1>1, <1>8, <2>1 DEF TiesHold
<1>9. ASSUME NEW s \in Session, HandleJoinGame(s) PROVE TiesHold'
  <2> DEFINE p == OwnerOf(s)
  <2>1. p \in Client /\ p # Nobody
    BY Owners
  <2>2. CASE live /\ Reattach(s, p)
    <3>1. UNCHANGED <<live, seats>> /\ live /\ p \in seats
      BY <2>2 DEF Reattach, table
    <3>2. session' = session \ (SessionsOf(p) \ {s}) /\ session' \subseteq session
      BY <2>2 DEF Reattach
    <3>3. /\ player' \in [Session -> Client \cup {Nobody}]
          /\ \A t \in Session : player'[t] =
                IF t = s /\ s \in session THEN p
                ELSE IF player[t] = p THEN Nobody ELSE player[t]
      BY <1>1, <2>1, <2>2 DEF Reattach, TiesHold
    <3>4. \A t \in Session : player'[t] # Nobody =>
             /\ t \in session' /\ player'[t] = OwnerOf(t) /\ player'[t] \in seats
             /\ t # s => player'[t] # p
      BY <1>1, <2>1, <3>1, <3>2, <3>3 DEF TiesHold, SessionsOf
    <3>5. \A t, u \in Session : player'[t] # Nobody /\ player'[t] = player'[u] => t = u
      BY <1>1, <2>1, <3>3, <3>4 DEF TiesHold
    <3> QED
      BY <1>1, <3>1, <3>2, <3>3, <3>4, <3>5 DEF TiesHold
  <2>3. CASE FreshJoin(s, p)
    <3>1. /\ live /\ p \notin seats /\ seats' = seats \cup {p}
          /\ UNCHANGED <<live, session>>
          /\ player' = IF s \in session THEN [player EXCEPT ![s] = p] ELSE player
      BY <2>3 DEF FreshJoin, MayJoin, TakesSeat, TiedTo
    <3>2. \A t \in Session : player[t] # p
      BY <1>1, <2>1, <3>1 DEF TiesHold
    <3> QED
      BY <1>1, <2>1, <3>1, <3>2 DEF TiesHold
  <2>4. CASE UNCHANGED <<table, session, player>>
    BY <1>2, <2>4 DEF table
  <2> QED
    BY <1>9, <2>2, <2>3, <2>4 DEF HandleJoinGame
<1>10. ASSUME NEW s \in Session, HandleLeaveGame(s) PROVE TiesHold'
  <2>1. CASE live /\ LeavesSeat(OwnerOf(s)) /\ session' = session
    BY <1>8, <2>1, Owners
  <2> QED
    BY <1>2, <1>10, <2>1 DEF HandleLeaveGame, table
<1>11. ASSUME NEW s \in Session, OnClose(s) PROVE TiesHold'
  <2>1. session' = session \ {s}
    BY <1>11 DEF OnClose
  <2>2. CASE s \in Attached /\ live /\ LeavesSeat(player[s])
    <3>1. player[s] = OwnerOf(s) /\ OwnerOf(s) \in Client
      BY <1>1, <2>2, Owners DEF TiesHold, Attached
    <3> QED
      BY <1>8, <2>1, <2>2, <3>1
  <2>3. CASE (s \notin Attached \/ ~live) /\ UNCHANGED <<table, player>>
    <3>1. player[s] = Nobody
      BY <1>1, <2>3 DEF TiesHold, Attached
    <3> QED
      BY <1>1, <2>1, <2>3, <3>1 DEF TiesHold, table
  <2> QED
    BY <1>11, <2>2, <2>3 DEF OnClose, HandleDisconnection
<1>12. ASSUME NEW s \in Session, HandleStartGame(s) \/ HandleGameAction(s) PROVE TiesHold'
  BY <1>2, <1>12 DEF HandleStartGame, HandleGameAction, table
<1> QED
  BY <1>2, <1>3, <1>4, <1>5, <1>6, <1>7, <1>9, <1>10, <1>11, <1>12
     DEF Next, Serve, Drop, Send, table, vars

LEMMA ToldStep ==
    ASSUME IInv, [Next]_vars
    PROVE  told' \subseteq Session
<1>1. told \subseteq Session
  BY DEF IInv, SessionsTypeOK
<1>2. Attached' \subseteq Session
  BY TiesStep DEF TiesHold, Attached
<1>3. ASSUME NEW s \in Session, Serve(s) PROVE told' \subseteq Session
  BY <1>1, <1>2, <1>3
     DEF Serve, HandleJoinGame, HandleLeaveGame, HandleStartGame, HandleGameAction,
         Reattach, FreshJoin, Broadcast
<1>4. ASSUME NEW s \in Session, OnClose(s) PROVE told' \subseteq Session
  BY <1>1, <1>4 DEF OnClose, HandleDisconnection
<1> QED
  BY <1>1, <1>3, <1>4
     DEF Next, HandleCleanupStaleLobbies, CheckTimeouts, Connect, Drop, Send,
         HandleCreateGame, HandleJoinByCode, vars

-----------------------------------------------------------------------------
(* The theorems.                                                           *)

(* IInv is an invariant: connecting, joining, leaving, timing out, closing *)
(* and cleaning up keep all of it, in any order.                           *)
THEOREM Invariance == Spec => []IInv
<1>1. ASSUME IInv, [Next]_vars PROVE IInv'
  <2>1. TiesHold'
    BY <1>1, TiesStep
  <2>2. OneSessionEach' /\ AttachedIsSeated' /\ NoGameNoSession'
    BY <2>1, TiesInv, PTL
  <2>3. SessionsTypeOK'
    BY <1>1, <2>1, WireStep, LinkStep, TableStep, ToldStep DEF SessionsTypeOK, TiesHold
  <2> QED
    BY <2>2, <2>3 DEF IInv
<1> QED
  BY InvInit, <1>1, PTL DEF Spec

(* Every reachable state has the types of the code's fields, and a session *)
(* is tied only to the player whose connection it is on.                   *)
THEOREM TypeCorrect == Spec => []SessionsTypeOK
<1>1. IInv => SessionsTypeOK
  BY DEF IInv
<1> QED
  BY Invariance, <1>1, PTL

(* Whoever is sent a game's states has a seat in that game.                *)
THEOREM AttachedAreSeated == Spec => []AttachedIsSeated
<1>1. IInv => AttachedIsSeated
  BY DEF IInv
<1> QED
  BY Invariance, <1>1, PTL

(* No player is ever tied to two sessions.                                 *)
THEOREM NobodyHasTwoSessions == Spec => []OneSessionEach
<1>1. IInv => OneSessionEach
  BY DEF IInv
<1> QED
  BY Invariance, <1>1, PTL

(* A connection that ends takes no seat but that of the player who is      *)
(* heard on it: not of one who has reconnected, however late it ends.      *)
THEOREM SeatsSurviveTakeovers == Spec => SeatSurvivesTakeover
<1> DEFINE Survives ==
      \A s \in Session : (link[s] # "closed" /\ link'[s] = "closed") =>
          \A p \in seats \ seats' : s \in SessionsOf(p)
<1>1. ASSUME IInv, Next PROVE Survives
  <2>1. /\ link \in [Session -> {"unused", "open", "closing", "closed"}]
        /\ session \subseteq Session
    BY <1>1 DEF IInv, SessionsTypeOK
  <2>2. CASE UNCHANGED link
    BY <2>2
  <2>3. ASSUME NEW p \in Client, Connect(p) PROVE Survives
    BY <2>1, <2>3 DEF Connect
  <2>4. CASE CheckTimeouts
    BY <2>1, <2>4 DEF CheckTimeouts
  <2>5. ASSUME NEW t \in Session, OnClose(t) PROVE Survives
    <3>1. \A s \in Session : link[s] # "closed" /\ link'[s] = "closed" => s = t
      BY <2>1, <2>5 DEF OnClose
    <3>2. \A p \in seats \ seats' : t \in SessionsOf(p)
      BY <2>5 DEF OnClose, HandleDisconnection, LeavesSeat, Attached, SessionsOf, table
    <3> QED
      BY <3>1, <3>2
  <2>6. ASSUME NEW t \in Session, Serve(t) PROVE UNCHANGED link
    BY <2>6 DEF Serve, HandleJoinGame, HandleLeaveGame, HandleStartGame, HandleGameAction
  <2> QED
    BY <1>1, <2>2, <2>3, <2>4, <2>5, <2>6
       DEF Next, Drop, Send, HandleCreateGame, HandleJoinByCode, HandleCleanupStaleLobbies
<1>2. IInv /\ [Next]_vars => [Survives]_vars
  BY <1>1
<1> QED
  BY Invariance, <1>2, PTL DEF Spec, SeatSurvivesTakeover

(* A request that is served and changes the game leaves none of the game's *)
(* sessions with the state before it.                                      *)
THEOREM RequestsAreTold == Spec => RequestIsTold
<1> DEFINE Reads(s) == Readable(s) /\ wire'[s] = Tail(wire[s]) /\ link'[s] = "open"
           Tells == told \subseteq told' \/ Attached' \subseteq told'
           Told == \A s \in Session :
                     (/\ Readable(s) /\ wire'[s] = Tail(wire[s]) /\ link'[s] = "open"
                      /\ ~(told \subseteq told')) => Attached' \subseteq told'
<1>1. ASSUME IInv, Next PROVE \A s \in Session : Reads(s) => Tells
  <2>1. wire \in [Session -> Seq(Request)] /\ "JOIN_GAME" \in Request
    BY <1>1 DEF IInv, SessionsTypeOK, Request
  <2>2. ASSUME NEW s \in Session, Readable(s), wire'[s] = Tail(wire[s])
        PROVE  wire'[s] # wire[s] /\ \A r \in Request : wire'[s] # Append(wire[s], r)
    BY <2>1, <2>2, WireMoves DEF Readable
  <2>3. ASSUME NEW t, NEW r \in Request, wire' = [wire EXCEPT ![t] = Append(@, r)]
        PROVE  \A s \in Session : ~Reads(s)
    <3>1. \A s \in Session : wire'[s] = wire[s] \/ wire'[s] = Append(wire[s], r)
      BY <2>1, <2>3
    <3> QED
      BY <2>2, <3>1
  <2>4. ASSUME UNCHANGED wire PROVE \A s \in Session : ~Reads(s)
    BY <2>2, <2>4
  <2>5. ASSUME NEW p, NEW k, AsksToJoin(p, k) PROVE \A s \in Session : ~Reads(s)
    <3>1. CASE UNCHANGED wire
      BY <2>4, <3>1
    <3>2. CASE wire' = [wire EXCEPT ![<<p, k>>] = Append(@, "JOIN_GAME")]
      BY <2>1, <2>3, <3>2
    <3> QED
      BY <2>5, <3>1, <3>2 DEF AsksToJoin
  <2>6. ASSUME NEW p \in Client,
               \/ Connect(p) \/ HandleCreateGame(p) \/ HandleJoinByCode(p)
               \/ \E r \in Request : Send(p, r)
        PROVE  \A s \in Session : ~Reads(s)
    <3>1. CASE Connect(p)
      <4>1. PICK k \in 1..MaxConnections : AsksToJoin(p, k) \/ UNCHANGED wire
        BY <3>1 DEF Connect
      <4> QED
        BY <2>4, <2>5, <4>1
    <3>2. CASE HandleCreateGame(p) \/ HandleJoinByCode(p)
      BY <2>5, <3>2 DEF HandleCreateGame, HandleJoinByCode
    <3>3. CASE \E r \in Request : Send(p, r)
      BY <2>3, <3>3 DEF Send
    <3> QED
      BY <2>6, <3>1, <3>2, <3>3
  <2>7. ASSUME NEW t \in Session, OnClose(t) PROVE \A s \in Session : ~Reads(s)
    <3>1. link'[t] # "open" /\ \A s \in Session : s # t => wire'[s] = wire[s]
      BY <1>1, <2>1, <2>7 DEF OnClose, IInv, SessionsTypeOK
    <3> QED
      BY <2>2, <3>1
  <2>8. ASSUME NEW t \in Session, Serve(t) PROVE Tells
    BY <2>8 DEF Serve, HandleJoinGame, HandleLeaveGame, HandleStartGame,
                HandleGameAction, Reattach, FreshJoin, Broadcast
  <2> QED
    BY <1>1, <2>4, <2>6, <2>7, <2>8
       DEF Next, Drop, HandleCleanupStaleLobbies, CheckTimeouts
<1>2. IInv /\ [Next]_vars => [Told]_vars
  BY <1>1
<1> QED
  BY Invariance, <1>2, PTL DEF Spec, RequestIsTold
=============================================================================
