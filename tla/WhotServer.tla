----------------------------- MODULE WhotServer -----------------------------
(***************************************************************************)
(* The process: main and Application's run and shutdown, the thread of the *)
(* WebSocket server, the thread that accepts HTTP connections and the      *)
(* detached thread of each of them, from the start to the end of main.     *)
(* What the requests do to the games is WhotRooms'.                        *)
(***************************************************************************)
EXTENDS WhotHttp

CONSTANTS
    Connection,  \* HTTP connections at a time
    Sent         \* the requests that may come on each: method, path, query, body, wants

ASSUME SentAssumption ==
    \A c \in Connection : \A request \in Sent[c] :
        /\ request.path \in Seq(STRING) /\ request.query \in Seq(Nat)
        /\ request.body.code \in Seq(STRING)

VARIABLES
    main,      \* where main's thread is
    shutdown,  \* g_shutdown
    database,  \* "none" (connect failed), "open", "closed"
    ws,        \* the WebSocket server's thread
    wsStop,    \* the stop it was posted
    running,   \* HttpServer::running_
    listenFd,  \* HttpServer::listenFd_ is open
    acceptor,  \* the accepting thread
    stage,     \* each connection
    sent,      \* the request on it
    cut,       \* how much of it the one recv returned
    effect,    \* what its handler did
    status     \* and answers

mainVars == <<main, shutdown, database>>
wsVars   == <<ws, wsStop>>
httpVars == <<running, listenFd, acceptor>>
connVars == <<stage, sent, cut, effect, status>>
vars     == <<mainVars, wsVars, httpVars, connVars>>

-----------------------------------------------------------------------------

NoRequest == [method |-> "", path |-> << >>, query |-> << >>, body |-> NoBody, wants |-> Nothing]

\* How much of a request there may be in the first read: a part of the method
\* (-1), so many characters of the path, the path and so many digits of the
\* query, with all of them the whole first line, or all of it with the body.
Cuts(request) == -1..Len(request.path) + Len(request.query) + 1

PathRead(c) == cut[c] >= Len(sent[c].path)
HeadRead(c) == cut[c] >= Len(sent[c].path) + Len(sent[c].query)
AllRead(c)  == cut[c] > Len(sent[c].path) + Len(sent[c].query)

Path(c)   == IF PathRead(c) THEN sent[c].path ELSE SubSeq(sent[c].path, 1, cut[c])
Query(c)  == IF HeadRead(c) THEN sent[c].query
             ELSE SubSeq(sent[c].query, 1, cut[c] - Len(sent[c].path))
Body(c)   == IF AllRead(c) THEN sent[c].body ELSE NoBody
Verb(c)   == ParseMethod(IF cut[c] < 0 THEN "" ELSE sent[c].method)
Routed(c) == Route(Verb(c), Path(c))

Init ==
    /\ main = "start" /\ shutdown = FALSE
    /\ database \in {"none", "open"}
    /\ ws = "none" /\ wsStop = FALSE
    /\ running = FALSE /\ listenFd = FALSE /\ acceptor = "none"
    /\ stage = [c \in Connection |-> "none"]
    /\ sent = [c \in Connection |-> NoRequest]
    /\ cut = [c \in Connection |-> 0]
    /\ effect = [c \in Connection |-> Nothing]
    /\ status = [c \in Connection |-> 0]

\* The signal handler, at any time.
Signal ==
    /\ ~shutdown /\ main # "exit"
    /\ shutdown' = TRUE
    /\ UNCHANGED <<main, database, wsVars, httpVars, connVars>>

\* run: start the servers.  Either port may be taken; nobody notices.
StartWebSocket ==
    /\ main = "start"
    /\ ws' \in {"idle", "ended"}
    /\ main' = "start http"
    /\ UNCHANGED <<shutdown, database, wsStop, httpVars, connVars>>

StartHttp ==
    /\ main = "start http"
    /\ \/ running' = TRUE /\ listenFd' = TRUE /\ acceptor' = "check"
       \/ UNCHANGED httpVars
    /\ main' = "wait"
    /\ UNCHANGED <<shutdown, database, wsVars, connVars>>

\* The loop looks at g_shutdown four times a second; then shutdown posts a
\* stop to the WebSocket thread and joins it.
StopWebSocket ==
    /\ main = "wait" /\ shutdown
    /\ wsStop' = TRUE
    /\ main' = "join ws"
    /\ UNCHANGED <<shutdown, database, ws, httpVars, connVars>>

\* Mutant: the WebSocket thread is not waited for.
LeaveWebSocket ==
    /\ main = "join ws"
    /\ main' = IF running THEN "stop http" ELSE "disconnect"
    /\ UNCHANGED <<shutdown, database, wsVars, httpVars, connVars>>

JoinWebSocket ==
    /\ main = "join ws" /\ ws = "ended"
    /\ main' = IF running THEN "stop http" ELSE "disconnect"
    /\ UNCHANGED <<shutdown, database, wsVars, httpVars, connVars>>

\* HttpServer::stop: the flag, the socket, the thread.
StopHttp ==
    /\ main = "stop http"
    /\ running' = FALSE
    /\ main' = "close http"
    /\ UNCHANGED <<shutdown, database, wsVars, listenFd, acceptor, connVars>>

\* The socket is gone when nobody is in accept; who waits in its queue then
\* is turned away.
Reset(mayQueue) ==
    stage' = [c \in Connection |->
                 IF stage[c] = "queued" /\ ~mayQueue THEN "none" ELSE stage[c]]

CloseHttp ==
    /\ main = "close http"
    /\ listenFd' = FALSE
    /\ Reset(acceptor = "blocked")
    /\ main' = "join http"
    /\ UNCHANGED <<shutdown, database, wsVars, running, acceptor, sent, cut, effect, status>>

JoinHttp ==
    /\ main = "join http" /\ acceptor = "ended"
    /\ main' = "disconnect"
    /\ UNCHANGED <<shutdown, database, wsVars, httpVars, connVars>>

Disconnect ==
    /\ main = "disconnect"
    /\ database' = IF database = "open" THEN "closed" ELSE database
    /\ main' = "exit"
    /\ UNCHANGED <<shutdown, wsVars, httpVars, connVars>>

-----------------------------------------------------------------------------

\* The WebSocket thread: a message, a timer, a close - and the posted stop
\* between two of them.
Event   == /\ ws = "idle" /\ main # "exit"
           /\ ws' = "busy" /\ UNCHANGED <<mainVars, wsStop, httpVars, connVars>>
Handled == /\ ws = "busy" /\ main # "exit"
           /\ ws' = "idle" /\ UNCHANGED <<mainVars, wsStop, httpVars, connVars>>
EndWebSocket ==
    /\ ws = "idle" /\ wsStop
    /\ ws' = "ended"
    /\ UNCHANGED <<mainVars, wsStop, httpVars, connVars>>

-----------------------------------------------------------------------------

\* Mutant: the loop goes on until accept fails for good.
LoopForever ==
    /\ acceptor = "check"
    /\ acceptor' = "accept"
    /\ UNCHANGED <<mainVars, wsVars, running, listenFd, connVars>>

\* The accepting thread's loop condition ...
Check ==
    /\ acceptor = "check"
    /\ acceptor' = IF running /\ listenFd THEN "accept" ELSE "ended"
    /\ UNCHANGED <<mainVars, wsVars, running, listenFd, connVars>>

\* ... and accept, which fails on a closed socket, but is not woken when the
\* socket it waits on is closed.
Accept ==
    /\ acceptor = "accept"
    /\ acceptor' = IF listenFd THEN "blocked" ELSE "check"
    /\ UNCHANGED <<mainVars, wsVars, running, listenFd, connVars>>

Accepted(c) ==
    /\ acceptor = "blocked" /\ stage[c] = "queued"
    /\ acceptor' = "check"
    /\ stage' = [d \in Connection |->
                    IF d = c THEN "accepted"
                    ELSE IF stage[d] = "queued" /\ ~listenFd THEN "none" ELSE stage[d]]
    /\ UNCHANGED <<mainVars, wsVars, running, listenFd, sent, cut, effect, status>>

-----------------------------------------------------------------------------

\* A client connects; the kernel queues it while there is a socket.
Knock(c) ==
    /\ stage[c] = "none" /\ main # "exit"
    /\ listenFd \/ acceptor = "blocked"
    /\ stage' = [stage EXCEPT ![c] = "queued"]
    /\ UNCHANGED <<mainVars, wsVars, httpVars, sent, cut, effect, status>>

\* The detached thread reads once: what is there of the request by then.
Receive(c) ==
    /\ stage[c] = "accepted" /\ main # "exit"
    /\ \E request \in Sent[c] : \E n \in Cuts(request) :
          sent' = [sent EXCEPT ![c] = request] /\ cut' = [cut EXCEPT ![c] = n]
    /\ stage' = [stage EXCEPT ![c] = "received"]
    /\ UNCHANGED <<mainVars, wsVars, httpVars, effect, status>>

\* The client went away without a request.
HangUp(c) ==
    /\ stage[c] = "accepted" /\ main # "exit"
    /\ stage' = [stage EXCEPT ![c] = "none"]
    /\ UNCHANGED <<mainVars, wsVars, httpVars, sent, cut, effect, status>>

HandleRequest(c) ==
    /\ stage[c] = "received" /\ main # "exit"
    /\ effect' = [effect EXCEPT ![c] = Effect(Routed(c), Body(c), Query(c))]
    /\ status' = [status EXCEPT ![c] = Status(Routed(c), Body(c))]
    /\ stage' = [stage EXCEPT ![c] = "handled"]
    /\ UNCHANGED <<mainVars, wsVars, httpVars, sent, cut>>

\* The answer is sent and the connection closed.
Respond(c) ==
    /\ stage[c] = "handled" /\ main # "exit"
    /\ stage' = [stage EXCEPT ![c] = "none"]
    /\ sent' = [sent EXCEPT ![c] = NoRequest]
    /\ cut' = [cut EXCEPT ![c] = 0]
    /\ effect' = [effect EXCEPT ![c] = Nothing]
    /\ status' = [status EXCEPT ![c] = 0]
    /\ UNCHANGED <<mainVars, wsVars, httpVars>>

MainStep ==
    \/ StartWebSocket \/ StartHttp \/ StopWebSocket \/ JoinWebSocket
    \/ StopHttp \/ CloseHttp \/ JoinHttp \/ Disconnect

WebSocketStep == Handled \/ EndWebSocket
AcceptorStep  == Check \/ Accept \/ \E c \in Connection : Accepted(c)

Next ==
    \/ Signal \/ MainStep \/ Event \/ WebSocketStep \/ AcceptorStep
    \/ \E c \in Connection : Knock(c) \/ Receive(c) \/ HangUp(c)
                             \/ HandleRequest(c) \/ Respond(c)

Spec == Init /\ [][Next]_vars

\* The threads run; the stop is taken from the io_service's queue in turn,
\* however many messages come.  Nobody is made to connect, to send anything
\* or to press Ctrl+C, and the detached threads may take for ever.
FairSpec ==
    /\ Spec
    /\ WF_vars(MainStep) /\ WF_vars(AcceptorStep)
    /\ WF_vars(Handled) /\ SF_vars(EndWebSocket)

-----------------------------------------------------------------------------

(* The database is closed only when no WebSocket handler runs or can run,  *)
(* and no connection can be accepted any more: only threads of requests    *)
(* that were accepted before may still find it closed.                     *)
ClosedLast ==
    database = "closed" =>
        ws = "ended" /\ acceptor \in {"none", "ended"} /\ \A c \in Connection : stage[c] # "queued"

(* The loop of matchRoute compares the patterns of this server and any     *)
(* path it may be given segment by segment, whatever slashes are in it.    *)
RoutesGoBySegments ==
    \A c \in Connection : stage[c] = "received" =>
        \A i \in DOMAIN PatternRoutes :
            MatchRoute(PatternRoutes[i].path, Path(c)) = BySegments(PatternRoutes[i].path, Path(c))

(* A request that was read as a whole does what its client wanted or       *)
(* nothing.  Without its body, a creation uses the defaults.  Cut off in   *)
(* its query, it is still of the kind that was wanted, but a clean-up may  *)
(* take another limit than was asked for, though a minute at least.  Cut   *)
(* off in its path, it may be another request (POST /api/games/join that   *)
(* ends with /api/games creates a game): all that is said of it is that    *)
(* nothing but a POST ever does anything, and that what is refused as      *)
(* unknown or malformed has done nothing.                                  *)
ActsAsSent ==
    \A c \in Connection : (stage[c] = "handled" /\ effect[c] # Nothing) =>
        /\ sent[c].method = "POST" /\ status[c] \notin {204, 400, 404}
        /\ AllRead(c) => effect[c] = sent[c].wants
        /\ HeadRead(c) => \/ effect[c] = sent[c].wants
                          \/ effect[c].kind = "create" /\ sent[c].wants.kind = "create"
        /\ PathRead(c) => /\ effect[c].kind = sent[c].wants.kind
                          /\ effect[c].what = sent[c].wants.what \/ effect[c].kind = "create"
                          /\ effect[c].kind = "clean up" => effect[c].seconds >= 60

\* As long as there is a socket to connect to, there is somebody in its queue
\* again and again.
KeepKnocking ==
    []<>((listenFd \/ acceptor = "blocked") => \E c \in Connection : stage[c] = "queued")

(* After a signal the server stops if clients keep connecting: each thread *)
(* comes to its end, and the one in accept when it has accepted once more, *)
(* however long the detached threads take.                                 *)
StopsWhenKnocked == KeepKnocking => (shutdown ~> main = "exit")

-----------------------------------------------------------------------------
(* What the program says of itself.                                        *)

(* src/main.cpp:92 "Press Ctrl+C once to stop the server".  stop closes    *)
(* the socket under the thread that waits in accept on it and joins the    *)
(* thread; unless somebody connects once more, that waits for ever.        *)
StopsOnSignal == shutdown ~> main = "exit"
=============================================================================
