-------------------------- MODULE WhotServer_proofs -------------------------
(***************************************************************************)
(* What holds of the process for any number of connections and any         *)
(* requests on them: the order in which it is taken down, that paths are   *)
(* compared with the patterns of the API segment by segment, that codes    *)
(* are looked up in one form only, and that a request does what was asked  *)
(* for or nothing.                                                         *)
(*                                                                         *)
(* matchRoute, Segments and normalizeGameCode are recursive functions; the *)
(* proofs show by counting up that each recursion has a solution, and      *)
(* reason about it row by row from there.                                  *)
(***************************************************************************)
EXTENDS WhotServer, TLAPS, FiniteSetTheorems, SequenceTheorems,
        WellFoundedInduction, NaturalsInduction

-----------------------------------------------------------------------------
(* The order of shutdown.                                                  *)

\* Somebody is in the queue of the HTTP socket.
Waiting == \E c \in Connection : stage[c] = "queued"

(* Where the threads may be while main's is at one point of shutdown: the  *)
(* WebSocket thread has ended when main has joined it; without a running   *)
(* HTTP server there was never anybody to accept; and when the socket is   *)
(* closed, only the thread in accept on it still has a queue.              *)
Threads ==
    /\ stage \in [Connection -> {"none", "queued", "accepted", "received", "handled"}]
    /\ main \in {"stop http", "close http", "join http", "disconnect", "exit"} => ws = "ended"
    /\ (main \in {"start", "start http", "wait", "join ws"} /\ ~running) =>
           acceptor = "none" /\ listenFd = FALSE /\ ~Waiting
    /\ main = "join http" => listenFd = FALSE /\ (Waiting => acceptor = "blocked")

\* And the database is closed behind all of them.
SInv ==
    /\ Threads
    /\ main \in {"disconnect", "exit"} =>
           listenFd = FALSE /\ acceptor \in {"none", "ended"} /\ ~Waiting
    /\ database = "closed" => main = "exit"

(* No step of any thread breaks what the shutdown relies on.               *)
LEMMA ServerStep == SInv /\ [Next]_vars => SInv'
<1> SUFFICES ASSUME SInv, [Next]_vars PROVE SInv'
  OBVIOUS
<1> USE DEF SInv, Threads, Waiting, mainVars, wsVars, httpVars, connVars
<1>1. CASE Signal
  BY <1>1 DEF Signal
<1>2. CASE StartWebSocket \/ StartHttp
  BY <1>2 DEF StartWebSocket, StartHttp
<1>3. CASE StopWebSocket \/ JoinWebSocket
  BY <1>3 DEF StopWebSocket, JoinWebSocket
<1>4. CASE StopHttp
  BY <1>4 DEF StopHttp
<1>5. CASE CloseHttp
  BY <1>5 DEF CloseHttp, Reset
<1>6. CASE JoinHttp \/ Disconnect
  BY <1>6 DEF JoinHttp, Disconnect
<1>7. CASE Event \/ Handled \/ EndWebSocket
  BY <1>7 DEF Event, Handled, EndWebSocket
<1>8. CASE Check \/ Accept
  BY <1>8 DEF Check, Accept
<1>9. ASSUME NEW c \in Connection, Accepted(c) PROVE SInv'
  BY <1>9 DEF Accepted
<1>10. ASSUME NEW c \in Connection, Knock(c) PROVE SInv'
  BY <1>10 DEF Knock
<1>11. ASSUME NEW c \in Connection, Receive(c) \/ HangUp(c) PROVE SInv'
  BY <1>11 DEF Receive, HangUp
<1>12. ASSUME NEW c \in Connection, HandleRequest(c) \/ Respond(c) PROVE SInv'
  BY <1>12 DEF HandleRequest, Respond
<1>13. CASE UNCHANGED vars
  BY <1>13 DEF vars
<1> QED
  BY <1>1, <1>2, <1>3, <1>4, <1>5, <1>6, <1>7, <1>8, <1>9, <1>10, <1>11, <1>12, <1>13
  DEF Next, MainStep, WebSocketStep, AcceptorStep

(* In every state of every run, also an unfair one, the database is closed *)
(* last: shutdown stops the WebSocket server, then the HTTP server, and    *)
(* joins both threads before it disconnects.                               *)
THEOREM DatabaseClosesLast == Spec => []ClosedLast
<1>1. Init => SInv
  BY DEF Init, SInv, Threads, Waiting
<1>2. SInv => ClosedLast
  BY DEF SInv, Threads, Waiting, ClosedLast
<1> QED
  BY <1>1, <1>2, ServerStep, PTL DEF Spec

\* What main's thread and the accepting thread have before them.
MainLeft ==
    IF main = "start" THEN 8
    ELSE IF main = "start http" THEN 7
    ELSE IF main = "wait" THEN 6
    ELSE IF main = "join ws" THEN 5
    ELSE IF main = "stop http" THEN 4
    ELSE IF main = "close http" THEN 3
    ELSE IF main = "join http" THEN 2
    ELSE IF main = "disconnect" THEN 1 ELSE 0

AcceptorLeft ==
    IF acceptor = "accept" THEN 3
    ELSE IF acceptor = "blocked" THEN 2
    ELSE IF acceptor = "check" THEN 1 ELSE 0

\* main is past the flag of HttpServer::stop.
Stopping == main \in {"close http", "join http", "disconnect", "exit"}

FlagDown == Stopping => ~running

(* Nothing sets the flag again.                                            *)
LEMMA FlagStaysDown == FlagDown /\ [Next]_vars => FlagDown'
<1> SUFFICES ASSUME FlagDown, [Next]_vars PROVE FlagDown'
  OBVIOUS
<1> USE DEF FlagDown, Stopping, mainVars, wsVars, httpVars, connVars
<1>1. CASE MainStep
  BY <1>1 DEF MainStep, StartWebSocket, StartHttp, StopWebSocket, JoinWebSocket, StopHttp,
              CloseHttp, JoinHttp, Disconnect
<1>2. CASE AcceptorStep
  BY <1>2 DEF AcceptorStep, Check, Accept, Accepted
<1>3. CASE Signal \/ Event \/ WebSocketStep
  BY <1>3 DEF Signal, Event, WebSocketStep, Handled, EndWebSocket
<1>4. ASSUME NEW c \in Connection,
             Knock(c) \/ Receive(c) \/ HangUp(c) \/ HandleRequest(c) \/ Respond(c)
      PROVE  FlagDown'
  BY <1>4 DEF Knock, Receive, HangUp, HandleRequest, Respond
<1>5. CASE UNCHANGED vars
  BY <1>5 DEF vars
<1> QED
  BY <1>1, <1>2, <1>3, <1>4, <1>5 DEF Next

(* The safety half of StopsWhenKnocked: main's thread never goes back, and *)
(* once stop has put down the flag each step of it or of the accepting     *)
(* thread is one less.  So of however many clients are in the queue at     *)
(* most one more is accepted, by a thread that was at accept already.      *)
THEOREM ShutdownComesCloser ==
    Spec => [][/\ MainLeft' =< MainLeft
               /\ Stopping =>
                     IF main' # main \/ acceptor' # acceptor
                       THEN MainLeft' + AcceptorLeft' < MainLeft + AcceptorLeft
                       ELSE MainLeft' + AcceptorLeft' = MainLeft + AcceptorLeft]_vars
<1> DEFINE Closer ==
             /\ MainLeft' =< MainLeft
             /\ Stopping =>
                   IF main' # main \/ acceptor' # acceptor
                     THEN MainLeft' + AcceptorLeft' < MainLeft + AcceptorLeft
                     ELSE MainLeft' + AcceptorLeft' = MainLeft + AcceptorLeft
<1>1. Init => FlagDown
  BY DEF Init, FlagDown, Stopping
<1>2. ASSUME FlagDown, Next PROVE Closer
  <2>2. MainLeft \in 0..8 /\ AcceptorLeft \in 0..3
    BY DEF MainLeft, AcceptorLeft
  <2>3. CASE MainStep
    <3>1. MainLeft' \in Nat /\ MainLeft' < MainLeft /\ main' # main
      <4>1. StartWebSocket => MainLeft = 8 /\ MainLeft' = 7
        BY DEF StartWebSocket, MainLeft
      <4>2. StartHttp => MainLeft = 7 /\ MainLeft' = 6
        BY DEF StartHttp, MainLeft
      <4>3. StopWebSocket => MainLeft = 6 /\ MainLeft' = 5
        BY DEF StopWebSocket, MainLeft
      <4>4. JoinWebSocket => MainLeft = 5 /\ MainLeft' \in {4, 1}
        BY DEF JoinWebSocket, MainLeft
      <4>5. StopHttp => MainLeft = 4 /\ MainLeft' = 3
        BY DEF StopHttp, MainLeft
      <4>6. CloseHttp => MainLeft = 3 /\ MainLeft' = 2
        BY DEF CloseHttp, MainLeft
      <4>7. JoinHttp => MainLeft = 2 /\ MainLeft' = 1
        BY DEF JoinHttp, MainLeft
      <4>8. Disconnect => MainLeft = 1 /\ MainLeft' = 0
        BY DEF Disconnect, MainLeft
      <4>9. MainLeft' \in Nat /\ MainLeft' < MainLeft
        BY <2>3, <4>1, <4>2, <4>3, <4>4, <4>5, <4>6, <4>7, <4>8 DEF MainStep
      <4>10. main' = main => MainLeft' = MainLeft
        BY DEF MainLeft
      <4> QED
        BY <2>2, <4>9, <4>10
    <3>2. Stopping => acceptor' = acceptor
      BY <2>3 DEF Stopping, MainStep, StartWebSocket, StartHttp, StopWebSocket, JoinWebSocket,
                  StopHttp, CloseHttp, JoinHttp, Disconnect, httpVars
    <3>3. Stopping => AcceptorLeft' = AcceptorLeft
      BY <3>2 DEF AcceptorLeft
    <3> QED
      BY <2>2, <3>1, <3>3
  <2>4. CASE AcceptorStep
    <3>1. main' = main /\ MainLeft' = MainLeft
      BY <2>4 DEF AcceptorStep, Check, Accept, Accepted, mainVars, MainLeft
    <3>2. Stopping => AcceptorLeft' \in Nat /\ AcceptorLeft' < AcceptorLeft
      BY <1>2, <2>4 DEF FlagDown, AcceptorStep, Check, Accept, Accepted, AcceptorLeft
    <3>3. Stopping => acceptor' # acceptor
      BY <3>2 DEF AcceptorLeft
    <3> QED
      BY <2>2, <3>1, <3>2, <3>3
  <2>5. CASE ~MainStep /\ ~AcceptorStep
    <3>1. main' = main /\ acceptor' = acceptor
      BY <1>2, <2>5 DEF Next, Signal, Event, WebSocketStep, Handled, EndWebSocket, Knock, Receive,
                        HangUp, HandleRequest, Respond, mainVars, httpVars
    <3>2. MainLeft' = MainLeft /\ AcceptorLeft' = AcceptorLeft
      BY <3>1 DEF MainLeft, AcceptorLeft
    <3> QED
      BY <2>2, <3>1, <3>2
  <2> QED
    BY <2>3, <2>4, <2>5
<1> QED
  BY <1>1, <1>2, FlagStaysDown, PTL DEF Spec

-----------------------------------------------------------------------------
(* Least elements, and the recursion of matchRoute.                        *)

(* A set of naturals with an element has a least one.                      *)
LEMMA LeastNatural ==
    ASSUME NEW S \in SUBSET Nat, S # {}
    PROVE  \E x \in S : \A y \in S : x =< y
<1>1. PICK x \in S : \A y \in S : ~ (<<y, x>> \in OpToRel(<, Nat))
  BY WFMin, NatLessThanWellFounded
<1>2. \A y \in S : ~(y < x)
  BY <1>1 DEF OpToRel
<1> QED
  BY <1>2

(* What holds of 0, and of n + 1 when it holds of n, holds of any number.  *)
LEMMA CountingUp ==
    ASSUME NEW S \in SUBSET Nat, 0 \in S, \A n \in S : n + 1 \in S
    PROVE  S = Nat
<1>1. SUFFICES ASSUME Nat \ S # {} PROVE FALSE
  OBVIOUS
<1>2. PICK x \in Nat \ S : \A y \in Nat \ S : x =< y
  BY <1>1, LeastNatural
<1>3. x - 1 \in Nat /\ ~(x =< x - 1) /\ (x - 1) + 1 = x
  BY <1>2
<1>4. x - 1 \in S
  BY <1>2, <1>3
<1> QED
  BY <1>2, <1>3, <1>4

(* The next slash is one, or the end, and there is none before it.         *)
LEMMA NextSlashIs ==
    ASSUME NEW C, NEW s \in Seq(C), NEW i \in 1..Len(s) + 1
    PROVE  /\ NextSlash(s, i) \in i..Len(s) + 1
           /\ \A j \in i..NextSlash(s, i) - 1 : s[j] # "/"
           /\ NextSlash(s, i) =< Len(s) => s[NextSlash(s, i)] = "/"
<1> DEFINE S == {j \in i..Len(s) : s[j] = "/"} \cup {Len(s) + 1}
<1>1. S \in SUBSET Nat /\ S # {} /\ S \subseteq i..Len(s) + 1
  OBVIOUS
<1>2. \E x \in S : \A y \in S : x =< y
  BY <1>1, LeastNatural
<1>3. Min(S) \in S /\ \A y \in S : Min(S) =< y
  BY <1>2 DEF Min
<1>4. NextSlash(s, i) = Min(S)
  BY DEF NextSlash
<1>5. \A x \in S : x =< Len(s) => s[x] = "/"
  OBVIOUS
<1>6. \A j \in i..Len(s) : s[j] = "/" => j \in S
  OBVIOUS
<1>7. Len(s) \in Nat
  OBVIOUS
<1> HIDE DEF S
<1>8. NextSlash(s, i) \in i..Len(s) + 1
  BY <1>1, <1>3, <1>4
<1>9. ASSUME NEW j \in i..NextSlash(s, i) - 1 PROVE s[j] # "/"
  <2>1. j \in i..Len(s) /\ ~(NextSlash(s, i) =< j)
    BY <1>7, <1>8
  <2> QED
    BY <1>3, <1>4, <1>6, <2>1
<1> QED
  BY <1>3, <1>4, <1>5, <1>8, <1>9

\* One step of matchRoute's recursion.
MatchStep(pattern, path, m, pi, qi) ==
    IF pi > Len(pattern) \/ qi > Len(path)
      THEN IF pi > Len(pattern) /\ qi > Len(path) THEN {<< >>} ELSE {}
    ELSE IF pattern[pi] = ":" THEN
        {<<SubSeq(path, qi, NextSlash(path, qi) - 1)>> \o rest :
            rest \in m[NextSlash(pattern, pi)][NextSlash(path, qi)]}
    ELSE IF pattern[pi] = path[qi] THEN m[pi + 1][qi + 1] ELSE {}

\* A row, from any position of the path on.
MatchRow(pattern, path, m, pi) ==
    [qi \in 1..Len(path) + 1 |-> MatchStep(pattern, path, m, pi, qi)]

\* All of them: what matchRoute finds from any two positions on.
Matches(pattern, path) ==
    CHOOSE m : m = [pi \in 1..Len(pattern) + 1 |-> MatchRow(pattern, path, m, pi)]

(* A row of it looks only at the rows behind it.                           *)
LEMMA RowsBehind ==
    ASSUME NEW B, NEW pattern \in Seq(B), NEW C, NEW path \in Seq(C), NEW m, NEW n,
           NEW pi \in 1..Len(pattern) + 1,
           \A pj \in 1..Len(pattern) + 1 : pj > pi => m[pj] = n[pj]
    PROVE  MatchRow(pattern, path, m, pi) = MatchRow(pattern, path, n, pi)
<1> SUFFICES ASSUME NEW qi \in 1..Len(path) + 1
             PROVE  MatchStep(pattern, path, m, pi, qi) = MatchStep(pattern, path, n, pi, qi)
  BY DEF MatchRow
<1>1. CASE pi > Len(pattern) \/ qi > Len(path)
  BY <1>1 DEF MatchStep
<1>2. CASE ~(pi > Len(pattern) \/ qi > Len(path)) /\ pattern[pi] = ":"
  <2>1. NextSlash(pattern, pi) \in 1..Len(pattern) + 1 /\ NextSlash(pattern, pi) > pi
    BY <1>2, NextSlashIs
  <2>2. m[NextSlash(pattern, pi)] = n[NextSlash(pattern, pi)]
    BY <2>1
  <2> QED
    BY <1>2, <2>2 DEF MatchStep
<1>3. CASE ~(pi > Len(pattern) \/ qi > Len(path)) /\ pattern[pi] # ":"
  <2>1. m[pi + 1] = n[pi + 1]
    BY <1>3
  <2> QED
    BY <1>3, <2>1 DEF MatchStep
<1> QED
  BY <1>1, <1>2, <1>3

(* The recursion has a solution.                                           *)
LEMMA MatchesExist ==
    ASSUME NEW B, NEW pattern \in Seq(B), NEW C, NEW path \in Seq(C)
    PROVE  Matches(pattern, path) =
               [pi \in 1..Len(pattern) + 1 |-> MatchRow(pattern, path, Matches(pattern, path), pi)]
<1> DEFINE L == Len(pattern) + 1
           Right(m, k) == \A pi \in 1..L : pi > L - k => m[pi] = MatchRow(pattern, path, m, pi)
           S == {k \in Nat : \E m : Right(m, k)}
<1>1. L \in Nat
  OBVIOUS
<1>2. 0 \in S
  BY <1>1
<1>3. ASSUME NEW k \in S PROVE k + 1 \in S
  <2>1. PICK m : Right(m, k)
    OBVIOUS
  <2> DEFINE n == [pi \in 1..L |-> IF pi = L - k THEN MatchRow(pattern, path, m, pi) ELSE m[pi]]
  <2>2. ASSUME NEW pi \in 1..L, pi > L - (k + 1) PROVE n[pi] = MatchRow(pattern, path, n, pi)
    <3>1. n[pi] = MatchRow(pattern, path, m, pi)
      BY <2>1, <2>2, <1>1
    <3>2. \A pj \in 1..L : pj > pi => m[pj] = n[pj]
      BY <2>2, <1>1
    <3>3. MatchRow(pattern, path, m, pi) = MatchRow(pattern, path, n, pi)
      <4> HIDE DEF n
      <4> QED
        BY <3>2, RowsBehind
    <3> QED
      BY <3>1, <3>3
  <2> HIDE DEF n
  <2>3. Right(n, k + 1)
    BY <2>2
  <2> HIDE DEF Right
  <2> QED
    BY <2>3
<1>4. L \in S
  BY <1>1, <1>2, <1>3, CountingUp
<1>5. PICK m : Right(m, L)
  BY <1>4
<1> DEFINE n == [pi \in 1..L |-> m[pi]]
<1>6. ASSUME NEW pi \in 1..L PROVE n[pi] = MatchRow(pattern, path, n, pi)
  <2>1. m[pi] = MatchRow(pattern, path, m, pi)
    BY <1>1, <1>5
  <2>2. MatchRow(pattern, path, m, pi) = MatchRow(pattern, path, n, pi)
    BY RowsBehind
  <2> QED
    BY <2>1, <2>2
<1>7. n = [pi \in 1..L |-> MatchRow(pattern, path, n, pi)]
  BY <1>6
<1> QED
  BY <1>7 DEF Matches

(* matchRoute is the entry for the two beginnings, and each entry follows  *)
(* from the ones behind it.                                                *)
LEMMA MatchRouteIs ==
    ASSUME NEW B, NEW pattern \in Seq(B), NEW C, NEW path \in Seq(C)
    PROVE  /\ MatchRoute(pattern, path) = Matches(pattern, path)[1][1]
           /\ \A pi \in 1..Len(pattern) + 1, qi \in 1..Len(path) + 1 :
                  Matches(pattern, path)[pi][qi] =
                      MatchStep(pattern, path, Matches(pattern, path), pi, qi)
<1>1. MatchRoute(pattern, path) = Matches(pattern, path)[1][1]
  BY DEF MatchRoute, Matches, MatchRow, MatchStep
<1> QED
  BY <1>1, MatchesExist DEF MatchRow

\* One step of the recursion of Segments.
SegmentStep(s, f, i) ==
    IF i > Len(s) + 1 THEN << >>
    ELSE <<SubSeq(s, i, NextSlash(s, i) - 1)>> \o f[NextSlash(s, i) + 1]

\* The segments from any position on.
SegmentsFrom(s) == CHOOSE f : f = [i \in 1..Len(s) + 2 |-> SegmentStep(s, f, i)]

(* A step of it looks only at positions behind it.                         *)
LEMMA SegmentsBehind ==
    ASSUME NEW C, NEW s \in Seq(C), NEW f, NEW g, NEW i \in 1..Len(s) + 2,
           \A j \in 1..Len(s) + 2 : j > i => f[j] = g[j]
    PROVE  SegmentStep(s, f, i) = SegmentStep(s, g, i)
<1>1. CASE i > Len(s) + 1
  BY <1>1 DEF SegmentStep
<1>2. CASE ~(i > Len(s) + 1)
  <2>1. NextSlash(s, i) + 1 \in 1..Len(s) + 2 /\ NextSlash(s, i) + 1 > i
    BY <1>2, NextSlashIs
  <2> QED
    BY <1>2, <2>1 DEF SegmentStep
<1> QED
  BY <1>1, <1>2

(* This recursion has a solution, too.                                     *)
LEMMA SegmentsExist ==
    ASSUME NEW C, NEW s \in Seq(C)
    PROVE  SegmentsFrom(s) = [i \in 1..Len(s) + 2 |-> SegmentStep(s, SegmentsFrom(s), i)]
<1> DEFINE L == Len(s) + 2
           Right(f, k) == \A i \in 1..L : i > L - k => f[i] = SegmentStep(s, f, i)
           S == {k \in Nat : \E f : Right(f, k)}
<1>1. L \in Nat
  OBVIOUS
<1>2. 0 \in S
  BY <1>1
<1>3. ASSUME NEW k \in S PROVE k + 1 \in S
  <2>1. PICK f : Right(f, k)
    OBVIOUS
  <2> DEFINE g == [i \in 1..L |-> IF i = L - k THEN SegmentStep(s, f, i) ELSE f[i]]
  <2>2. ASSUME NEW i \in 1..L, i > L - (k + 1) PROVE g[i] = SegmentStep(s, g, i)
    <3>1. g[i] = SegmentStep(s, f, i)
      BY <2>1, <2>2, <1>1
    <3>2. \A j \in 1..L : j > i => f[j] = g[j]
      BY <2>2, <1>1
    <3> QED
      BY <3>1, <3>2, SegmentsBehind
  <2> HIDE DEF g
  <2>3. Right(g, k + 1)
    BY <2>2
  <2> HIDE DEF Right
  <2> QED
    BY <2>3
<1>4. L \in S
  BY <1>1, <1>2, <1>3, CountingUp
<1>5. PICK f : Right(f, L)
  BY <1>4
<1> DEFINE g == [i \in 1..L |-> f[i]]
<1>6. ASSUME NEW i \in 1..L PROVE g[i] = SegmentStep(s, g, i)
  <2>1. f[i] = SegmentStep(s, f, i)
    BY <1>1, <1>5
  <2>2. SegmentStep(s, f, i) = SegmentStep(s, g, i)
    BY SegmentsBehind
  <2> QED
    BY <2>1, <2>2
<1>7. g = [i \in 1..L |-> SegmentStep(s, g, i)]
  BY <1>6
<1> QED
  BY <1>7 DEF SegmentsFrom

-----------------------------------------------------------------------------
(* matchRoute on the two patterns.                                         *)

\* A path begins with /g/ .
BelowGames(path) ==
    Len(path) >= 3 /\ path[1] = "/" /\ path[2] = "g" /\ path[3] = "/"

(* A pattern /g/:... and a path: up to the parameter the characters are    *)
(* compared one by one, and it is taken up to the next slash.              *)
LEMMA MatchBelowGames ==
    ASSUME NEW B, NEW pattern \in Seq(B), NEW C, NEW path \in Seq(C),
           Len(pattern) >= 5, BelowGames(pattern), pattern[4] = ":"
    PROVE  MatchRoute(pattern, path) =
               IF BelowGames(path) /\ Len(path) >= 4
                 THEN {<<SubSeq(path, 4, NextSlash(path, 4) - 1)>> \o rest :
                          rest \in Matches(pattern, path)[NextSlash(pattern, 4)][NextSlash(path, 4)]}
                 ELSE {}
<1> DEFINE m == Matches(pattern, path)
           L == Len(path)
<1>0. L \in Nat /\ Len(pattern) \in Nat
  OBVIOUS
<1>1. \A pi \in 1..Len(pattern) + 1, qi \in 1..L + 1 : m[pi][qi] = MatchStep(pattern, path, m, pi, qi)
  BY MatchRouteIs
<1> HIDE DEF m
<1>2. ASSUME NEW qi \in 1..L + 1
      PROVE m[4][qi] = IF qi > L THEN {}
              ELSE {<<SubSeq(path, qi, NextSlash(path, qi) - 1)>> \o rest :
                          rest \in m[NextSlash(pattern, 4)][NextSlash(path, qi)]}
  <2>1. m[4][qi] = MatchStep(pattern, path, m, 4, qi)
    BY <1>1
  <2> QED
    BY <2>1 DEF MatchStep
<1>3. ASSUME NEW pi \in 1..3, NEW qi \in 1..L + 1
      PROVE m[pi][qi] = IF qi > L THEN {} ELSE IF path[qi] = pattern[pi] THEN m[pi + 1][qi + 1] ELSE {}
  <2>1. m[pi][qi] = MatchStep(pattern, path, m, pi, qi)
    BY <1>1
  <2>2. pattern[pi] # ":" /\ pi =< Len(pattern)
    BY DEF BelowGames
  <2> QED
    BY <2>1, <2>2 DEF MatchStep
<1>4. m[1][1] = IF BelowGames(path) THEN m[4][4] ELSE {}
  <2>1. m[1][1] = IF 1 > L THEN {} ELSE IF path[1] = "/" THEN m[2][2] ELSE {}
    BY <1>0, <1>3 DEF BelowGames
  <2>2. L >= 1 => m[2][2] = IF 2 > L THEN {} ELSE IF path[2] = "g" THEN m[3][3] ELSE {}
    BY <1>0, <1>3 DEF BelowGames
  <2>3. L >= 2 => m[3][3] = IF 3 > L THEN {} ELSE IF path[3] = "/" THEN m[4][4] ELSE {}
    BY <1>0, <1>3 DEF BelowGames
  <2> QED
    BY <1>0, <2>1, <2>2, <2>3 DEF BelowGames
<1>5. BelowGames(path) => 4 \in 1..L + 1
  BY <1>0 DEF BelowGames
<1>6. MatchRoute(pattern, path) = m[1][1]
  BY MatchRouteIs DEF m
<1>7. BelowGames(path) =>
        m[4][4] = IF 4 > L THEN {}
              ELSE {<<SubSeq(path, 4, NextSlash(path, 4) - 1)>> \o rest :
                          rest \in m[NextSlash(pattern, 4)][NextSlash(path, 4)]}
  BY <1>2, <1>5
<1>8. m[1][1] =
               IF BelowGames(path) /\ Len(path) >= 4
                 THEN {<<SubSeq(path, 4, NextSlash(path, 4) - 1)>> \o rest :
                          rest \in m[NextSlash(pattern, 4)][NextSlash(path, 4)]}
                 ELSE {}
  BY <1>0, <1>4, <1>7
<1> QED
  BY <1>6, <1>8 DEF m

(* A parameter with nothing behind it.                                     *)
LEMMA OneParameter ==
    ASSUME NEW C, NEW x \in Seq(C)
    PROVE  {<<x>> \o rest : rest \in {<< >>}} = {<<x>>}
<1>1. <<x>> \in Seq(Seq(C))
  OBVIOUS
<1>2. <<x>> \o << >> = <<x>>
  BY <1>1, ConcatEmptySeq
<1> QED
  BY <1>2

\* The characters and the paths of the two patterns.
Letter == {"/", "g", ":", "i", "j"}
GamePath == PatternRoutes[1].path
JoinPath == PatternRoutes[2].path

(* Where the two patterns have their slashes.                              *)
LEMMA PatternsAre ==
    /\ GamePath = <<"/", "g", "/", ":", "i">>
    /\ JoinPath = <<"/", "g", "/", ":", "i", "/", "j">>
    /\ GamePath \in Seq(Letter) /\ Len(GamePath) = 5 /\ BelowGames(GamePath)
    /\ JoinPath \in Seq(Letter) /\ Len(JoinPath) = 7 /\ BelowGames(JoinPath)
    /\ NextSlash(GamePath, 4) = 6 /\ NextSlash(JoinPath, 4) = 6
<1>1. /\ GamePath = <<"/", "g", "/", ":", "i">>
      /\ JoinPath = <<"/", "g", "/", ":", "i", "/", "j">>
  BY DEF GamePath, JoinPath, PatternRoutes
<1>2. GamePath \in Seq(Letter) /\ Len(GamePath) = 5 /\ BelowGames(GamePath)
  <2>1. Len(GamePath) = 5 /\ BelowGames(GamePath)
    BY <1>1 DEF BelowGames
  <2>2. GamePath \in Seq(Letter)
    BY <1>1 DEF Letter
  <2> QED
    BY <2>1, <2>2
<1>8. JoinPath \in Seq(Letter) /\ Len(JoinPath) = 7 /\ BelowGames(JoinPath)
  <2>1. Len(JoinPath) = 7 /\ BelowGames(JoinPath)
    BY <1>1 DEF BelowGames
  <2>2. JoinPath \in Seq(Letter)
    BY <1>1 DEF Letter
  <2> QED
    BY <2>1, <2>2
<1>3. NextSlash(GamePath, 4) \in 4..6 /\ (NextSlash(GamePath, 4) =< 5 => GamePath[NextSlash(GamePath, 4)] = "/")
  <2>1. GamePath \in Seq(Letter) /\ 4 \in 1..Len(GamePath) + 1
    BY <1>2
  <2>2. /\ NextSlash(GamePath, 4) \in 4..Len(GamePath) + 1
        /\ \A j \in 4..NextSlash(GamePath, 4) - 1 : GamePath[j] # "/"
        /\ NextSlash(GamePath, 4) =< Len(GamePath) => GamePath[NextSlash(GamePath, 4)] = "/"
    BY ONLY <2>1, NextSlashIs
  <2> QED
    BY <1>2, <2>2
<1>4. NextSlash(JoinPath, 4) \in 4..8 /\ (NextSlash(JoinPath, 4) =< 7 => JoinPath[NextSlash(JoinPath, 4)] = "/")
      /\ \A j \in 4..NextSlash(JoinPath, 4) - 1 : JoinPath[j] # "/"
  <2>1. JoinPath \in Seq(Letter) /\ 4 \in 1..Len(JoinPath) + 1
    BY <1>8
  <2>2. /\ NextSlash(JoinPath, 4) \in 4..Len(JoinPath) + 1
        /\ \A j \in 4..NextSlash(JoinPath, 4) - 1 : JoinPath[j] # "/"
        /\ NextSlash(JoinPath, 4) =< Len(JoinPath) => JoinPath[NextSlash(JoinPath, 4)] = "/"
    BY ONLY <2>1, NextSlashIs
  <2> QED
    BY <1>8, <2>2
<1>5. GamePath[4] # "/" /\ GamePath[5] # "/" /\ JoinPath[4] # "/" /\ JoinPath[5] # "/" /\ JoinPath[6] = "/"
  BY <1>1
<1>6. NextSlash(GamePath, 4) = 6
  BY <1>3, <1>5
<1>7. NextSlash(JoinPath, 4) = 6
  BY <1>4, <1>5
<1> QED
  BY <1>1, <1>2, <1>6, <1>7, <1>8

(* matchRoute on the path of a game: /g/ and characters but no slash.      *)
LEMMA MatchGame ==
    ASSUME NEW C, NEW path \in Seq(C)
    PROVE  MatchRoute(GamePath, path) =
               IF BelowGames(path) /\ Len(path) >= 4 /\ NextSlash(path, 4) = Len(path) + 1
                 THEN {<<SubSeq(path, 4, Len(path))>>}
                 ELSE {}
<1> DEFINE m == Matches(GamePath, path)
           L == Len(path)
           id == SubSeq(path, 4, NextSlash(path, 4) - 1)
<1>1. MatchRoute(GamePath, path) =
        IF BelowGames(path) /\ L >= 4 THEN {<<id>> \o rest : rest \in m[6][NextSlash(path, 4)]} ELSE {}
  <2>1. GamePath[4] = ":" /\ Len(GamePath) >= 5
    BY PatternsAre
  <2> QED
    BY <2>1, PatternsAre, MatchBelowGames
<1>2. SUFFICES ASSUME BelowGames(path), L >= 4
               PROVE  {<<id>> \o rest : rest \in m[6][NextSlash(path, 4)]} =
                        IF NextSlash(path, 4) = L + 1 THEN {<<SubSeq(path, 4, L)>>} ELSE {}
  BY <1>1
<1>3. L \in Nat /\ NextSlash(path, 4) \in 4..L + 1 /\ id \in Seq(C)
  BY <1>2, NextSlashIs
<1>4. m[6][NextSlash(path, 4)] = MatchStep(GamePath, path, m, 6, NextSlash(path, 4))
  <2>1. 6 \in 1..Len(GamePath) + 1 /\ NextSlash(path, 4) \in 1..L + 1
    BY <1>3, PatternsAre
  <2>2. GamePath \in Seq(Letter)
    BY PatternsAre
  <2> QED
    BY <2>1, <2>2, MatchRouteIs
<1>5. m[6][NextSlash(path, 4)] = IF NextSlash(path, 4) = L + 1 THEN {<< >>} ELSE {}
  BY <1>3, <1>4, PatternsAre DEF MatchStep
<1>6. CASE NextSlash(path, 4) = L + 1
  <2>1. id = SubSeq(path, 4, L)
    BY <1>3, <1>6
  <2> HIDE DEF id, m
  <2> QED
    BY <1>3, <1>5, <1>6, <2>1, OneParameter
<1>7. CASE NextSlash(path, 4) # L + 1
  <2> HIDE DEF id, m
  <2> QED
  BY <1>5, <1>7
<1> QED
  BY <1>6, <1>7

(* And on that of a join: anything without a slash, and then /j .          *)
LEMMA MatchJoin ==
    ASSUME NEW C, NEW path \in Seq(C)
    PROVE  MatchRoute(JoinPath, path) =
               IF /\ BelowGames(path) /\ Len(path) >= 4
                  /\ NextSlash(path, 4) = Len(path) - 1 /\ path[Len(path)] = "j"
                 THEN {<<SubSeq(path, 4, Len(path) - 2)>>}
                 ELSE {}
<1> DEFINE m == Matches(JoinPath, path)
           L == Len(path)
           n == NextSlash(path, 4)
           id == SubSeq(path, 4, n - 1)
<1>1. MatchRoute(JoinPath, path) =
        IF BelowGames(path) /\ L >= 4 THEN {<<id>> \o rest : rest \in m[6][n]} ELSE {}
  <2>1. JoinPath[4] = ":" /\ Len(JoinPath) >= 5
    BY PatternsAre
  <2> QED
    BY <2>1, PatternsAre, MatchBelowGames
<1>2. SUFFICES ASSUME BelowGames(path), L >= 4
               PROVE  {<<id>> \o rest : rest \in m[6][n]} =
                        IF n = L - 1 /\ path[L] = "j" THEN {<<SubSeq(path, 4, L - 2)>>} ELSE {}
  BY <1>1
<1>3. L \in Nat /\ n \in 4..L + 1 /\ id \in Seq(C) /\ (n =< L => path[n] = "/")
  BY <1>2, NextSlashIs
<1>4. \A pi \in 6..8, qi \in 4..L + 1 : m[pi][qi] = MatchStep(JoinPath, path, m, pi, qi)
  <2>1. 6..8 \subseteq 1..Len(JoinPath) + 1 /\ 4..L + 1 \subseteq 1..L + 1
    BY <1>3, PatternsAre
  <2>2. JoinPath \in Seq(Letter)
    BY PatternsAre
  <2> QED
    BY <2>1, <2>2, MatchRouteIs
<1>5. JoinPath[6] = "/" /\ JoinPath[7] = "j" /\ Len(JoinPath) = 7
  BY PatternsAre
<1> HIDE DEF m, id, n, L
<1>6. m[6][n] = IF n = L - 1 /\ path[L] = "j" THEN {<< >>} ELSE {}
  <2>1. \A qi \in 4..L + 1 : m[8][qi] = IF qi = L + 1 THEN {<< >>} ELSE {}
    BY <1>3, <1>4, <1>5 DEF MatchStep, L
  <2>2. ASSUME NEW qi \in 4..L + 1
        PROVE  m[7][qi] = IF qi = L + 1 THEN {} ELSE IF path[qi] = "j" THEN m[8][qi + 1] ELSE {}
    <3>1. m[7][qi] = MatchStep(JoinPath, path, m, 7, qi)
      BY <1>4
    <3>2. JoinPath[7] # ":" /\ ~(7 > Len(JoinPath)) /\ 7 + 1 = 8
      BY <1>5
    <3>3. qi > Len(path) <=> qi = L + 1
      BY <1>3 DEF L
    <3> QED
      BY <1>5, <3>1, <3>2, <3>3 DEF MatchStep
  <2>3. m[6][n] = IF n = L + 1 THEN {} ELSE m[7][n + 1]
    <3>1. m[6][n] = MatchStep(JoinPath, path, m, 6, n)
      BY <1>3, <1>4
    <3>2. JoinPath[6] # ":" /\ ~(6 > Len(JoinPath)) /\ 6 + 1 = 7
      BY <1>5
    <3>3. n > Len(path) <=> n = L + 1
      BY <1>3 DEF L
    <3>4. n # L + 1 => path[n] = "/"
      BY <1>3
    <3> QED
      BY <1>5, <3>1, <3>2, <3>3, <3>4 DEF MatchStep
  <2>4. CASE n >= L
    BY <1>3, <2>2, <2>3, <2>4
  <2>5. CASE n < L
    BY <1>3, <2>1, <2>2, <2>3, <2>5
  <2> QED
    BY <1>3, <2>4, <2>5
<1>7. CASE n = L - 1 /\ path[L] = "j"
  <2>1. id = SubSeq(path, 4, L - 2)
    BY <1>3, <1>7 DEF id
  <2> QED
    BY <1>3, <1>6, <1>7, <2>1, OneParameter
<1>8. CASE ~(n = L - 1 /\ path[L] = "j")
  BY <1>6, <1>8
<1> QED
  BY <1>7, <1>8

-----------------------------------------------------------------------------
(* The segments of a path.                                                 *)

\* The segments of s from the i-th character on, if there is one after i - 1.
Rest(s, i) == SegmentsFrom(s)[i]
\* The segment that begins at i.
Segment(s, i) == SubSeq(s, i, NextSlash(s, i) - 1)

(* They are sequences: the next one, and the rest behind the slash.        *)
LEMMA SegmentsAre ==
    ASSUME NEW C, NEW s \in Seq(C)
    PROVE  /\ Segments(s) = Rest(s, 1)
           /\ Rest(s, Len(s) + 2) = << >>
           /\ \A i \in 1..Len(s) + 1 :
                 /\ Rest(s, i) = <<Segment(s, i)>> \o Rest(s, NextSlash(s, i) + 1)
                 /\ Segment(s, i) \in Seq(C)
           /\ \A i \in 1..Len(s) + 2 : Rest(s, i) \in Seq(Seq(C))
<1> DEFINE L == Len(s) + 2
<1>1. L \in Nat
  OBVIOUS
<1>2. Segments(s) = Rest(s, 1)
  BY DEF Segments, SegmentsFrom, SegmentStep, Rest
<1>3. \A i \in 1..L : Rest(s, i) = SegmentStep(s, SegmentsFrom(s), i)
  BY SegmentsExist DEF Rest
<1>4. Rest(s, Len(s) + 2) = << >>
  <2>1. Len(s) + 2 \in 1..L /\ Len(s) + 2 > Len(s) + 1
    BY <1>1
  <2>2. Rest(s, Len(s) + 2) = SegmentStep(s, SegmentsFrom(s), Len(s) + 2)
    BY <1>3, <2>1
  <2> QED
    BY <2>1, <2>2 DEF SegmentStep
<1>5. ASSUME NEW i \in 1..Len(s) + 1
      PROVE  /\ Rest(s, i) = <<Segment(s, i)>> \o Rest(s, NextSlash(s, i) + 1)
             /\ Segment(s, i) \in Seq(C)
  <2>1. NextSlash(s, i) \in i..Len(s) + 1
    BY NextSlashIs
  <2>2. \A j \in i..NextSlash(s, i) - 1 : s[j] \in C
    BY <2>1
  <2>3. Segment(s, i) \in Seq(C)
    BY <2>1, <2>2, SubSeqProperties DEF Segment
  <2>4. Rest(s, i) = SegmentStep(s, SegmentsFrom(s), i) /\ ~(i > Len(s) + 1)
    BY <1>3
  <2> QED
    BY <2>3, <2>4 DEF SegmentStep, Segment, Rest
<1> DEFINE S == {k \in Nat : \A i \in 1..L : i >= L - k => Rest(s, i) \in Seq(Seq(C))}
<1>6. 0 \in S
  <2> SUFFICES ASSUME NEW i \in 1..L, i >= L - 0 PROVE Rest(s, i) \in Seq(Seq(C))
    OBVIOUS
  <2>1. i = Len(s) + 2
    BY <1>1
  <2>2. << >> \in Seq(Seq(C))
    BY EmptySeq
  <2> QED
    BY <1>4, <2>1, <2>2
<1>7. ASSUME NEW k \in S PROVE k + 1 \in S
  <2> SUFFICES ASSUME NEW i \in 1..L, i >= L - (k + 1) PROVE Rest(s, i) \in Seq(Seq(C))
    BY <1>1
  <2>1. CASE i >= L - k
    BY <1>7, <2>1
  <2>2. CASE ~(i >= L - k)
    <3>1. i \in 1..Len(s) + 1
      BY <1>1, <2>2
    <3>2. NextSlash(s, i) \in i..Len(s) + 1
      BY <3>1, NextSlashIs
    <3>3. NextSlash(s, i) + 1 \in 1..L /\ NextSlash(s, i) + 1 >= L - k
      BY <1>1, <2>2, <3>1, <3>2
    <3>4. Rest(s, NextSlash(s, i) + 1) \in Seq(Seq(C))
      BY <1>7, <3>3
    <3>5. <<Segment(s, i)>> \in Seq(Seq(C))
      <4>1. Segment(s, i) \in Seq(C)
        BY <1>5, <3>1
      <4> QED
        BY ONLY <4>1
    <3> QED
      BY <1>5, <3>1, <3>4, <3>5, ConcatProperties
  <2> QED
    BY <2>1, <2>2
<1>8. L \in S
  BY <1>1, <1>6, <1>7, CountingUp
<1>9. \A i \in 1..L : Rest(s, i) \in Seq(Seq(C))
  BY <1>1, <1>8
<1> QED
  BY <1>2, <1>4, <1>5, <1>9

(* One segment more than there are behind its slash, and it comes first.   *)
LEMMA FirstSegment ==
    ASSUME NEW C, NEW s \in Seq(C), NEW i \in 1..Len(s) + 1
    PROVE  LET next == NextSlash(s, i) + 1 IN
           /\ next \in i + 1..Len(s) + 2
           /\ Len(Rest(s, next)) \in Nat /\ Len(Rest(s, i)) = 1 + Len(Rest(s, next))
           /\ Rest(s, i)[1] = Segment(s, i)
           /\ \A k \in 1..Len(Rest(s, next)) : Rest(s, i)[k + 1] = Rest(s, next)[k]
           /\ Len(Rest(s, next)) = 0 <=> next = Len(s) + 2
<1> DEFINE next == NextSlash(s, i) + 1
<1>1. NextSlash(s, i) \in i..Len(s) + 1
  BY NextSlashIs
<1>2. next \in i + 1..Len(s) + 2 /\ next \in 1..Len(s) + 2
  BY <1>1
<1>3. /\ Rest(s, i) = <<Segment(s, i)>> \o Rest(s, next)
      /\ <<Segment(s, i)>> \in Seq(Seq(C)) /\ Rest(s, next) \in Seq(Seq(C))
  BY <1>2, SegmentsAre
<1> HIDE DEF next
<1>4. /\ Len(Rest(s, next)) \in Nat /\ Len(Rest(s, i)) = 1 + Len(Rest(s, next))
      /\ \A k \in 1..1 + Len(Rest(s, next)) :
            Rest(s, i)[k] = IF k =< 1 THEN <<Segment(s, i)>>[k] ELSE Rest(s, next)[k - 1]
  BY <1>3, ConcatProperties
<1>5. Rest(s, i)[1] = Segment(s, i)
  BY <1>4
<1>6. \A k \in 1..Len(Rest(s, next)) : Rest(s, i)[k + 1] = Rest(s, next)[k]
  <2> TAKE k \in 1..Len(Rest(s, next))
  <2>1. k + 1 \in 1..1 + Len(Rest(s, next)) /\ ~(k + 1 =< 1) /\ (k + 1) - 1 = k
    BY <1>4
  <2> QED
    BY <1>4, <2>1
<1>7. next = Len(s) + 2 => Len(Rest(s, next)) = 0
  BY SegmentsAre
<1>8. ASSUME next # Len(s) + 2 PROVE Len(Rest(s, next)) # 0
  <2>1. next \in 1..Len(s) + 1 /\ NextSlash(s, next) + 1 \in 1..Len(s) + 2
    <3>1. next \in 1..Len(s) + 1
      BY <1>2, <1>8
    <3>2. NextSlash(s, next) \in next..Len(s) + 1
      BY <3>1, NextSlashIs
    <3> QED
      BY <3>1, <3>2
  <2> DEFINE after == NextSlash(s, next) + 1
  <2>2. /\ Rest(s, next) = <<Segment(s, next)>> \o Rest(s, after)
        /\ <<Segment(s, next)>> \in Seq(Seq(C)) /\ Rest(s, after) \in Seq(Seq(C))
    BY <2>1, SegmentsAre
  <2> HIDE DEF after
  <2>3. Len(Rest(s, next)) = 1 + Len(Rest(s, after)) /\ Len(Rest(s, after)) \in Nat
    BY <2>2, ConcatProperties
  <2> QED
    BY <2>3
<1> QED
  BY <1>2, <1>4, <1>5, <1>6, <1>7, <1>8 DEF next

(* The first segments are nothing and g exactly in a path below /g/ .      *)
LEMMA SegmentsBelowGames ==
    ASSUME NEW C, NEW s \in Seq(C)
    PROVE  /\ (/\ Len(Segments(s)) >= 3
               /\ Segments(s)[1] = << >> /\ Segments(s)[2] = <<"g">>) <=> BelowGames(s)
           /\ BelowGames(s) =>
                 /\ 4 \in 1..Len(s) + 1
                 /\ Len(Segments(s)) = 2 + Len(Rest(s, 4))
                 /\ \A k \in 1..Len(Rest(s, 4)) : Segments(s)[k + 2] = Rest(s, 4)[k]
<1> DEFINE n1 == NextSlash(s, 1)
           n2 == NextSlash(s, n1 + 1)
           L == Len(s)
<1>1. L \in Nat /\ 1 \in 1..L + 1 /\ Segments(s) = Rest(s, 1)
  BY SegmentsAre
<1>2. /\ n1 \in 1..L + 1
      /\ n1 =< L => s[n1] = "/"
      /\ \A j \in 1..n1 - 1 : s[j] # "/"
  BY <1>1, NextSlashIs
<1>3. n1 =< L => /\ n2 \in n1 + 1..L + 1
                 /\ n2 =< L => s[n2] = "/"
                 /\ \A j \in n1 + 1..n2 - 1 : s[j] # "/"
  <2> SUFFICES ASSUME n1 =< L
               PROVE  /\ n2 \in n1 + 1..L + 1
                      /\ n2 =< L => s[n2] = "/"
                      /\ \A j \in n1 + 1..n2 - 1 : s[j] # "/"
    OBVIOUS
  <2>1. n1 + 1 \in 1..L + 1
    BY <1>1, <1>2
  <2> HIDE DEF n1
  <2> QED
    BY <2>1, NextSlashIs
<1>4. /\ Len(Rest(s, n1 + 1)) \in Nat /\ Len(Rest(s, 1)) = 1 + Len(Rest(s, n1 + 1))
      /\ Rest(s, 1)[1] = Segment(s, 1)
      /\ \A k \in 1..Len(Rest(s, n1 + 1)) : Rest(s, 1)[k + 1] = Rest(s, n1 + 1)[k]
      /\ Len(Rest(s, n1 + 1)) = 0 <=> n1 + 1 = L + 2
  BY <1>1, FirstSegment
<1>5. n1 =< L =>
      /\ Len(Rest(s, n2 + 1)) \in Nat /\ Len(Rest(s, n1 + 1)) = 1 + Len(Rest(s, n2 + 1))
      /\ Rest(s, n1 + 1)[1] = Segment(s, n1 + 1)
      /\ \A k \in 1..Len(Rest(s, n2 + 1)) : Rest(s, n1 + 1)[k + 1] = Rest(s, n2 + 1)[k]
      /\ Len(Rest(s, n2 + 1)) = 0 <=> n2 + 1 = L + 2
  <2> SUFFICES ASSUME n1 =< L
               PROVE  /\ Len(Rest(s, n2 + 1)) \in Nat /\ Len(Rest(s, n1 + 1)) = 1 + Len(Rest(s, n2 + 1))
                      /\ Rest(s, n1 + 1)[1] = Segment(s, n1 + 1)
                      /\ \A k \in 1..Len(Rest(s, n2 + 1)) : Rest(s, n1 + 1)[k + 1] = Rest(s, n2 + 1)[k]
                      /\ Len(Rest(s, n2 + 1)) = 0 <=> n2 + 1 = L + 2
    OBVIOUS
  <2>1. n1 + 1 \in 1..L + 1
    BY <1>1, <1>2
  <2> HIDE DEF n1
  <2> QED
    BY <2>1, FirstSegment
<1>6. Segment(s, 1) = SubSeq(s, 1, n1 - 1) /\ Segment(s, n1 + 1) = SubSeq(s, n1 + 1, n2 - 1)
  BY DEF Segment
<1> HIDE DEF n1, n2, L
<1>7. Len(Segments(s)) >= 3 <=> n1 =< L /\ n2 =< L
  <2>1. CASE n1 =< L
    <3>1. Len(Segments(s)) = 2 + Len(Rest(s, n2 + 1)) /\ Len(Rest(s, n2 + 1)) \in Nat
      BY <1>1, <1>4, <1>5, <2>1
    <3>2. Len(Rest(s, n2 + 1)) = 0 <=> ~(n2 =< L)
      <4>1. Len(Rest(s, n2 + 1)) = 0 <=> n2 + 1 = L + 2
        BY <1>5, <2>1
      <4>2. n2 \in n1 + 1..L + 1 /\ n1 \in Nat
        BY <1>2, <1>3, <2>1
      <4> QED
        BY ONLY <1>1, <4>1, <4>2
    <3> QED
      BY <2>1, <3>1, <3>2
  <2>2. CASE ~(n1 =< L)
    <3>1. n1 + 1 = L + 2
      BY <1>1, <1>2, <2>2
    <3> QED
      BY <1>1, <1>4, <2>2, <3>1
  <2> QED
    BY <2>1, <2>2
<1>8. ASSUME n1 =< L, n2 =< L
      PROVE  /\ Segments(s)[1] = SubSeq(s, 1, n1 - 1)
             /\ Segments(s)[2] = SubSeq(s, n1 + 1, n2 - 1)
             /\ Len(Segments(s)) = 2 + Len(Rest(s, n2 + 1))
             /\ \A k \in 1..Len(Rest(s, n2 + 1)) : Segments(s)[k + 2] = Rest(s, n2 + 1)[k]
  <2>1. Segments(s)[1] = SubSeq(s, 1, n1 - 1)
    BY <1>1, <1>4, <1>6
  <2>2. 1 \in 1..Len(Rest(s, n1 + 1)) /\ 1 + 1 = 2
    BY <1>5, <1>8
  <2>3. Segments(s)[2] = SubSeq(s, n1 + 1, n2 - 1)
    BY <1>1, <1>4, <1>5, <1>6, <1>8, <2>2
  <2>4. Len(Segments(s)) = 2 + Len(Rest(s, n2 + 1))
    BY <1>1, <1>4, <1>5, <1>8
  <2>5. ASSUME NEW k \in 1..Len(Rest(s, n2 + 1)) PROVE Segments(s)[k + 2] = Rest(s, n2 + 1)[k]
    <3>1. k + 1 \in 1..Len(Rest(s, n1 + 1)) /\ (k + 1) + 1 = k + 2
      BY <1>5, <1>8
    <3> QED
      BY <1>1, <1>4, <1>5, <1>8, <3>1
  <2> QED
    BY <2>1, <2>3, <2>4, <2>5
<1>9. ASSUME BelowGames(s) PROVE n1 = 1 /\ n2 = 3 /\ L >= 3
  <2>1. L >= 3 /\ s[1] = "/" /\ s[2] = "g" /\ s[3] = "/"
    BY <1>9 DEF BelowGames, L
  <2>2. n1 = 1
    BY <1>1, <1>2, <2>1
  <2>3. n2 = 3
    BY <1>1, <1>3, <2>1, <2>2
  <2> QED
    BY <2>1, <2>2, <2>3
<1>10. ASSUME n1 =< L, n2 =< L, SubSeq(s, 1, n1 - 1) = << >>, SubSeq(s, n1 + 1, n2 - 1) = <<"g">>
       PROVE  BelowGames(s)
  <2>1. \A j \in 1..L : s[j] \in C
    BY DEF L
  <2>2. Len(SubSeq(s, 1, n1 - 1)) = IF 1 <= n1 - 1 THEN n1 - 1 - 1 + 1 ELSE 0
    <3>1. \A j \in 1..n1 - 1 : s[j] \in C
      BY <1>1, <1>2, <2>1
    <3> QED
      BY <1>1, <1>2, <3>1, SubSeqProperties
  <2>3. n1 = 1
    <3> DEFINE first == SubSeq(s, 1, n1 - 1)
    <3>1. first = << >> /\ Len(first) = IF 1 <= n1 - 1 THEN n1 - 1 - 1 + 1 ELSE 0
      BY <1>10, <2>2
    <3> HIDE DEF first
    <3>2. Len(first) = 0
      BY <3>1
    <3>3. n1 \in Nat /\ n1 >= 1
      BY <1>1, <1>2
    <3> QED
      BY <3>1, <3>2, <3>3
  <2>4. Len(SubSeq(s, 2, n2 - 1)) = (IF 2 <= n2 - 1 THEN n2 - 1 - 2 + 1 ELSE 0)
        /\ \A j \in 1..n2 - 1 - 2 + 1 : SubSeq(s, 2, n2 - 1)[j] = s[2 + j - 1]
    <3>1. \A j \in 2..n2 - 1 : s[j] \in C
      BY <1>1, <1>3, <1>10, <2>1, <2>3
    <3>2. 2 \in Int /\ n2 - 1 \in Int
      BY <1>1, <1>3, <1>10, <2>3
    <3> QED
      BY ONLY <3>1, <3>2, SubSeqProperties
  <2>5. SubSeq(s, 2, n2 - 1) = <<"g">>
    BY <1>10, <2>3
  <2>8. Len(<<"g">>) = 1 /\ <<"g">>[1] = "g"
    OBVIOUS
  <2>6. n2 = 3
    <3>1. n2 \in Nat /\ n2 >= 2
      BY <1>1, <1>3, <1>10, <2>3
    <3>2. Len(SubSeq(s, 2, n2 - 1)) = 1
      BY <2>5, <2>8
    <3> QED
      BY ONLY <2>4, <3>1, <3>2
  <2>7. s[2] = "g"
    <3>1. 1 \in 1..n2 - 1 - 2 + 1 /\ 2 + 1 - 1 = 2
      BY <2>6
    <3>2. SubSeq(s, 2, n2 - 1)[1] = s[2]
      BY <2>4, <3>1
    <3> QED
      BY <2>5, <2>8, <3>2
  <2> QED
    BY <1>1, <1>2, <1>3, <1>10, <2>3, <2>6, <2>7 DEF BelowGames, L
<1>11. (/\ Len(Segments(s)) >= 3
        /\ Segments(s)[1] = << >> /\ Segments(s)[2] = <<"g">>) => BelowGames(s)
  BY <1>7, <1>8, <1>10
<1>12. ASSUME BelowGames(s)
       PROVE  /\ Len(Segments(s)) >= 3 /\ Segments(s)[1] = << >> /\ Segments(s)[2] = <<"g">>
              /\ 4 \in 1..Len(s) + 1
              /\ Len(Segments(s)) = 2 + Len(Rest(s, 4))
              /\ \A k \in 1..Len(Rest(s, 4)) : Segments(s)[k + 2] = Rest(s, 4)[k]
  <2>1. n1 = 1 /\ n2 = 3 /\ L >= 3
    BY <1>9, <1>12
  <2>2. SubSeq(s, 1, 0) = << >>
    BY SubSeqEmpty
  <2>3. SubSeq(s, 2, 2) = <<"g">>
    <3>1. s[2] = "g" /\ 2 \in 1..Len(s) /\ Len(s) \in Nat
      BY <1>1, <1>12, <2>1 DEF BelowGames, L
    <3>2. SubSeq(s, 2, 2) = <<s[2]>> \o SubSeq(s, 3, 2)
      BY <3>1, SubSeqRecursiveFirst
    <3>3. SubSeq(s, 3, 2) = << >>
      BY SubSeqEmpty
    <3>4. <<s[2]>> \in Seq(C)
      BY <3>1
    <3> QED
      BY <3>1, <3>2, <3>3, <3>4, ConcatEmptySeq
  <2>4. 1 - 1 = 0 /\ 1 + 1 = 2 /\ 3 - 1 = 2 /\ 3 + 1 = 4 /\ n1 =< L /\ n2 =< L
    BY <1>1, <2>1
  <2>5. Len(Segments(s)) >= 3
    BY <1>7, <2>4
  <2>6. 4 \in 1..Len(s) + 1
    BY <1>1, <2>1 DEF L
  <2> QED
    BY <1>8, <2>1, <2>2, <2>3, <2>4, <2>5, <2>6
<1> QED
  BY <1>11, <1>12

-----------------------------------------------------------------------------
(* matchRoute and the comparison by segments are the same.                 *)

(* A stretch of one character.                                             *)
LEMMA OneCharacter ==
    ASSUME NEW C, NEW s \in Seq(C), NEW i \in 1..Len(s), NEW n \in Int
    PROVE  /\ SubSeq(s, i, i) = <<s[i]>>
           /\ \A c : (SubSeq(s, i, n) = <<c>> => n = i /\ s[i] = c) \/ n > Len(s)
<1>1. SubSeq(s, i, i) = <<s[i]>>
  <2>1. SubSeq(s, i, i) = <<s[i]>> \o SubSeq(s, i + 1, i)
    <3>1. i \in i..Len(s)
      OBVIOUS
    <3> QED
      BY <3>1, SubSeqRecursiveFirst
  <2>2. SubSeq(s, i + 1, i) = << >>
    BY SubSeqEmpty
  <2>3. <<s[i]>> \in Seq(C)
    OBVIOUS
  <2> QED
    BY <2>1, <2>2, <2>3, ConcatEmptySeq
<1>2. ASSUME NEW c, SubSeq(s, i, n) = <<c>>, ~(n > Len(s))
      PROVE  n = i /\ s[i] = c
  <2> DEFINE x == SubSeq(s, i, n)
  <2>1. \A j \in i..n : s[j] \in C
    BY <1>2
  <2>2. /\ Len(x) = IF i <= n THEN n - i + 1 ELSE 0
        /\ \A j \in 1..n - i + 1 : x[j] = s[i + j - 1]
    BY <2>1, SubSeqProperties
  <2>3. x = <<c>>
    BY <1>2
  <2> HIDE DEF x
  <2>4. Len(x) = 1 /\ x[1] = c
    BY <2>3
  <2>5. n = i
    <3>1. i \in Int /\ n \in Int
      OBVIOUS
    <3>2. 1 = IF i <= n THEN n - i + 1 ELSE 0
      BY <2>2, <2>4
    <3> QED
      BY ONLY <3>1, <3>2
  <2>6. 1 \in 1..n - i + 1 /\ i + 1 - 1 = i
    BY <2>5
  <2> QED
    BY <2>2, <2>4, <2>5, <2>6
<1> QED
  BY <1>1, <1>2

(* None of the fixed segments is a parameter.                              *)
LEMMA NotParameters == ~IsParameter(<< >>) /\ ~IsParameter(<<"g">>) /\ ~IsParameter(<<"j">>)
  BY DEF IsParameter

(* The segments of the patterns: the third is the parameter.               *)
LEMMA PatternSegments ==
    /\ Len(Segments(GamePath)) = 3 /\ Len(Segments(JoinPath)) = 4
    /\ Segments(GamePath)[1] = << >> /\ Segments(GamePath)[2] = <<"g">>
    /\ Segments(JoinPath)[1] = << >> /\ Segments(JoinPath)[2] = <<"g">>
    /\ Segments(JoinPath)[4] = <<"j">>
    /\ IsParameter(Segments(GamePath)[3]) /\ IsParameter(Segments(JoinPath)[3])
<1>1. /\ GamePath \in Seq(Letter) /\ Len(GamePath) = 5 /\ BelowGames(GamePath)
      /\ JoinPath \in Seq(Letter) /\ Len(JoinPath) = 7 /\ BelowGames(JoinPath)
      /\ NextSlash(GamePath, 4) = 6 /\ NextSlash(JoinPath, 4) = 6
  BY PatternsAre
<1>2. GamePath[4] = ":" /\ JoinPath[4] = ":" /\ JoinPath[7] = "j"
  BY PatternsAre
<1>3. /\ Segments(GamePath)[1] = << >> /\ Segments(GamePath)[2] = <<"g">>
      /\ Len(Segments(GamePath)) = 2 + Len(Rest(GamePath, 4))
      /\ \A k \in 1..Len(Rest(GamePath, 4)) : Segments(GamePath)[k + 2] = Rest(GamePath, 4)[k]
  BY <1>1, SegmentsBelowGames
<1>4. /\ Segments(JoinPath)[1] = << >> /\ Segments(JoinPath)[2] = <<"g">>
      /\ Len(Segments(JoinPath)) = 2 + Len(Rest(JoinPath, 4))
      /\ \A k \in 1..Len(Rest(JoinPath, 4)) : Segments(JoinPath)[k + 2] = Rest(JoinPath, 4)[k]
  BY <1>1, SegmentsBelowGames
<1>5. Len(Segments(GamePath)) = 3 /\ Segments(GamePath)[3] = SubSeq(GamePath, 4, 5)
  <2>1. 4 \in 1..Len(GamePath) + 1
    BY <1>1
  <2>2. /\ Len(Rest(GamePath, 4)) = 1 + Len(Rest(GamePath, 7))
        /\ Rest(GamePath, 4)[1] = Segment(GamePath, 4)
        /\ Len(Rest(GamePath, 7)) = 0
    <3> DEFINE next == NextSlash(GamePath, 4) + 1
    <3>1. /\ Len(Rest(GamePath, 4)) = 1 + Len(Rest(GamePath, next))
          /\ Rest(GamePath, 4)[1] = Segment(GamePath, 4)
          /\ Len(Rest(GamePath, next)) = 0 <=> next = Len(GamePath) + 2
      BY <1>1, <2>1, FirstSegment
    <3>2. next = 7 /\ Len(GamePath) + 2 = 7
      BY <1>1
    <3> HIDE DEF next
    <3> QED
      BY <3>1, <3>2
  <2>3. Segment(GamePath, 4) = SubSeq(GamePath, 4, 5)
    BY <1>1 DEF Segment
  <2>4. 1 \in 1..Len(Rest(GamePath, 4)) /\ 1 + 2 = 3
    BY <2>2
  <2> QED
    BY <1>3, <2>2, <2>3, <2>4
<1>6. /\ Len(Segments(JoinPath)) = 4 /\ Segments(JoinPath)[3] = SubSeq(JoinPath, 4, 5)
      /\ Segments(JoinPath)[4] = <<"j">>
  <2>1. 4 \in 1..Len(JoinPath) + 1 /\ 7 \in 1..Len(JoinPath) + 1
    BY <1>1
  <2>2. /\ Len(Rest(JoinPath, 4)) = 1 + Len(Rest(JoinPath, 7))
        /\ Rest(JoinPath, 4)[1] = Segment(JoinPath, 4)
        /\ \A k \in 1..Len(Rest(JoinPath, 7)) : Rest(JoinPath, 4)[k + 1] = Rest(JoinPath, 7)[k]
    <3> DEFINE next == NextSlash(JoinPath, 4) + 1
    <3>1. /\ Len(Rest(JoinPath, 4)) = 1 + Len(Rest(JoinPath, next))
          /\ Rest(JoinPath, 4)[1] = Segment(JoinPath, 4)
          /\ \A k \in 1..Len(Rest(JoinPath, next)) :
                Rest(JoinPath, 4)[k + 1] = Rest(JoinPath, next)[k]
      BY <1>1, <2>1, FirstSegment
    <3>2. next = 7
      BY <1>1
    <3> HIDE DEF next
    <3> QED
      BY <3>1, <3>2
  <2>3. NextSlash(JoinPath, 7) = 8
    <3>1. /\ NextSlash(JoinPath, 7) \in 7..Len(JoinPath) + 1
          /\ NextSlash(JoinPath, 7) =< Len(JoinPath) => JoinPath[NextSlash(JoinPath, 7)] = "/"
      BY <1>1, <2>1, NextSlashIs
    <3>2. NextSlash(JoinPath, 7) \in 7..8 /\ NextSlash(JoinPath, 7) # 7
      BY <1>1, <1>2, <3>1
    <3> QED
      BY <3>2
  <2>4. Len(Rest(JoinPath, 7)) = 1 /\ Rest(JoinPath, 7)[1] = Segment(JoinPath, 7)
    <3>1. /\ Len(Rest(JoinPath, 7)) = 1 + Len(Rest(JoinPath, 9))
          /\ Rest(JoinPath, 7)[1] = Segment(JoinPath, 7)
          /\ Len(Rest(JoinPath, 9)) = 0
      <4> DEFINE next == NextSlash(JoinPath, 7) + 1
      <4>1. /\ Len(Rest(JoinPath, 7)) = 1 + Len(Rest(JoinPath, next))
            /\ Rest(JoinPath, 7)[1] = Segment(JoinPath, 7)
            /\ Len(Rest(JoinPath, next)) = 0 <=> next = Len(JoinPath) + 2
        BY <1>1, <2>1, FirstSegment
      <4>2. next = 9 /\ Len(JoinPath) + 2 = 9
        BY <1>1, <2>3
      <4> HIDE DEF next
      <4> QED
        BY <4>1, <4>2
    <3> QED
      BY <3>1
  <2>5. Segment(JoinPath, 7) = <<"j">>
    <3>1. 7 \in 1..Len(JoinPath) /\ 7 \in Int
      BY <1>1
    <3>2. SubSeq(JoinPath, 7, 7) = <<JoinPath[7]>>
      BY <1>1, <3>1, OneCharacter
    <3>3. Segment(JoinPath, 7) = SubSeq(JoinPath, 7, 7)
      BY <2>3 DEF Segment
    <3> QED
      BY <1>2, <3>2, <3>3
  <2>6. Segment(JoinPath, 4) = SubSeq(JoinPath, 4, 5)
    BY <1>1 DEF Segment
  <2>7. Len(Rest(JoinPath, 4)) = 2 /\ Rest(JoinPath, 4)[2] = <<"j">>
    <3>1. 1 \in 1..Len(Rest(JoinPath, 7)) /\ 1 + 1 = 2
      BY <2>4
    <3>2. Rest(JoinPath, 4)[1 + 1] = Rest(JoinPath, 7)[1]
      BY <2>2, <3>1
    <3> QED
      BY <2>2, <2>4, <2>5, <3>1, <3>2
  <2>8. /\ 1 \in 1..Len(Rest(JoinPath, 4)) /\ 1 + 2 = 3
        /\ 2 \in 1..Len(Rest(JoinPath, 4)) /\ 2 + 2 = 4
    BY <2>7
  <2> QED
    BY <1>4, <2>2, <2>6, <2>7, <2>8
<1>7. ASSUME NEW s \in Seq(Letter), s[4] = ":", Len(s) >= 5
      PROVE  IsParameter(SubSeq(s, 4, 5))
  <2> DEFINE x == SubSeq(s, 4, 5)
  <2>1. 4 \in 1..Len(s) /\ 5 \in 4..Len(s)
    BY <1>7
  <2>2. Head(x) = s[4]
    BY <2>1, HeadTailOfSubSeq
  <2>3. Len(x) = 2
    <3>1. \A j \in 4..5 : s[j] \in Letter
      BY <1>7
    <3> QED
      BY <3>1, SubSeqProperties
  <2> HIDE DEF x
  <2>4. x # << >>
    BY <2>3
  <2>5. IsParameter(x)
    BY <1>7, <2>2, <2>4 DEF IsParameter
  <2> QED
    BY <2>5 DEF x
<1>8. IsParameter(SubSeq(GamePath, 4, 5)) /\ IsParameter(SubSeq(JoinPath, 4, 5))
  <2>1. Len(GamePath) >= 5 /\ Len(JoinPath) >= 5
    BY <1>1
  <2> QED
    BY <1>1, <1>2, <1>7, <2>1
<1> QED
  BY <1>3, <1>4, <1>5, <1>6, <1>8

(* BySegments for a pattern with one parameter.                            *)
LEMMA OneParameterBySegments ==
    ASSUME NEW pattern, NEW path, NEW p \in 1..Len(Segments(pattern)),
           \A i \in 1..Len(Segments(pattern)) : IsParameter(Segments(pattern)[i]) <=> i = p
    PROVE  BySegments(pattern, path) =
               IF /\ Len(Segments(path)) = Len(Segments(pattern))
                  /\ \A i \in 1..Len(Segments(pattern)) :
                        IF i = p THEN i = Len(Segments(pattern)) => Segments(path)[i] # << >>
                        ELSE Segments(pattern)[i] = Segments(path)[i]
                 THEN {<<Segments(path)[p]>>}
                 ELSE {}
<1> DEFINE P == Segments(pattern)
           Q == Segments(path)
           parameters == {i \in 1..Len(P) : IsParameter(P[i])}
           Nth(k) == CHOOSE i \in parameters : Cardinality({j \in parameters : j =< i}) = k
           good == /\ Len(Q) = Len(P)
                   /\ \A i \in 1..Len(P) :
                        IF IsParameter(P[i]) THEN i = Len(P) => Q[i] # << >> ELSE P[i] = Q[i]
<1>1. BySegments(pattern, path) =
        IF good THEN {[k \in 1..Cardinality(parameters) |-> Q[Nth(k)]]} ELSE {}
  BY DEF BySegments
<1>2. parameters = {p}
  OBVIOUS
<1>3. Cardinality(parameters) = 1
  BY <1>2, FS_Singleton
<1>4. Nth(1) = p
  <2>1. {j \in parameters : j =< p} = {p}
    BY <1>2
  <2>2. Cardinality({j \in parameters : j =< p}) = 1
    BY <2>1, FS_Singleton
  <2> HIDE DEF parameters
  <2>3. p \in parameters /\ \A i \in parameters : i = p
    BY <1>2
  <2> QED
    BY <2>2, <2>3
<1>5. [k \in 1..Cardinality(parameters) |-> Q[Nth(k)]] = <<Q[p]>>
  <2> HIDE DEF parameters, Nth, Q
  <2>1. \A k \in 1..1 : k = 1
    OBVIOUS
  <2>2. [k \in 1..1 |-> Q[Nth(k)]] = [k \in 1..1 |-> Q[p]]
    BY <1>4, <2>1
  <2>3. [k \in 1..1 |-> Q[p]] = <<Q[p]>>
    OBVIOUS
  <2> QED
    BY <1>3, <2>2, <2>3
<1>6. good <=> /\ Len(Q) = Len(P)
               /\ \A i \in 1..Len(P) : IF i = p THEN i = Len(P) => Q[i] # << >> ELSE P[i] = Q[i]
  OBVIOUS
<1> QED
  BY <1>1, <1>5, <1>6

(* The two definitions agree on the path of a game ...                     *)
LEMMA GameBySegments ==
    ASSUME NEW C, NEW path \in Seq(C)
    PROVE  MatchRoute(GamePath, path) = BySegments(GamePath, path)
<1> DEFINE Q == Segments(path)
           L == Len(path)
           n == NextSlash(path, 4)
<1>1. BySegments(GamePath, path) =
        IF /\ Len(Q) = 3
           /\ \A i \in 1..3 : IF i = 3 THEN i = 3 => Q[i] # << >>
                              ELSE Segments(GamePath)[i] = Q[i]
          THEN {<<Q[3]>>} ELSE {}
  <2>1. Len(Segments(GamePath)) = 3
    BY PatternSegments
  <2>2. \A i \in 1..3 : IsParameter(Segments(GamePath)[i]) <=> i = 3
    BY PatternSegments, NotParameters
  <2>3. 3 \in 1..Len(Segments(GamePath))
    BY <2>1
  <2>4. BySegments(GamePath, path) =
          IF /\ Len(Segments(path)) = Len(Segments(GamePath))
             /\ \A i \in 1..Len(Segments(GamePath)) :
                   IF i = 3 THEN i = Len(Segments(GamePath)) => Segments(path)[i] # << >>
                   ELSE Segments(GamePath)[i] = Segments(path)[i]
            THEN {<<Segments(path)[3]>>}
            ELSE {}
    <3>1. \A i \in 1..Len(Segments(GamePath)) : IsParameter(Segments(GamePath)[i]) <=> i = 3
      BY <2>1, <2>2
    <3> QED
      BY ONLY <2>3, <3>1, OneParameterBySegments
  <2> QED
    BY <2>1, <2>4
<1>2. BySegments(GamePath, path) =
        IF Len(Q) = 3 /\ Q[1] = << >> /\ Q[2] = <<"g">> /\ Q[3] # << >> THEN {<<Q[3]>>} ELSE {}
  BY <1>1, PatternSegments
<1>3. /\ (Len(Q) >= 3 /\ Q[1] = << >> /\ Q[2] = <<"g">>) <=> BelowGames(path)
      /\ BelowGames(path) =>
            /\ 4 \in 1..L + 1
            /\ Len(Q) = 2 + Len(Rest(path, 4))
            /\ \A k \in 1..Len(Rest(path, 4)) : Q[k + 2] = Rest(path, 4)[k]
  BY SegmentsBelowGames
<1>4. MatchRoute(GamePath, path) =
        IF BelowGames(path) /\ L >= 4 /\ n = L + 1 THEN {<<SubSeq(path, 4, L)>>} ELSE {}
  BY MatchGame
<1>5. CASE ~BelowGames(path)
  <2>1. ~(Len(Q) = 3 /\ Q[1] = << >> /\ Q[2] = <<"g">>)
    BY <1>3, <1>5
  <2> QED
    BY <1>2, <1>4, <1>5, <2>1
<1>6. CASE BelowGames(path)
  <2>1. L \in Nat /\ 4 \in 1..L + 1 /\ n \in 4..L + 1
    BY <1>3, <1>6, NextSlashIs
  <2>2. /\ Len(Rest(path, n + 1)) \in Nat /\ Len(Rest(path, 4)) = 1 + Len(Rest(path, n + 1))
        /\ Rest(path, 4)[1] = SubSeq(path, 4, n - 1)
        /\ Len(Rest(path, n + 1)) = 0 <=> n + 1 = L + 2
    BY <2>1, FirstSegment DEF Segment
  <2>3. Q[3] = SubSeq(path, 4, n - 1)
    <3>1. 1 \in 1..Len(Rest(path, 4)) /\ 1 + 2 = 3
      BY <2>2
    <3>2. Q[3] = Rest(path, 4)[1]
      BY <1>3, <1>6, <3>1
    <3> QED
      BY <2>2, <3>2
  <2>4. Len(Q) = 3 <=> n = L + 1
    <3>1. Len(Q) = 3 + Len(Rest(path, n + 1))
      BY <1>3, <1>6, <2>2
    <3> QED
      BY <2>1, <2>2, <3>1
  <2>5. n = L + 1 => (Q[3] # << >> <=> L >= 4)
    <3> SUFFICES ASSUME n = L + 1 PROVE Q[3] # << >> <=> L >= 4
      OBVIOUS
    <3> DEFINE x == SubSeq(path, 4, L)
    <3>1. Q[3] = x
      BY <2>1, <2>3
    <3>2. Len(x) = (IF 4 <= L THEN L - 4 + 1 ELSE 0) /\ x \in Seq(C)
      <4>1. \A j \in 4..L : path[j] \in C
        OBVIOUS
      <4> QED
        BY <2>1, <4>1, SubSeqProperties
    <3> HIDE DEF x, Q, L
    <3>3. x = << >> <=> Len(x) = 0
      BY <3>2, EmptySeq
    <3> QED
      BY <2>1, <3>1, <3>2, <3>3
  <2>6. n = L + 1 => Q[3] = SubSeq(path, 4, L)
    BY <2>1, <2>3
  <2>7. (Len(Q) = 3 /\ Q[1] = << >> /\ Q[2] = <<"g">> /\ Q[3] # << >>) <=> (L >= 4 /\ n = L + 1)
    BY <1>3, <1>6, <2>4, <2>5
  <2> HIDE DEF Q, L, n
  <2> QED
    BY <1>2, <1>4, <1>6, <2>6, <2>7
<1> QED
  BY <1>5, <1>6

(* ... and on that of a join.                                              *)
LEMMA JoinBySegments ==
    ASSUME NEW C, NEW path \in Seq(C)
    PROVE  MatchRoute(JoinPath, path) = BySegments(JoinPath, path)
<1> DEFINE Q == Segments(path)
           L == Len(path)
           n == NextSlash(path, 4)
<1>1. BySegments(JoinPath, path) =
        IF /\ Len(Q) = 4
           /\ \A i \in 1..4 : IF i = 3 THEN i = 4 => Q[i] # << >>
                              ELSE Segments(JoinPath)[i] = Q[i]
          THEN {<<Q[3]>>} ELSE {}
  <2>1. Len(Segments(JoinPath)) = 4
    BY PatternSegments
  <2>2. \A i \in 1..4 : IsParameter(Segments(JoinPath)[i]) <=> i = 3
    BY PatternSegments, NotParameters
  <2>3. 3 \in 1..Len(Segments(JoinPath))
    BY <2>1
  <2>4. BySegments(JoinPath, path) =
          IF /\ Len(Segments(path)) = Len(Segments(JoinPath))
             /\ \A i \in 1..Len(Segments(JoinPath)) :
                   IF i = 3 THEN i = Len(Segments(JoinPath)) => Segments(path)[i] # << >>
                   ELSE Segments(JoinPath)[i] = Segments(path)[i]
            THEN {<<Segments(path)[3]>>}
            ELSE {}
    <3>1. \A i \in 1..Len(Segments(JoinPath)) : IsParameter(Segments(JoinPath)[i]) <=> i = 3
      BY <2>1, <2>2
    <3> QED
      BY ONLY <2>3, <3>1, OneParameterBySegments
  <2> QED
    BY <2>1, <2>4
<1>2. BySegments(JoinPath, path) =
        IF Len(Q) = 4 /\ Q[1] = << >> /\ Q[2] = <<"g">> /\ Q[4] = <<"j">> THEN {<<Q[3]>>} ELSE {}
  BY <1>1, PatternSegments
<1>3. /\ (Len(Q) >= 3 /\ Q[1] = << >> /\ Q[2] = <<"g">>) <=> BelowGames(path)
      /\ BelowGames(path) =>
            /\ 4 \in 1..L + 1
            /\ Len(Q) = 2 + Len(Rest(path, 4))
            /\ \A k \in 1..Len(Rest(path, 4)) : Q[k + 2] = Rest(path, 4)[k]
  BY SegmentsBelowGames
<1>4. MatchRoute(JoinPath, path) =
        IF BelowGames(path) /\ L >= 4 /\ n = L - 1 /\ path[L] = "j"
          THEN {<<SubSeq(path, 4, L - 2)>>} ELSE {}
  BY MatchJoin
<1>5. CASE ~BelowGames(path)
  <2>1. ~(Len(Q) = 4 /\ Q[1] = << >> /\ Q[2] = <<"g">>)
    <3>1. Len(Q) = 4 => Len(Q) >= 3
      OBVIOUS
    <3> QED
      BY <1>3, <1>5, <3>1
  <2> QED
    BY <1>2, <1>4, <1>5, <2>1
<1>6. CASE BelowGames(path)
  <2>1. /\ L \in Nat /\ 4 \in 1..L + 1 /\ n \in 4..L + 1
        /\ n =< L => path[n] = "/"
    BY <1>3, <1>6, NextSlashIs
  <2>2. /\ Len(Rest(path, n + 1)) \in Nat /\ Len(Rest(path, 4)) = 1 + Len(Rest(path, n + 1))
        /\ Rest(path, 4)[1] = SubSeq(path, 4, n - 1)
        /\ \A k \in 1..Len(Rest(path, n + 1)) : Rest(path, 4)[k + 1] = Rest(path, n + 1)[k]
        /\ Len(Rest(path, n + 1)) = 0 <=> n + 1 = L + 2
    BY <2>1, FirstSegment DEF Segment
  <2>3. Q[3] = SubSeq(path, 4, n - 1)
    <3>1. 1 \in 1..Len(Rest(path, 4)) /\ 1 + 2 = 3
      BY <2>2
    <3>2. Q[3] = Rest(path, 4)[1]
      BY <1>3, <1>6, <3>1
    <3> QED
      BY <2>2, <3>2
  <2>4. Len(Q) = 3 + Len(Rest(path, n + 1))
    BY <1>3, <1>6, <2>2
  <2>5. CASE n = L + 1
    <3>1. Len(Q) # 4
      BY <2>2, <2>4, <2>5
    <3>2. n # L - 1
      BY <2>1, <2>5
    <3> QED
      BY <1>2, <1>4, <3>1, <3>2
  <2>6. CASE n # L + 1
    <3> DEFINE o == NextSlash(path, n + 1)
    <3>1. n + 1 \in 1..L + 1
      BY <2>1, <2>6
    <3>2. o \in n + 1..L + 1 /\ (o =< L => path[o] = "/")
      BY <3>1, NextSlashIs
    <3>3. /\ Len(Rest(path, o + 1)) \in Nat
          /\ Len(Rest(path, n + 1)) = 1 + Len(Rest(path, o + 1))
          /\ Rest(path, n + 1)[1] = SubSeq(path, n + 1, o - 1)
          /\ Len(Rest(path, o + 1)) = 0 <=> o + 1 = L + 2
      BY <3>1, FirstSegment DEF Segment
    <3>4. Len(Q) = 4 <=> o = L + 1
      <4>1. Len(Q) = 3 + (1 + Len(Rest(path, o + 1)))
        BY <2>4, <3>3
      <4>2. Len(Rest(path, o + 1)) \in Nat /\ (Len(Rest(path, o + 1)) = 0 <=> o + 1 = L + 2)
        BY <3>3
      <4>3. o \in Int /\ L \in Int
        BY <2>1, <3>2
      <4> HIDE DEF Q, L, o
      <4> QED
        BY ONLY <4>1, <4>2, <4>3
    <3>5. Q[4] = SubSeq(path, n + 1, o - 1)
      <4>1. 2 \in 1..Len(Rest(path, 4)) /\ 2 + 2 = 4 /\ 1 \in 1..Len(Rest(path, n + 1)) /\ 1 + 1 = 2
        BY <2>2, <3>3
      <4>2. Q[4] = Rest(path, 4)[2]
        BY <1>3, <1>6, <4>1
      <4> QED
        BY <2>2, <3>3, <4>1, <4>2
    <3>6. ASSUME o = L + 1, Q[4] = <<"j">> PROVE n = L - 1 /\ path[L] = "j" /\ L >= 4
      <4>1. SubSeq(path, n + 1, L) = <<"j">>
        <5>1. o - 1 = L
          BY <2>1, <3>6
        <5> HIDE DEF o, Q, L
        <5> QED
          BY <3>5, <3>6, <5>1
      <4>2. CASE n + 1 \in 1..L
        <5>1. ~(L > Len(path)) /\ L \in Int
          BY <2>1
        <5>2. L = n + 1 /\ path[n + 1] = "j"
          BY <4>1, <4>2, <5>1, OneCharacter
        <5>3. n = L - 1 /\ L >= 4
          BY <2>1, <5>2
        <5> HIDE DEF n, L
        <5> QED
          BY <5>2, <5>3
      <4>3. CASE n + 1 \notin 1..L
        <5>1. L < n + 1 /\ n + 1 \in Int /\ L \in Int
          BY <2>1, <3>1, <4>3
        <5>2. SubSeq(path, n + 1, L) = << >>
          BY <5>1, SubSeqEmpty
        <5>3. << >> # <<"j">>
          OBVIOUS
        <5> QED
          BY ONLY <4>1, <5>2, <5>3, Zenon
      <4> QED
        BY <4>2, <4>3
    <3>7. ASSUME n = L - 1, path[L] = "j" PROVE o = L + 1 /\ Q[4] = <<"j">>
      <4>1. o = L + 1
        BY <2>1, <3>2, <3>7
      <4>2. n + 1 = L /\ o - 1 = L /\ L \in 1..L /\ L \in Int
        BY <2>1, <3>7, <4>1
      <4>3. SubSeq(path, L, L) = <<path[L]>>
        BY <4>2, OneCharacter
      <4> QED
        BY <3>5, <3>7, <4>1, <4>2, <4>3
    <3>8. (Len(Q) = 4 /\ Q[1] = << >> /\ Q[2] = <<"g">> /\ Q[4] = <<"j">>)
            <=> (L >= 4 /\ n = L - 1 /\ path[L] = "j")
      BY <1>3, <1>6, <3>4, <3>6, <3>7
    <3>9. n = L - 1 => Q[3] = SubSeq(path, 4, L - 2)
      BY <2>1, <2>3
    <3> HIDE DEF Q, L, n, o
    <3> QED
      BY <1>2, <1>4, <1>6, <3>8, <3>9
  <2> QED
    BY <2>5, <2>6
<1> QED
  BY <1>5, <1>6

(* Whatever characters and slashes a path has.                             *)
LEMMA MatchesBySegments ==
    ASSUME NEW C, NEW path \in Seq(C), NEW i \in DOMAIN PatternRoutes
    PROVE  MatchRoute(PatternRoutes[i].path, path) = BySegments(PatternRoutes[i].path, path)
<1>1. i = 1 \/ i = 2
  BY DEF PatternRoutes
<1> QED
  BY <1>1, GameBySegments, JoinBySegments DEF GamePath, JoinPath

-----------------------------------------------------------------------------
(* Codes.                                                                  *)

(* A capital letter stays one.                                             *)
LEMMA UpperIsUpper ==
    ASSUME NEW ch
    PROVE  Upper(Upper(ch)) = Upper(ch) /\ (IsAlnum(Upper(ch)) <=> IsAlnum(ch))
<1>1. CASE ch = "a"
  BY <1>1 DEF Upper, IsAlnum
<1>2. CASE ch = "b"
  BY <1>2 DEF Upper, IsAlnum
<1>3. CASE ch # "a" /\ ch # "b"
  <2>1. Upper(ch) = ch
    BY <1>3 DEF Upper
  <2> QED
    BY <2>1
<1> QED
  BY <1>1, <1>2, <1>3

\* One step of normalizeGameCode's loop, and the loop.
CapsStep(raw, caps, i) ==
    IF i = 0 THEN << >>
    ELSE IF IsAlnum(raw[i]) THEN Append(caps[i - 1], Upper(raw[i]))
    ELSE caps[i - 1]

\* What the loop has kept after each character.
Caps(raw) == CHOOSE caps : caps = [i \in 0..Len(raw) |-> CapsStep(raw, caps, i)]

(* The loop comes to its end with what its steps say.                      *)
LEMMA CapsExist ==
    ASSUME NEW C, NEW raw \in Seq(C)
    PROVE  Caps(raw) = [i \in 0..Len(raw) |-> CapsStep(raw, Caps(raw), i)]
<1> DEFINE L == Len(raw)
           Right(f, k) == \A i \in 0..L : i =< k => f[i] = CapsStep(raw, f, i)
           S == {k \in Nat : \E f : Right(f, k)}
<1>1. L \in Nat
  OBVIOUS
<1>2. 0 \in S
  <2> DEFINE f == [i \in 0..L |-> << >>]
  <2>1. f[0] = << >> /\ \A i \in 0..L : i =< 0 => i = 0
    BY <1>1
  <2> HIDE DEF f
  <2>2. Right(f, 0)
    BY <2>1 DEF CapsStep
  <2> HIDE DEF Right
  <2> QED
    BY <2>2
<1>3. ASSUME NEW k \in S PROVE k + 1 \in S
  <2>1. PICK f : Right(f, k)
    OBVIOUS
  <2> DEFINE g == [i \in 0..L |-> IF i = k + 1 THEN CapsStep(raw, f, i) ELSE f[i]]
  <2>2. ASSUME NEW i \in 0..L, i =< k + 1 PROVE g[i] = CapsStep(raw, g, i)
    <3>1. g[i] = CapsStep(raw, f, i)
      BY <2>1, <2>2, <1>1
    <3>2. i # 0 => f[i - 1] = g[i - 1]
      BY <2>2, <1>1
    <3> HIDE DEF g
    <3> QED
      BY <3>1, <3>2 DEF CapsStep
  <2> HIDE DEF g
  <2>3. Right(g, k + 1)
    BY <2>2
  <2> HIDE DEF Right
  <2> QED
    BY <2>3
<1>4. L \in S
  BY <1>1, <1>2, <1>3, CountingUp
<1>5. PICK f : Right(f, L)
  BY <1>4
<1> DEFINE g == [i \in 0..L |-> f[i]]
<1>6. ASSUME NEW i \in 0..L PROVE g[i] = CapsStep(raw, g, i)
  <2>1. f[i] = CapsStep(raw, f, i)
    BY <1>1, <1>5
  <2>2. i # 0 => f[i - 1] = g[i - 1]
    BY <1>1
  <2>3. g[i] = f[i]
    OBVIOUS
  <2> HIDE DEF g
  <2> QED
    BY <2>1, <2>2, <2>3 DEF CapsStep
<1>7. g = [i \in 0..L |-> CapsStep(raw, g, i)]
  BY <1>6
<1> QED
  BY <1>7 DEF Caps

\* The capitals of C that codes are made of.
Capital(C) == {Upper(ch) : ch \in {c \in C : IsAlnum(c)}}

(* They are letters and digits, and in capitals already.                   *)
LEMMA CapitalsAreCapitals ==
    ASSUME NEW C, NEW ch \in Capital(C)
    PROVE  IsAlnum(ch) /\ Upper(ch) = ch
  BY UpperIsUpper DEF Capital

(* The loop keeps nothing else.                                            *)
LEMMA CapsAre ==
    ASSUME NEW C, NEW raw \in Seq(C)
    PROVE  \A i \in 0..Len(raw) : Caps(raw)[i] \in Seq(Capital(C))
<1> DEFINE S == {k \in Nat : k =< Len(raw) => Caps(raw)[k] \in Seq(Capital(C))}
<1>1. Len(raw) \in Nat
  OBVIOUS
<1>2. \A i \in 0..Len(raw) : Caps(raw)[i] = CapsStep(raw, Caps(raw), i)
  BY CapsExist
<1>3. 0 \in S
  <2>1. 0 \in 0..Len(raw)
    BY <1>1
  <2>2. Caps(raw)[0] = << >>
    BY <1>2, <2>1 DEF CapsStep
  <2>3. << >> \in Seq(Capital(C))
    BY EmptySeq
  <2> QED
    BY <2>2, <2>3
<1>4. ASSUME NEW k \in S PROVE k + 1 \in S
  <2> SUFFICES ASSUME k + 1 =< Len(raw) PROVE Caps(raw)[k + 1] \in Seq(Capital(C))
    OBVIOUS
  <2>1. k + 1 \in 0..Len(raw) /\ k + 1 \in 1..Len(raw) /\ k =< Len(raw) /\ k + 1 # 0 /\ (k + 1) - 1 = k
    BY <1>1
  <2>2. Caps(raw)[k] \in Seq(Capital(C))
    BY <2>1
  <2>3. Caps(raw)[k + 1] =
          IF IsAlnum(raw[k + 1]) THEN Append(Caps(raw)[k], Upper(raw[k + 1])) ELSE Caps(raw)[k]
    BY <1>2, <2>1 DEF CapsStep
  <2>4. raw[k + 1] \in C
    BY <2>1
  <2>5. IsAlnum(raw[k + 1]) => Upper(raw[k + 1]) \in Capital(C)
    BY <2>4 DEF Capital
  <2> QED
    BY <2>2, <2>3, <2>5
<1>5. S = Nat
  BY <1>3, <1>4, CountingUp
<1> QED
  BY <1>1, <1>5

(* normalizeGameCode is what the loop kept, cut at MaxCode.                *)
LEMMA NormalizeIs ==
    ASSUME NEW C, NEW raw \in Seq(C)
    PROVE  LET out == Caps(raw)[Len(raw)] IN
           /\ out \in Seq(Capital(C))
           /\ NormalizeGameCode(raw) = SubSeq(out, 1, IF Len(out) > MaxCode THEN MaxCode ELSE Len(out))
<1>1. NormalizeGameCode(raw) =
        SubSeq(Caps(raw)[Len(raw)], 1,
               IF Len(Caps(raw)[Len(raw)]) > MaxCode THEN MaxCode ELSE Len(Caps(raw)[Len(raw)]))
  BY DEF NormalizeGameCode, Caps, CapsStep
<1>2. Len(raw) \in 0..Len(raw)
  OBVIOUS
<1> QED
  BY <1>1, <1>2, CapsAre

(* So a code has only such characters, and not too many.                   *)
LEMMA CodesAreCapitals ==
    ASSUME NEW C, NEW raw \in Seq(C)
    PROVE  NormalizeGameCode(raw) \in Seq(Capital(C)) /\ Len(NormalizeGameCode(raw)) =< MaxCode
<1> DEFINE out == Caps(raw)[Len(raw)]
           n == IF Len(out) > MaxCode THEN MaxCode ELSE Len(out)
<1>1. out \in Seq(Capital(C)) /\ NormalizeGameCode(raw) = SubSeq(out, 1, n)
  BY NormalizeIs
<1>2. Len(out) \in Nat /\ n \in Nat /\ n =< Len(out) /\ n =< MaxCode
  BY <1>1, CodeAssumption
<1> HIDE DEF out, n
<1>3. \A j \in 1..n : out[j] \in Capital(C)
  BY <1>1, <1>2
<1>4. SubSeq(out, 1, n) \in Seq(Capital(C)) /\ Len(SubSeq(out, 1, n)) = IF 1 <= n THEN n - 1 + 1 ELSE 0
  BY <1>2, <1>3, SubSeqProperties
<1> QED
  BY <1>1, <1>2, <1>4, CodeAssumption

(* What is a normal code already is left as it is.                         *)
LEMMA NormalCodesStay ==
    ASSUME NEW C, NEW code \in Seq(Capital(C)), Len(code) =< MaxCode
    PROVE  NormalizeGameCode(code) = code
<1> DEFINE L == Len(code)
           S == {k \in Nat : k =< L => Caps(code)[k] = SubSeq(code, 1, k)}
<1>1. L \in Nat
  OBVIOUS
<1>2. \A i \in 0..L : Caps(code)[i] = CapsStep(code, Caps(code), i)
  BY CapsExist
<1>3. 0 \in S
  <2>1. 0 \in 0..L
    BY <1>1
  <2>2. Caps(code)[0] = << >>
    BY <1>2, <2>1 DEF CapsStep
  <2>3. SubSeq(code, 1, 0) = << >>
    BY SubSeqEmpty
  <2> QED
    BY <2>2, <2>3
<1>4. ASSUME NEW k \in S PROVE k + 1 \in S
  <2> SUFFICES ASSUME k + 1 =< L PROVE Caps(code)[k + 1] = SubSeq(code, 1, k + 1)
    OBVIOUS
  <2>1. k + 1 \in 0..L /\ k + 1 \in 1..L /\ k =< L /\ k + 1 # 0 /\ (k + 1) - 1 = k /\ 1 \in 1..L
        /\ k + 1 \in 1..k + 1
    BY <1>1
  <2>2. Caps(code)[k] = SubSeq(code, 1, k)
    BY <2>1
  <2>3. IsAlnum(code[k + 1]) /\ Upper(code[k + 1]) = code[k + 1] /\ code[k + 1] \in Capital(C)
    BY <2>1, CapitalsAreCapitals
  <2>4. Caps(code)[k + 1] = Append(SubSeq(code, 1, k), code[k + 1])
    BY <1>2, <2>1, <2>2, <2>3 DEF CapsStep
  <2>5. SubSeq(code, 1, k + 1) = SubSeq(code, 1, k) \o <<code[k + 1]>>
    BY <2>1, SubSeqRecursiveSecond
  <2>6. SubSeq(code, 1, k) \in Seq(Capital(C))
    <3>1. \A j \in 1..k : code[j] \in Capital(C)
      BY <2>1
    <3> QED
      BY <3>1, SubSeqProperties
  <2>7. Append(SubSeq(code, 1, k), code[k + 1]) = SubSeq(code, 1, k) \o <<code[k + 1]>>
    <3> DEFINE x == SubSeq(code, 1, k)
               e == code[k + 1]
    <3>1. x \in Seq(Capital(C)) /\ e \in Capital(C)
      BY <2>3, <2>6
    <3> HIDE DEF x, e
    <3>2. Append(x, e) = x \o <<e>>
      BY <3>1, AppendIsConcat
    <3> QED
      BY <3>2 DEF x, e
  <2> QED
    BY <2>4, <2>5, <2>7
<1>5. S = Nat
  BY <1>3, <1>4, CountingUp
<1>6. Caps(code)[L] = code
  <2>1. Caps(code)[L] = SubSeq(code, 1, L)
    BY <1>1, <1>5
  <2> QED
    BY <2>1, SubSeqFull
<1>7. NormalizeGameCode(code) = SubSeq(code, 1, IF L > MaxCode THEN MaxCode ELSE L)
  BY <1>6, NormalizeIs
<1>8. ~(L > MaxCode)
  BY <1>1, CodeAssumption
<1> QED
  BY <1>7, <1>8, SubSeqFull

(* Whatever was typed for a code: it is looked up in capitals, letters and *)
(* digits only and not too many, refused exactly if it is too short, and   *)
(* once normalised it stays as it is.                                      *)
THEOREM CodesAreNormal ==
    ASSUME NEW C, NEW raw \in Seq(C)
    PROVE  LET code == NormalizeGameCode(raw) IN
           /\ \A i \in DOMAIN code : IsAlnum(code[i]) /\ Upper(code[i]) = code[i]
           /\ IsValidGameCode(code) <=> Len(code) >= MinCode
           /\ NormalizeGameCode(code) = code
<1> DEFINE code == NormalizeGameCode(raw)
<1>1. code \in Seq(Capital(C)) /\ Len(code) =< MaxCode
  BY CodesAreCapitals
<1> HIDE DEF code
<1>2. \A i \in DOMAIN code : IsAlnum(code[i]) /\ Upper(code[i]) = code[i]
  BY <1>1, CapitalsAreCapitals
<1>3. IsValidGameCode(code) <=> Len(code) >= MinCode
  BY <1>1, <1>2, CodeAssumption DEF IsValidGameCode
<1>4. NormalizeGameCode(code) = code
  BY <1>1, NormalCodesStay
<1> QED
  BY <1>2, <1>3, <1>4 DEF code

(* A body without a code joins nobody.                                     *)
LEMMA NoCodeIsInvalid == ~IsValidGameCode(NormalizeGameCode(<< >>))
<1> DEFINE C == {}
<1>1. << >> \in Seq(C) /\ Len(<< >>) = 0
  BY EmptySeq
<1>2. << >> \in Seq(Capital(C))
  BY EmptySeq
<1>3. NormalizeGameCode(<< >>) = << >>
  <2>1. Len(<< >>) =< MaxCode
    BY <1>1, CodeAssumption
  <2> HIDE DEF C
  <2> QED
    BY ONLY <1>2, <2>1, NormalCodesStay
<1> QED
  BY <1>1, <1>3, CodeAssumption DEF IsValidGameCode

-----------------------------------------------------------------------------
(* What the handlers do of a request.                                      *)

\* The exact paths of the requests that do something.
Games   == <<"/", "g">>
ByCode  == <<"/", "g", "/", "j">>
Cleanup == <<"/", "g", "/", "c">>

(* They are three paths.                                                   *)
LEMMA PathsDiffer == Games # ByCode /\ Games # Cleanup /\ ByCode # Cleanup
<1>1. Len(Games) = 2 /\ Len(ByCode) = 4 /\ Len(Cleanup) = 4 /\ ByCode[4] = "j" /\ Cleanup[4] = "c"
  BY DEF Games, ByCode, Cleanup
<1> QED
  BY <1>1

(* The exact routes of the requests that do something.                     *)
LEMMA ExactPosts ==
    ASSUME NEW path
    PROVE  /\ Exact("POST", Games) # {} /\ \A r \in Exact("POST", Games) : r.handler = "handleCreateGame"
           /\ Exact("POST", ByCode) # {} /\ \A r \in Exact("POST", ByCode) : r.handler = "handleJoinByCode"
           /\ Exact("POST", Cleanup) # {} /\ \A r \in Exact("POST", Cleanup) : r.handler = "handleCleanupStaleLobbies"
           /\ path \notin {Games, ByCode, Cleanup} => Exact("POST", path) = {}
<1> DEFINE create == [method |-> "POST", path |-> Games, handler |-> "handleCreateGame"]
           join   == [method |-> "POST", path |-> ByCode, handler |-> "handleJoinByCode"]
           clean  == [method |-> "POST", path |-> Cleanup, handler |-> "handleCleanupStaleLobbies"]
<1>0. \A r \in ExactRoutes : r.method = "POST" => r \in {create, join, clean}
  BY DEF ExactRoutes, Games, ByCode, Cleanup
<1>5. {create, join, clean} \subseteq ExactRoutes
  BY DEF ExactRoutes, Games, ByCode, Cleanup
<1>1. create \in Exact("POST", Games) /\ \A r \in Exact("POST", Games) : r = create
  BY <1>0, <1>5, PathsDiffer DEF Exact
<1>2. join \in Exact("POST", ByCode) /\ \A r \in Exact("POST", ByCode) : r = join
  BY <1>0, <1>5, PathsDiffer DEF Exact
<1>3. clean \in Exact("POST", Cleanup) /\ \A r \in Exact("POST", Cleanup) : r = clean
  BY <1>0, <1>5, PathsDiffer DEF Exact
<1>4. path \notin {Games, ByCode, Cleanup} => Exact("POST", path) = {}
  BY <1>0 DEF Exact
<1> QED
  BY <1>1, <1>2, <1>3, <1>4

\* The handlers that may change the games.
Doing == {"handleCreateGame", "handleJoinByCode", "handleCleanupStaleLobbies", "handleJoinGameHttp"}

(* The handlers that do something are those of posts.                      *)
LEMMA OnlyPostsDo ==
    ASSUME NEW method, NEW path, method # "POST"
    PROVE  Route(method, path).handler \notin Doing
<1>1. CASE method = "OPTIONS"
  BY <1>1 DEF Route, To, Doing
<1>2. CASE method # "OPTIONS" /\ Exact(method, path) # {}
  <2>1. \A r \in Exact(method, path) : r.handler \notin Doing
    BY DEF Exact, ExactRoutes, Doing
  <2>2. (CHOOSE r \in Exact(method, path) : TRUE) \in Exact(method, path)
    BY <1>2
  <2>3. Route(method, path).handler = (CHOOSE r \in Exact(method, path) : TRUE).handler
    BY <1>2 DEF Route, To
  <2> QED
    BY <2>1, <2>2, <2>3
<1>3. CASE method # "OPTIONS" /\ Exact(method, path) = {} /\ Fitting(method, path) # {}
  <2>1. Fitting(method, path) \subseteq {1}
    BY DEF Fitting, PatternRoutes
  <2>2. Fitting(method, path) = {1}
    BY <1>3, <2>1
  <2>3. Min({1}) = 1
    BY DEF Min
  <2>4. Route(method, path).handler = PatternRoutes[1].handler
    BY <1>3, <2>2, <2>3 DEF Route, To
  <2> QED
    BY <2>4 DEF PatternRoutes, Doing
<1>4. CASE method # "OPTIONS" /\ Exact(method, path) = {} /\ Fitting(method, path) = {}
  BY <1>4 DEF Route, To, Doing
<1> QED
  BY <1>1, <1>2, <1>3, <1>4

(* What a post does, by its path.                                          *)
LEMMA RouteOfPost ==
    ASSUME NEW path
    PROVE  LET route == Route("POST", path) IN
           /\ path = Games => route.handler = "handleCreateGame"
           /\ path = ByCode => route.handler = "handleJoinByCode"
           /\ path = Cleanup => route.handler = "handleCleanupStaleLobbies"
           /\ path \notin {Games, ByCode, Cleanup} =>
                 IF MatchRoute(JoinPath, path) # {}
                   THEN route = To("handleJoinGameHttp", Head(CHOOSE p \in MatchRoute(JoinPath, path) : TRUE))
                   ELSE route = To("notFound", << >>)
<1>1. ASSUME Exact("POST", path) # {}
      PROVE  Route("POST", path).handler = (CHOOSE r \in Exact("POST", path) : TRUE).handler
             /\ (CHOOSE r \in Exact("POST", path) : TRUE) \in Exact("POST", path)
  BY <1>1 DEF Route, To
<1>2. path = Games => Route("POST", path).handler = "handleCreateGame"
  BY <1>1, ExactPosts
<1>3. path = ByCode => Route("POST", path).handler = "handleJoinByCode"
  BY <1>1, ExactPosts
<1>4. path = Cleanup => Route("POST", path).handler = "handleCleanupStaleLobbies"
  BY <1>1, ExactPosts
<1>5. ASSUME path \notin {Games, ByCode, Cleanup}
      PROVE  IF MatchRoute(JoinPath, path) # {}
               THEN Route("POST", path) = To("handleJoinGameHttp", Head(CHOOSE p \in MatchRoute(JoinPath, path) : TRUE))
               ELSE Route("POST", path) = To("notFound", << >>)
  <2>1. Exact("POST", path) = {}
    BY <1>5, ExactPosts
  <2>2. Fitting("POST", path) = IF MatchRoute(JoinPath, path) # {} THEN {2} ELSE {}
    <3>1. DOMAIN PatternRoutes = {1, 2} /\ PatternRoutes[1].method = "GET" /\ PatternRoutes[2].method = "POST"
      BY DEF PatternRoutes
    <3>2. PatternRoutes[2].path = JoinPath
      BY DEF JoinPath
    <3> QED
      BY <3>1, <3>2 DEF Fitting
  <2>3. CASE MatchRoute(JoinPath, path) # {}
    <3>1. Min({2}) = 2 /\ {2} # {}
      BY DEF Min
    <3>2. Route("POST", path) =
            To(PatternRoutes[2].handler, Head(CHOOSE p \in MatchRoute(PatternRoutes[2].path, path) : TRUE))
      BY <2>1, <2>2, <2>3, <3>1 DEF Route
    <3>3. PatternRoutes[2].handler = "handleJoinGameHttp" /\ PatternRoutes[2].path = JoinPath
      BY DEF PatternRoutes, JoinPath
    <3> QED
      BY <2>3, <3>2, <3>3
  <2>4. CASE MatchRoute(JoinPath, path) = {}
    BY <2>1, <2>2, <2>4 DEF Route
  <2> QED
    BY <2>3, <2>4
<1> QED
  BY <1>2, <1>3, <1>4, <1>5

\* What the API says of a request that was read as a whole.
Asked(method, path, body, query) ==
    LET code == NormalizeGameCode(body.code)
        ids == BySegments(JoinPath, path)
    IN  IF method # "POST" THEN Nothing
        ELSE IF path = Games THEN Deed("create", <<body.options>>, 0)
        ELSE IF path = ByCode
          THEN IF IsValidGameCode(code) THEN Deed("join by code", code, 0) ELSE Nothing
        ELSE IF path = Cleanup THEN Deed("clean up", << >>, IdleSeconds(query))
        ELSE IF ids # {} THEN Deed("join", Head(CHOOSE p \in ids : TRUE), 0)
        ELSE Nothing

(* A valid code is not empty: handleJoinByCode asks for both.              *)
LEMMA ValidCodeIsSome == \A code : IsValidGameCode(code) => code # << >>
<1>1. Len(<< >>) = 0
  BY EmptySeq
<1> QED
  BY <1>1, CodeAssumption DEF IsValidGameCode

(* A handler does what the API says of its request.                        *)
LEMMA EffectIsAsked ==
    ASSUME NEW C, NEW path \in Seq(C), NEW method, NEW body, NEW query
    PROVE  Effect(Route(method, path), body, query) = Asked(method, path, body, query)
<1> DEFINE route == Route(method, path)
<1>1. MatchRoute(JoinPath, path) = BySegments(JoinPath, path)
  BY JoinBySegments
<1>2. CASE method # "POST"
  <2>1. route.handler \notin Doing
    BY <1>2, OnlyPostsDo
  <2> HIDE DEF route
  <2>2. Effect(route, body, query) = Nothing
    BY <2>1 DEF Effect, Doing
  <2> QED
    BY <1>2, <2>2 DEF Asked, route
<1>3. CASE method = "POST" /\ path = Games
  <2>1. route.handler = "handleCreateGame"
    BY <1>3, RouteOfPost
  <2> HIDE DEF route
  <2>2. Effect(route, body, query) = Deed("create", <<body.options>>, 0)
    BY <2>1 DEF Effect
  <2> QED
    BY <1>3, <2>2 DEF Asked, route
<1>4. CASE method = "POST" /\ path = ByCode
  <2>1. route.handler = "handleJoinByCode"
    BY <1>4, RouteOfPost
  <2> HIDE DEF route
  <2>2. Effect(route, body, query) =
          IF IsValidGameCode(NormalizeGameCode(body.code))
            THEN Deed("join by code", NormalizeGameCode(body.code), 0) ELSE Nothing
    BY <2>1, ValidCodeIsSome DEF Effect
  <2> QED
    BY <1>4, <2>2, PathsDiffer DEF Asked, route
<1>5. CASE method = "POST" /\ path = Cleanup
  <2>1. route.handler = "handleCleanupStaleLobbies"
    BY <1>5, RouteOfPost
  <2> HIDE DEF route
  <2>2. Effect(route, body, query) = Deed("clean up", << >>, IdleSeconds(query))
    BY <2>1 DEF Effect
  <2> QED
    BY <1>5, <2>2, PathsDiffer DEF Asked, route
<1>6. CASE method = "POST" /\ path \notin {Games, ByCode, Cleanup} /\ MatchRoute(JoinPath, path) # {}
  <2>1. route = To("handleJoinGameHttp", Head(CHOOSE p \in MatchRoute(JoinPath, path) : TRUE))
    BY <1>6, RouteOfPost
  <2>2. route.handler = "handleJoinGameHttp" /\ route.id = Head(CHOOSE p \in BySegments(JoinPath, path) : TRUE)
    BY <1>1, <2>1 DEF To
  <2> HIDE DEF route
  <2>3. Effect(route, body, query) = Deed("join", Head(CHOOSE p \in BySegments(JoinPath, path) : TRUE), 0)
    BY <2>2 DEF Effect
  <2> QED
    BY <1>1, <1>6, <2>3 DEF Asked, route
<1>7. CASE method = "POST" /\ path \notin {Games, ByCode, Cleanup} /\ MatchRoute(JoinPath, path) = {}
  <2>1. route.handler = "notFound"
    BY <1>7, RouteOfPost DEF To
  <2> HIDE DEF route
  <2>2. Effect(route, body, query) = Nothing
    BY <2>1 DEF Effect
  <2> QED
    BY <1>1, <1>7, <2>2 DEF Asked, route
<1> QED
  BY <1>2, <1>3, <1>4, <1>5, <1>6, <1>7

(* A request that is refused as unknown or malformed does nothing.         *)
LEMMA RefusedDoNothing ==
    ASSUME NEW route, NEW body, NEW query, Effect(route, body, query) # Nothing
    PROVE  Status(route, body) \notin {204, 400, 404}
<1>1. route.handler \in Doing
  BY DEF Effect, Doing
<1>2. route.handler = "handleJoinByCode" => IsValidGameCode(NormalizeGameCode(body.code))
  BY DEF Effect
<1>3. Status(route, body) \in {0, 200}
  BY <1>1, <1>2 DEF Status, Doing
<1> QED
  BY <1>3

-----------------------------------------------------------------------------
(* What the process makes of the requests.                                 *)

(* What is known of a request: it is one of those that may come, as much   *)
(* of it was read as there may be, and its answer is its handler's.        *)
Reads ==
    /\ stage \in [Connection -> {"none", "queued", "accepted", "received", "handled"}]
    /\ sent = [c \in Connection |-> sent[c]] /\ cut = [c \in Connection |-> cut[c]]
    /\ effect = [c \in Connection |-> effect[c]] /\ status = [c \in Connection |-> status[c]]
    /\ \A c \in Connection : stage[c] \in {"received", "handled"} =>
           sent[c] \in Sent[c] /\ cut[c] \in Cuts(sent[c])
    /\ \A c \in Connection : stage[c] = "handled" =>
           /\ effect[c] = Effect(Routed(c), Body(c), Query(c))
           /\ status[c] = Status(Routed(c), Body(c))

(* No step reads a request twice or answers what was not read.             *)
LEMMA ReadStep == Reads /\ [Next]_vars => Reads'
<1> SUFFICES ASSUME Reads, [Next]_vars PROVE Reads'
  OBVIOUS
<1> USE DEF mainVars, wsVars, httpVars, connVars
<1>1. ASSUME stage' \in [Connection -> {"none", "queued", "accepted", "received", "handled"}],
             \A c \in Connection : stage'[c] \in {"received", "handled"} => stage'[c] = stage[c],
             UNCHANGED <<sent, cut, effect, status>>
      PROVE  Reads'
  BY <1>1 DEF Reads, Routed, Verb, Path, Query, Body, PathRead, HeadRead, AllRead
<1>2. CASE Signal \/ StartWebSocket \/ StartHttp \/ StopWebSocket \/ JoinWebSocket \/ StopHttp
  BY <1>1, <1>2
  DEF Reads, Signal, StartWebSocket, StartHttp, StopWebSocket, JoinWebSocket, StopHttp
<1>3. CASE CloseHttp
  BY <1>1, <1>3 DEF Reads, CloseHttp, Reset
<1>4. CASE JoinHttp \/ Disconnect \/ Event \/ Handled \/ EndWebSocket \/ Check \/ Accept
  BY <1>1, <1>4 DEF Reads, JoinHttp, Disconnect, Event, Handled, EndWebSocket, Check, Accept
<1>5. ASSUME NEW c \in Connection, Accepted(c) PROVE Reads'
  BY <1>1, <1>5 DEF Reads, Accepted
<1>6. ASSUME NEW c \in Connection, Knock(c) \/ HangUp(c) PROVE Reads'
  BY <1>1, <1>6 DEF Reads, Knock, HangUp
<1>7. ASSUME NEW c \in Connection, Receive(c) PROVE Reads'
  <2>0. PICK request \in Sent[c] : \E n \in Cuts(request) :
          sent' = [sent EXCEPT ![c] = request] /\ cut' = [cut EXCEPT ![c] = n]
    BY <1>7 DEF Receive
  <2>1. PICK n \in Cuts(request) :
          sent' = [sent EXCEPT ![c] = request] /\ cut' = [cut EXCEPT ![c] = n]
    BY <2>0
  <2>2. /\ stage' = [stage EXCEPT ![c] = "received"] /\ effect' = effect /\ status' = status
    BY <1>7 DEF Receive
  <2>3. sent'[c] = request /\ cut'[c] = n /\ \A d \in Connection \ {c} : sent'[d] = sent[d] /\ cut'[d] = cut[d]
    BY <2>1 DEF Reads
  <2>4. stage'[c] = "received" /\ \A d \in Connection \ {c} : stage'[d] = stage[d]
    BY <2>2 DEF Reads
  <2>5. /\ stage' \in [Connection -> {"none", "queued", "accepted", "received", "handled"}]
        /\ sent' = [d \in Connection |-> sent'[d]] /\ cut' = [d \in Connection |-> cut'[d]]
        /\ effect' = [d \in Connection |-> effect'[d]] /\ status' = [d \in Connection |-> status'[d]]
    BY <2>1, <2>2 DEF Reads
  <2>6. ASSUME NEW d \in Connection, stage'[d] \in {"received", "handled"}
        PROVE  sent'[d] \in Sent[d] /\ cut'[d] \in Cuts(sent'[d])
    BY <2>1, <2>3, <2>4, <2>6 DEF Reads
  <2>7. ASSUME NEW d \in Connection, stage'[d] = "handled"
        PROVE  /\ effect'[d] = Effect(Routed(d), Body(d), Query(d))'
               /\ status'[d] = Status(Routed(d), Body(d))'
    <3>1. d # c /\ stage[d] = "handled"
      BY <2>4, <2>7
    <3>2. /\ effect[d] = Effect(Routed(d), Body(d), Query(d)) /\ status[d] = Status(Routed(d), Body(d))
          /\ sent'[d] = sent[d] /\ cut'[d] = cut[d]
      BY <2>3, <3>1 DEF Reads
    <3> QED
      BY <2>2, <3>2 DEF Routed, Verb, Path, Query, Body, PathRead, HeadRead, AllRead
  <2> QED
    BY <2>5, <2>6, <2>7 DEF Reads
<1>8. ASSUME NEW c \in Connection, HandleRequest(c) PROVE Reads'
  <2>1. \A d \in Connection : /\ (Routed(d))' = Routed(d) /\ (Body(d))' = Body(d) /\ (Query(d))' = Query(d)
    BY <1>8 DEF HandleRequest, Routed, Verb, Path, Query, Body, PathRead, HeadRead, AllRead
  <2>2. /\ stage[c] = "received" /\ stage' = [stage EXCEPT ![c] = "handled"]
        /\ effect' = [effect EXCEPT ![c] = Effect(Routed(c), Body(c), Query(c))]
        /\ status' = [status EXCEPT ![c] = Status(Routed(c), Body(c))]
        /\ sent' = sent /\ cut' = cut
    BY <1>8 DEF HandleRequest
  <2>3. ASSUME NEW d \in Connection, stage'[d] = "handled"
        PROVE  /\ effect'[d] = Effect(Routed(d), Body(d), Query(d))
               /\ status'[d] = Status(Routed(d), Body(d))
    BY <2>2, <2>3 DEF Reads
  <2>4. \A d \in Connection : stage'[d] \in {"received", "handled"} => stage[d] \in {"received", "handled"}
    BY <2>2 DEF Reads
  <2>5. /\ stage' \in [Connection -> {"none", "queued", "accepted", "received", "handled"}]
        /\ effect' = [d \in Connection |-> effect'[d]] /\ status' = [d \in Connection |-> status'[d]]
    BY <2>2 DEF Reads
  <2> QED
    BY <2>1, <2>2, <2>3, <2>4, <2>5 DEF Reads
<1>9. ASSUME NEW c \in Connection, Respond(c) PROVE Reads'
  <2>1. /\ stage' = [stage EXCEPT ![c] = "none"]
        /\ sent' = [sent EXCEPT ![c] = NoRequest] /\ cut' = [cut EXCEPT ![c] = 0]
        /\ effect' = [effect EXCEPT ![c] = Nothing] /\ status' = [status EXCEPT ![c] = 0]
    BY <1>9 DEF Respond
  <2>2. /\ stage' \in [Connection -> {"none", "queued", "accepted", "received", "handled"}]
        /\ sent' = [d \in Connection |-> sent'[d]] /\ cut' = [d \in Connection |-> cut'[d]]
        /\ effect' = [d \in Connection |-> effect'[d]] /\ status' = [d \in Connection |-> status'[d]]
    BY <2>1 DEF Reads
  <2>3. ASSUME NEW d \in Connection, stage'[d] \in {"received", "handled"}
        PROVE  /\ d # c /\ stage'[d] = stage[d] /\ sent'[d] = sent[d] /\ cut'[d] = cut[d]
               /\ effect'[d] = effect[d] /\ status'[d] = status[d]
    BY <2>1, <2>3 DEF Reads
  <2>4. ASSUME NEW d \in Connection, stage'[d] \in {"received", "handled"}
        PROVE  sent'[d] \in Sent[d] /\ cut'[d] \in Cuts(sent'[d])
    BY <2>3, <2>4 DEF Reads
  <2>5. ASSUME NEW d \in Connection, stage'[d] = "handled"
        PROVE  /\ effect'[d] = Effect(Routed(d), Body(d), Query(d))'
               /\ status'[d] = Status(Routed(d), Body(d))'
    <3>1. /\ effect[d] = Effect(Routed(d), Body(d), Query(d)) /\ status[d] = Status(Routed(d), Body(d))
          /\ sent'[d] = sent[d] /\ cut'[d] = cut[d]
      BY <2>3, <2>5 DEF Reads
    <3> QED
      BY <2>3, <2>5, <3>1 DEF Routed, Verb, Path, Query, Body, PathRead, HeadRead, AllRead
  <2> QED
    BY <2>2, <2>4, <2>5 DEF Reads
<1>10. CASE UNCHANGED vars
  BY <1>1, <1>10 DEF Reads, vars
<1> QED
  BY <1>2, <1>3, <1>4, <1>5, <1>6, <1>7, <1>8, <1>9, <1>10
  DEF Next, MainStep, WebSocketStep, AcceptorStep

(* So whatever the threads do, each answer is that of the part of a        *)
(* request that was read.                                                  *)
LEMMA ReadsHold == Spec => []Reads
<1>1. Init => Reads
  BY DEF Init, Reads
<1> QED
  BY <1>1, ReadStep, PTL DEF Spec

(* What is read up to the end of a part is read up to the end of that      *)
(* before it.                                                              *)
LEMMA FarEnough ==
    ASSUME NEW n \in Int, NEW a \in Nat, NEW b \in Nat
    PROVE  /\ n >= a + b => n >= a
           /\ n > a + b => n >= a + b
OBVIOUS

(* The part of a path that was read is one, and what comes later in a      *)
(* request is read after what comes before it.                             *)
LEMMA PathsRead ==
    ASSUME Reads, NEW c \in Connection, stage[c] \in {"received", "handled"}
    PROVE  /\ Path(c) \in Seq(STRING) /\ sent[c] \in Sent[c]
           /\ PathRead(c) => Path(c) = sent[c].path
           /\ HeadRead(c) => PathRead(c)
           /\ AllRead(c) => HeadRead(c)
<1>1. sent[c] \in Sent[c] /\ cut[c] \in Cuts(sent[c])
  BY DEF Reads
<1>2. /\ sent[c].path \in Seq(STRING) /\ Len(sent[c].path) \in Nat
      /\ Len(sent[c].query) \in Nat
  BY <1>1, SentAssumption
<1>3. cut[c] \in -1..Len(sent[c].path) + Len(sent[c].query) + 1
  BY <1>1 DEF Cuts
<1>4. (HeadRead(c) => PathRead(c)) /\ (AllRead(c) => HeadRead(c))
  <2>1. cut[c] \in Int
    BY <1>2, <1>3
  <2> QED
    BY <1>2, <2>1, FarEnough DEF PathRead, HeadRead, AllRead
<1>5. CASE PathRead(c)
  BY <1>1, <1>2, <1>4, <1>5 DEF Path
<1>6. CASE ~PathRead(c)
  <2>1. cut[c] < Len(sent[c].path) /\ cut[c] \in Int
    BY <1>2, <1>3, <1>6 DEF PathRead
  <2>2. \A j \in 1..cut[c] : sent[c].path[j] \in STRING
    BY <1>2, <2>1
  <2>3. SubSeq(sent[c].path, 1, cut[c]) \in Seq(STRING)
    BY <2>1, <2>2, SubSeqProperties
  <2> QED
    BY <1>1, <1>4, <1>6, <2>3 DEF Path
<1> QED
  BY <1>5, <1>6

(* For any requests on any number of connections, and wherever the one     *)
(* recv cuts them: matchRoute compares paths with the two patterns of this *)
(* server exactly segment by segment, whatever slashes are in them.        *)
THEOREM RoutesMatchBySegments == Spec => []RoutesGoBySegments
<1>1. Reads => RoutesGoBySegments
  BY PathsRead, MatchesBySegments DEF RoutesGoBySegments
<1> QED
  BY <1>1, ReadsHold, PTL

(* Whatever a query holds, a clean-up leaves lobbies a minute at least.    *)
LEMMA IdleAMinute == \A query : IdleSeconds(query) >= 60
BY SMT DEF IdleSeconds

(* The fields of what is done.                                             *)
LEMMA DeedIs ==
    ASSUME NEW deed, NEW kind, NEW what, NEW seconds, deed = Deed(kind, what, seconds)
    PROVE  deed.kind = kind /\ deed.what = what /\ deed.seconds = seconds
BY DEF Deed

(* A request with another path than the three fixed ones joins a game.     *)
LEMMA OthersJoin ==
    ASSUME NEW method, NEW path, path \notin {Games, ByCode, Cleanup}, NEW body, NEW query,
           Asked(method, path, body, query) # Nothing
    PROVE  Asked(method, path, body, query).kind = "join"
<1>1. PICK id : Asked(method, path, body, query) = Deed("join", id, 0)
  BY DEF Asked
<1> QED
  BY <1>1, DeedIs

(* Two clean-ups differ in nothing but their limits.                       *)
LEMMA CleanUpsAlike ==
    ASSUME NEW one, NEW other, NEW n, NEW m,
           one = Deed("clean up", << >>, n), other = Deed("clean up", << >>, m)
    PROVE  one.kind = other.kind /\ one.what = other.what
BY DeedIs

(* No request asks to remove what was active within the last minute.       *)
LEMMA CleanUpsWait ==
    ASSUME NEW method, NEW path, NEW body, NEW query,
           Asked(method, path, body, query).kind = "clean up"
    PROVE  Asked(method, path, body, query).seconds >= 60
<1> DEFINE asked == Asked(method, path, body, query)
<1>1. \/ asked = Nothing
      \/ \E what : asked = Deed("create", what, 0)
      \/ \E what : asked = Deed("join by code", what, 0)
      \/ \E what : asked = Deed("join", what, 0)
      \/ asked = Deed("clean up", << >>, IdleSeconds(query))
  BY Zenon DEF Asked
<1> HIDE DEF asked
<1>2. asked.kind = "clean up"
  BY DEF asked
<1>3. asked = Deed("clean up", << >>, IdleSeconds(query))
  <2>1. Nothing.kind # "clean up"
    BY DEF Nothing, Deed
  <2>2. ASSUME NEW kind \in {"create", "join by code", "join"}, NEW what
        PROVE  asked # Deed(kind, what, 0)
    BY <1>2, DeedIs
  <2> QED
    BY <1>1, <1>2, <2>1, <2>2
<1>4. asked.seconds = IdleSeconds(query)
  BY <1>3 DEF Deed
<1> QED
  BY <1>4, IdleAMinute DEF asked

\* What a client wants of a request is what the API says of it as a whole.
ClientsKnowTheApi ==
    \A c \in Connection : \A request \in Sent[c] :
        request.wants = Asked(request.method, request.path, request.body, request.query)

(* If clients know the API, then for any requests on any number of         *)
(* connections, and wherever the one recv cuts them: a request read as a   *)
(* whole does what its client wanted or nothing, one without its body the  *)
(* same or a creation with the defaults, one cut off in its query still    *)
(* what kind of thing was wanted - a clean-up perhaps of other lobbies,    *)
(* but of none that was active within the last minute.  One cut off in its *)
(* path may do something else, but only a post does anything, and what is  *)
(* refused has done nothing.                                               *)
THEOREM RequestsActAsSent ==
    ASSUME ClientsKnowTheApi
    PROVE  Spec => []ActsAsSent
<1>1. ASSUME Reads, NEW c \in Connection, stage[c] = "handled", effect[c] # Nothing
      PROVE  /\ sent[c].method = "POST" /\ status[c] \notin {204, 400, 404}
             /\ AllRead(c) => effect[c] = sent[c].wants
             /\ HeadRead(c) => \/ effect[c] = sent[c].wants
                               \/ effect[c].kind = "create" /\ sent[c].wants.kind = "create"
             /\ PathRead(c) => /\ effect[c].kind = sent[c].wants.kind
                               /\ effect[c].what = sent[c].wants.what \/ effect[c].kind = "create"
                               /\ effect[c].kind = "clean up" => effect[c].seconds >= 60
  <2>1. /\ Path(c) \in Seq(STRING) /\ sent[c] \in Sent[c]
        /\ PathRead(c) => Path(c) = sent[c].path
        /\ HeadRead(c) => PathRead(c)
        /\ AllRead(c) => HeadRead(c)
    BY <1>1, PathsRead
  <2>2. /\ effect[c] = Effect(Routed(c), Body(c), Query(c))
        /\ status[c] = Status(Routed(c), Body(c))
    BY <1>1 DEF Reads
  <2>3. effect[c] = Asked(Verb(c), Path(c), Body(c), Query(c))
    BY <2>1, <2>2, EffectIsAsked DEF Routed
  <2>4. Verb(c) = "POST"
    BY <1>1, <2>3 DEF Asked
  <2>5. sent[c].method = "POST"
    BY <2>4 DEF Verb, ParseMethod
  <2>6. status[c] \notin {204, 400, 404}
    BY <1>1, <2>2, RefusedDoNothing
  <2>7. sent[c].wants = Asked("POST", sent[c].path, sent[c].body, sent[c].query)
    BY <2>1, <2>5 DEF ClientsKnowTheApi
  <2>8. ASSUME AllRead(c) PROVE effect[c] = sent[c].wants
    BY <2>1, <2>3, <2>4, <2>7, <2>8 DEF Body, Query
  <2>9. PathRead(c) => effect[c] = Asked("POST", sent[c].path, Body(c), Query(c))
    BY <2>1, <2>3, <2>4
  <2>10. ASSUME PathRead(c), ~AllRead(c)
         PROVE  \/ /\ sent[c].path = Games
                   /\ effect[c].kind = "create" /\ sent[c].wants.kind = "create"
                \/ /\ sent[c].path = Cleanup
                   /\ effect[c] = Deed("clean up", << >>, IdleSeconds(Query(c)))
                   /\ sent[c].wants = Deed("clean up", << >>, IdleSeconds(sent[c].query))
                \/ /\ effect[c] = sent[c].wants
                   /\ effect[c].kind = "join"
    <3>1. CASE sent[c].path = Games
      <4>1. effect[c] = Deed("create", <<Body(c).options>>, 0)
        BY <2>9, <2>10, <3>1 DEF Asked
      <4>2. sent[c].wants = Deed("create", <<sent[c].body.options>>, 0)
        BY <2>7, <3>1 DEF Asked
      <4> QED
        BY <3>1, <4>1, <4>2 DEF Deed
    <3>2. CASE sent[c].path = ByCode
      <4>1. effect[c] = Nothing
        BY <2>9, <2>10, <3>2, NoCodeIsInvalid, PathsDiffer DEF Asked, NoBody, Body
      <4> QED
        BY <1>1, <4>1
    <3>3. CASE sent[c].path = Cleanup
      BY <2>7, <2>9, <2>10, <3>3, PathsDiffer DEF Asked
    <3>4. CASE sent[c].path \notin {Games, ByCode, Cleanup}
      <4>1. effect[c] = sent[c].wants
        BY <2>7, <2>9, <2>10, <3>4 DEF Asked
      <4>2. effect[c].kind = "join"
        BY <1>1, <2>9, <2>10, <3>4, OthersJoin
      <4> QED
        BY <4>1, <4>2
    <3> QED
      BY <3>1, <3>2, <3>3, <3>4
  <2>11. ASSUME HeadRead(c), ~AllRead(c)
         PROVE  \/ effect[c] = sent[c].wants
                \/ effect[c].kind = "create" /\ sent[c].wants.kind = "create"
    <3>1. PathRead(c) /\ Query(c) = sent[c].query
      BY <2>1, <2>11 DEF Query
    <3> QED
      BY <2>10, <2>11, <3>1
  <2>12. ASSUME PathRead(c)
         PROVE  /\ effect[c].kind = sent[c].wants.kind
                /\ effect[c].what = sent[c].wants.what \/ effect[c].kind = "create"
                /\ effect[c].kind = "clean up" => effect[c].seconds >= 60
    <3>1. effect[c].kind = "clean up" => effect[c].seconds >= 60
      BY <2>9, <2>12, CleanUpsWait
    <3>2. CASE AllRead(c)
      BY <2>8, <3>1, <3>2
    <3>3. CASE ~AllRead(c)
      <4>1. CASE /\ effect[c] = Deed("clean up", << >>, IdleSeconds(Query(c)))
                 /\ sent[c].wants = Deed("clean up", << >>, IdleSeconds(sent[c].query))
        <5> DEFINE one == effect[c]
                   other == sent[c].wants
        <5>1. /\ one = Deed("clean up", << >>, IdleSeconds(Query(c)))
              /\ other = Deed("clean up", << >>, IdleSeconds(sent[c].query))
          BY <4>1
        <5> HIDE DEF one, other
        <5>2. one.kind = other.kind /\ one.what = other.what
          BY <5>1, CleanUpsAlike
        <5> QED
          BY <3>1, <5>2 DEF one, other
      <4> QED
        BY <2>10, <2>12, <3>1, <3>3, <4>1
    <3> QED
      BY <3>2, <3>3
  <2> QED
    BY <2>5, <2>6, <2>8, <2>11, <2>12
<1>2. Reads => ActsAsSent
  BY <1>1 DEF ActsAsSent
<1> QED
  BY <1>2, ReadsHold, PTL
=============================================================================
