------------------------------ MODULE WhotHttp ------------------------------
(***************************************************************************)
(* What HttpServer and the handlers of Application make of one request:    *)
(* the method, the route, and what is done of what was asked for.          *)
(*                                                                         *)
(* A path is a sequence of characters and each word of the API is one      *)
(* letter: g stands for api/games, j for join, c for cleanup-stale, l for  *)
(* api/leaderboard and h for api/health.                                   *)
(***************************************************************************)
EXTENDS Integers, Sequences, FiniteSets, SequencesExt

CONSTANTS
    MinCode, MaxCode,  \* kMinGameCodeLength, kMaxGameCodeLength
    Files              \* paths below the static root

ASSUME CodeAssumption ==
    MinCode \in Nat \ {0} /\ MaxCode \in Nat /\ MinCode =< MaxCode

Method == {"GET", "POST", "PUT", "DELETE", "OPTIONS"}

ParseMethod(s) == IF s \in Method THEN s ELSE "GET"

-----------------------------------------------------------------------------

\* The position of the next slash, or that behind the end.
NextSlash(s, i) == Min({j \in i..Len(s) : s[j] = "/"} \cup {Len(s) + 1})

\* Mutant: a path that goes on behind the pattern matches it.
MatchPrefix(pattern, path) ==
    LET m[pi \in 1..Len(pattern) + 1] == [qi \in 1..Len(path) + 1 |->
            IF pi > Len(pattern) THEN {<< >>}
            ELSE IF qi > Len(path) THEN {}
            ELSE IF pattern[pi] = ":" THEN
                {<<SubSeq(path, qi, NextSlash(path, qi) - 1)>> \o rest :
                    rest \in m[NextSlash(pattern, pi)][NextSlash(path, qi)]}
            ELSE IF pattern[pi] = path[qi] THEN m[pi + 1][qi + 1] ELSE {}]
    IN  m[1][1]

\* matchRoute: the values of the parameters, or nothing.  Its loop ends with
\* either string, so a parameter at the end of the pattern needs a character.
MatchRoute(pattern, path) ==
    LET m[pi \in 1..Len(pattern) + 1] == [qi \in 1..Len(path) + 1 |->
            IF pi > Len(pattern) \/ qi > Len(path)
              THEN IF pi > Len(pattern) /\ qi > Len(path) THEN {<< >>} ELSE {}
            ELSE IF pattern[pi] = ":" THEN
                {<<SubSeq(path, qi, NextSlash(path, qi) - 1)>> \o rest :
                    rest \in m[NextSlash(pattern, pi)][NextSlash(path, qi)]}
            ELSE IF pattern[pi] = path[qi] THEN m[pi + 1][qi + 1] ELSE {}]
    IN  m[1][1]

\* setupHttpRoutes.
ExactRoutes ==
    { [method |-> "GET",  path |-> <<"/", "g">>,           handler |-> "handleGetGames"],
      [method |-> "POST", path |-> <<"/", "g">>,           handler |-> "handleCreateGame"],
      [method |-> "GET",  path |-> <<"/", "h">>,           handler |-> "health"],
      [method |-> "POST", path |-> <<"/", "g", "/", "j">>, handler |-> "handleJoinByCode"],
      [method |-> "POST", path |-> <<"/", "g", "/", "c">>, handler |-> "handleCleanupStaleLobbies"],
      [method |-> "GET",  path |-> <<"/", "l">>,           handler |-> "handleLeaderboard"] }

PatternRoutes ==
    << [method |-> "GET",  path |-> <<"/", "g", "/", ":", "i">>,           handler |-> "handleGetGame"],
       [method |-> "POST", path |-> <<"/", "g", "/", ":", "i", "/", "j">>, handler |-> "handleJoinGameHttp"] >>

Exact(method, path) == {r \in ExactRoutes : r.method = method /\ r.path = path}

Fitting(method, path) ==
    {i \in DOMAIN PatternRoutes :
        PatternRoutes[i].method = method /\ MatchRoute(PatternRoutes[i].path, path) # {}}

To(handler, id) == [handler |-> handler, id |-> id]

\* handleRequest: preflights, exact routes, patterns in their order, files.
Route(method, path) ==
    LET first == Min(Fitting(method, path)) IN
    IF method = "OPTIONS" THEN To("preflight", << >>)
    ELSE IF Exact(method, path) # {}
      THEN To((CHOOSE r \in Exact(method, path) : TRUE).handler, << >>)
    ELSE IF Fitting(method, path) # {}
      THEN To(PatternRoutes[first].handler,
              Head(CHOOSE p \in MatchRoute(PatternRoutes[first].path, path) : TRUE))
    ELSE IF method = "GET" THEN To("serveStaticFile", path)
    ELSE To("notFound", << >>)

\* serveStaticFile.
FileOf(path) == IF path \in {<< >>, <<"/">>} THEN <<"/", "index">> ELSE path

-----------------------------------------------------------------------------

\* A few characters a code may be typed with.
Upper(ch) == CASE ch = "a" -> "A" [] ch = "b" -> "B" [] OTHER -> ch
IsAlnum(ch) == Upper(ch) \in {"A", "B", "1"}

\* Mutant: letters are taken as they were typed.
CodeAsTyped(raw) ==
    LET kept == SelectSeq(raw, IsAlnum)
    IN  SubSeq(kept, 1, IF Len(kept) > MaxCode THEN MaxCode ELSE Len(kept))

\* normalizeGameCode: letters and digits in capitals, and not too many.
NormalizeGameCode(raw) ==
    LET caps[i \in 0..Len(raw)] ==
            IF i = 0 THEN << >>
            ELSE IF IsAlnum(raw[i]) THEN Append(caps[i - 1], Upper(raw[i]))
            ELSE caps[i - 1]
        out == caps[Len(raw)]
    IN  SubSeq(out, 1, IF Len(out) > MaxCode THEN MaxCode ELSE Len(out))

IsValidGameCode(code) ==
    MinCode =< Len(code) /\ Len(code) =< MaxCode /\ \A i \in DOMAIN code : IsAlnum(code[i])

MaxInt == 2147483647

\* std::stoi of some digits; -1 stands for what it throws when they are no int.
Number(digits) ==
    LET value[i \in 0..Len(digits)] ==
            IF i = 0 THEN 0
            ELSE IF value[i - 1] < 0 \/ value[i - 1] > (MaxInt - digits[i]) \div 10 THEN -1
            ELSE 10 * value[i - 1] + digits[i]
    IN  IF digits = << >> THEN -1 ELSE value[Len(digits)]

\* The digits of maxIdleSeconds, if the query has any: kDefaultLobbyStaleSeconds
\* without a number, and a minute at least.
IdleSeconds(query) ==
    LET n == Number(query)
    IN  IF n \in 0..MaxInt THEN (IF n < 60 THEN 60 ELSE n) ELSE 1800

-----------------------------------------------------------------------------

\* A body that cannot be parsed counts as an empty one.
NoBody == [options |-> "default", code |-> << >>]

Deed(kind, what, seconds) == [kind |-> kind, what |-> what, seconds |-> seconds]
Nothing == Deed("nothing", << >>, 0)

\* What a handler does to the games, if it does anything.
Effect(route, body, query) ==
    LET code == NormalizeGameCode(body.code) IN
    CASE route.handler = "handleCreateGame" -> Deed("create", <<body.options>>, 0)
      [] route.handler = "handleJoinByCode" /\ code # << >> /\ IsValidGameCode(code) ->
             Deed("join by code", code, 0)
      [] route.handler = "handleJoinGameHttp" -> Deed("join", route.id, 0)
      [] route.handler = "handleCleanupStaleLobbies" -> Deed("clean up", << >>, IdleSeconds(query))
      [] OTHER -> Nothing

\* The answers that do not depend on the games; 0 is one that does.
Status(route, body) ==
    CASE route.handler = "preflight" -> 204
      [] route.handler = "notFound" -> 404
      [] route.handler = "serveStaticFile" -> IF FileOf(route.id) \in Files THEN 200 ELSE 404
      [] route.handler \in {"handleGetGames", "health", "handleLeaderboard",
                            "handleCleanupStaleLobbies"} -> 200
      [] route.handler = "handleJoinByCode" /\ ~IsValidGameCode(NormalizeGameCode(body.code)) -> 400
      [] OTHER -> 0

-----------------------------------------------------------------------------
(* What matchRoute is meant to be: segment by segment.                     *)

Segments(s) ==
    LET from[i \in 1..Len(s) + 2] ==
            IF i > Len(s) + 1 THEN << >>
            ELSE <<SubSeq(s, i, NextSlash(s, i) - 1)>> \o from[NextSlash(s, i) + 1]
    IN  from[1]

IsParameter(segment) == segment # << >> /\ Head(segment) = ":"

BySegments(pattern, path) ==
    LET P == Segments(pattern)
        Q == Segments(path)
        N == Len(P)
        parameters == {i \in 1..N : IsParameter(P[i])}
        Nth(k) == CHOOSE i \in parameters : Cardinality({j \in parameters : j =< i}) = k
    IN  IF /\ Len(Q) = N
           /\ \A i \in 1..N : IF IsParameter(P[i]) THEN i = N => Q[i] # << >> ELSE P[i] = Q[i]
          THEN {[k \in 1..Cardinality(parameters) |-> Q[Nth(k)]]}
          ELSE {}
=============================================================================
