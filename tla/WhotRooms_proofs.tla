--------------------------- MODULE WhotRooms_proofs -------------------------
(***************************************************************************)
(* What holds of the games of a server however many requests there are and *)
(* however their threads run into each other.                              *)
(***************************************************************************)
EXTENDS WhotRooms, SequenceTheorems, FiniteSetTheorems, TLAPS

USE RoomsAssumption

(* A thread that has not inserted its game yet: nobody else knows of it.   *)
UnbornUnknown ==
    \A r \in Request : at[r] \in {"new", "code", "insert"} =>
        r \notin active /\ \A s \in Request : r \notin own[s].stale

(* A code that a creation is about to use is free, or was when the loop    *)
(* looked: who has used it since was as far then; or the loop ran out of   *)
(* tries.                                                                  *)
CodesBooked ==
    /\ CodesAreDistinct
    /\ \A r, s \in Request : Abreast(r, s) => <<r, s>> \in abreast
    /\ \A r \in Request : at[r] = "code" => own[r].attempt < MaxTries
    /\ \A r \in Request : at[r] = "insert" =>
          \A g \in active : table[g].code = own[r].code =>
             \/ <<r, g>> \in abreast /\ <<g, r>> \in abreast
             \/ own[r].attempt = MaxTries

RacesBooked == \A g \in Request : Crowded(g) => g \in raced

(* What a clean-up has on its list stays a stale lobby, unless somebody    *)
(* else gets into the game.                                                *)
ListedAreStale ==
    \A r \in Request : \A g \in own[r].stale \cap active :
        (at[r] = "remove" /\ g \notin raced) =>
            table[g].phase = "LOBBY" /\ activity[g] = "stale"

RInv ==
    /\ RoomsTypeOK
    /\ ActivityOfLiveGames
    /\ IsFiniteSet(active) /\ Cardinality(active) =< MaxGames
    /\ UnbornUnknown
    /\ CodesBooked
    /\ RacesBooked
    /\ ListedAreStale

-----------------------------------------------------------------------------

(* A seat that is given up shortens the row of seats by one.               *)
LEMMA SeatGivenUp ==
    ASSUME NEW s \in Seq(Seat), NEW i \in 1..Len(s)
    PROVE  RemoveAt(s, i) \in Seq(Seat) /\ Len(RemoveAt(s, i)) = Len(s) - 1
<1> DEFINE a == SubSeq(s, 1, i - 1)
           b == SubSeq(s, i + 1, Len(s))
<1>1. Len(s) \in Nat /\ i \in Nat /\ 1 =< i /\ i =< Len(s)
  OBVIOUS
<1>2. a \in Seq(Seat) /\ Len(a) = i - 1
  BY <1>1, SubSeqProperties
<1>3. b \in Seq(Seat) /\ Len(b) = Len(s) - i
  BY <1>1, SubSeqProperties
<1>4. RemoveAt(s, i) = a \o b
  BY DEF RemoveAt
<1> HIDE DEF a, b
<1>5. a \o b \in Seq(Seat) /\ Len(a \o b) = Len(a) + Len(b)
  BY <1>2, <1>3, ConcatProperties
<1> QED
  BY <1>1, <1>2, <1>3, <1>4, <1>5

(* addPlayer seats one more.                                               *)
LEMMA PlayerAdded ==
    ASSUME NEW t \in Table, NEW p \in Seat, NEW first \in BOOLEAN
    PROVE  /\ SitDown(t, p, first) \in Table
           /\ SitDown(t, p, first).seats = Append(t.seats, p)
           /\ Len(SitDown(t, p, first).seats) = Len(t.seats) + 1
           /\ SitDown(t, p, first).phase = t.phase /\ SitDown(t, p, first).code = t.code
           /\ SitDown(t, p, first).dealt = t.dealt
           /\ SitDown(t, p, first).creator = IF first THEN p ELSE t.creator
<1>1. t.seats \in Seq(Seat)
  BY DEF Table
<1>2. Append(t.seats, p) \in Seq(Seat) /\ Len(Append(t.seats, p)) = Len(t.seats) + 1
  BY <1>1, AppendProperties
<1> DEFINE w == Append(t.seats, p)
           c == IF first THEN p ELSE t.creator
           u == [t EXCEPT !.seats = w, !.creator = c]
<1>3. SitDown(t, p, first) = u
  BY DEF SitDown
<1>4. c \in Seat \cup {None}
  BY DEF Table
<1> HIDE DEF w, c
<1>5. /\ u \in Table /\ u.seats = w /\ u.phase = t.phase /\ u.code = t.code
      /\ u.dealt = t.dealt /\ u.creator = c
  BY <1>2, <1>4 DEF Table, w
<1> HIDE DEF u
<1>6. Len(u.seats) = Len(t.seats) + 1
  BY <1>2, <1>5 DEF w
<1> QED
  BY <1>3, <1>5, <1>6 DEF w, c

(* Whom a thread seats is somebody.                                        *)
LEMMA NewcomerSits ==
    ASSUME NEW r \in Request
    PROVE  Newcomer(r) \in Seat
BY DEF Newcomer, Seat

(* What a step of createGame's loop does to the thread that is in it.      *)
LEMMA CodeDrawn ==
    ASSUME RoomsTypeOK, NEW r \in Request, DrawCode(r)
    PROVE  /\ at[r] = "code" /\ at' = [at EXCEPT ![r] = at'[r]]
           /\ own' = [own EXCEPT ![r] = own'[r]] /\ own'[r] \in Local
           /\ own'[r].game = own[r].game /\ own'[r].creates = own[r].creates
           /\ own'[r].then = own[r].then /\ own'[r].stale = own[r].stale
           /\ own'[r].snapshot = own[r].snapshot
           /\ \/ /\ InUse(own'[r].code) /\ own'[r].attempt = own[r].attempt + 1
                 /\ at'[r] = IF own[r].attempt + 1 >= MaxTries THEN "insert" ELSE "code"
              \/ /\ ~InUse(own'[r].code) /\ own'[r].attempt = own[r].attempt
                 /\ at'[r] = "insert"
<1> USE DEF RoomsTypeOK
<1> DEFINE tries == own[r].attempt + 1
<1>1. own[r] \in Local /\ at[r] = "code"
  BY DEF DrawCode
<1>2. tries \in Nat
  BY <1>1 DEF Local
<1>3. PICK c \in Code :
        \/ /\ InUse(c)
           /\ own' = [own EXCEPT ![r] = [@ EXCEPT !.code = c, !.attempt = tries]]
           /\ at' = [at EXCEPT ![r] = IF tries >= MaxTries THEN "insert" ELSE "code"]
        \/ /\ ~InUse(c) /\ own' = [own EXCEPT ![r].code = c]
           /\ at' = [at EXCEPT ![r] = "insert"]
  BY DEF DrawCode, Goto
<1>4. CASE /\ InUse(c)
           /\ own' = [own EXCEPT ![r] = [@ EXCEPT !.code = c, !.attempt = tries]]
           /\ at' = [at EXCEPT ![r] = IF tries >= MaxTries THEN "insert" ELSE "code"]
  <2> DEFINE k == [own[r] EXCEPT !.code = c, !.attempt = tries]
  <2>1. own' = [own EXCEPT ![r] = k]
    BY <1>4
  <2>2. /\ k \in Local /\ k.code = c /\ k.attempt = tries
        /\ k.game = own[r].game /\ k.snapshot = own[r].snapshot
        /\ k.then = own[r].then /\ k.creates = own[r].creates /\ k.stale = own[r].stale
    BY <1>1, <1>2 DEF Local
  <2> HIDE DEF k
  <2>3. own'[r] = k
    BY <2>1
  <2> QED
    BY <1>1, <1>4, <2>1, <2>2, <2>3
<1>5. CASE /\ ~InUse(c) /\ own' = [own EXCEPT ![r].code = c]
           /\ at' = [at EXCEPT ![r] = "insert"]
  <2> DEFINE k == [own[r] EXCEPT !.code = c]
  <2>1. own' = [own EXCEPT ![r] = k]
    BY <1>5
  <2>2. /\ k \in Local /\ k.code = c /\ k.attempt = own[r].attempt
        /\ k.game = own[r].game /\ k.snapshot = own[r].snapshot
        /\ k.then = own[r].then /\ k.creates = own[r].creates /\ k.stale = own[r].stale
    BY <1>1 DEF Local
  <2> HIDE DEF k
  <2>3. own'[r] = k
    BY <2>1
  <2> QED
    BY <1>1, <1>5, <2>1, <2>2, <2>3
<1> QED
  BY <1>3, <1>4, <1>5

(* What a thread that counts the bots changes of its locals.               *)
LEMMA BotsCounted ==
    ASSUME RoomsTypeOK, NEW r \in Request, CountBots(r)
    PROVE  /\ at[r] = "bots" /\ at' = [at EXCEPT ![r] = at'[r]]
           /\ own' = [own EXCEPT ![r] = own'[r]] /\ own'[r] \in Local
           /\ own'[r].game = own[r].game /\ own'[r].creates = own[r].creates
           /\ own'[r].stale = own[r].stale /\ own'[r].attempt = own[r].attempt
           /\ own'[r].snapshot = own[r].snapshot /\ own'[r].code = own[r].code
           /\ \/ Answer(r, 201) /\ own'[r] = own[r]
              \/ /\ own[r].game \in active /\ Len(table[own[r].game].seats) < MaxPlayers
                 /\ at'[r] = "seat" /\ own'[r].then = "answer" /\ UNCHANGED told
<1> USE DEF RoomsTypeOK
<1> DEFINE g    == own[r].game
           free == MaxPlayers - Len(table[g].seats)
           n    == IF own[r].bots > free THEN free ELSE own[r].bots
<1>1. own[r] \in Local /\ at[r] = "bots"
  BY DEF CountBots
<1>2. CASE Answer(r, 201) /\ UNCHANGED own
  BY <1>1, <1>2 DEF Answer, Goto
<1>3. CASE /\ g \in active /\ ~(free =< 0) /\ Goto(r, "seat") /\ UNCHANGED told
           /\ own' = [own EXCEPT ![r] = [@ EXCEPT !.then = "answer", !.bots = n]]
  <2>1. table[g] \in Table
    BY <1>3
  <2>2. Len(table[g].seats) \in Nat
    BY <2>1 DEF Table
  <2>3. n \in Int /\ Len(table[g].seats) < MaxPlayers
    BY <1>1, <1>3, <2>2 DEF Local
  <2> HIDE DEF n
  <2> DEFINE k == [own[r] EXCEPT !.then = "answer", !.bots = n]
  <2>4. own' = [own EXCEPT ![r] = k]
    BY <1>3
  <2>5. /\ k \in Local /\ k.then = "answer" /\ k.code = own[r].code
        /\ k.game = own[r].game /\ k.snapshot = own[r].snapshot
        /\ k.attempt = own[r].attempt /\ k.creates = own[r].creates /\ k.stale = own[r].stale
    BY <1>1, <2>3 DEF Local
  <2> HIDE DEF k
  <2>6. own'[r] = k
    BY <1>1, <2>4
  <2>7. at' = [at EXCEPT ![r] = "seat"]
    BY <1>3 DEF Goto
  <2> QED
    BY <1>1, <1>3, <2>3, <2>4, <2>5, <2>6, <2>7
<1>4. \/ Answer(r, 201) /\ UNCHANGED own
      \/ /\ g \in active /\ ~(free =< 0) /\ Goto(r, "seat") /\ UNCHANGED told
         /\ own' = [own EXCEPT ![r] = [@ EXCEPT !.then = "answer", !.bots = n]]
  BY DEF CountBots
<1> QED
  BY <1>2, <1>3, <1>4

(* What addPlayer changes of its thread's locals, before and after the     *)
(* seat is taken.                                                          *)
LEMMA PlayerPushed ==
    ASSUME RoomsTypeOK, NEW r \in Request, AddPlayer(r) \/ PushPlayer(r)
    PROVE  /\ own' = [own EXCEPT ![r] = own'[r]] /\ own'[r] \in Local
           /\ at' = [at EXCEPT ![r] = at'[r]]
           /\ own'[r].game = own[r].game /\ own'[r].creates = own[r].creates
           /\ own'[r].stale = own[r].stale /\ own'[r].attempt = own[r].attempt
           /\ own'[r].snapshot = own[r].snapshot /\ own'[r].code = own[r].code
           /\ own'[r].then = own[r].then
           /\ \/ /\ AddPlayer(r) /\ at'[r] = "push"
                 /\ Len(table[own[r].game].seats) < MaxPlayers
                 /\ own'[r].first = (table[own[r].game].seats = << >>)
              \/ /\ PushPlayer(r) \/ ~(Len(table[own[r].game].seats) < MaxPlayers)
                 /\ at'[r] = AfterSeat(r)
<1> USE DEF RoomsTypeOK
<1> DEFINE seats == table[own[r].game].seats
           empty == seats = << >>
<1>1. own[r] \in Local
  OBVIOUS
<1>2. BotsLeft(r) \in Int /\ AfterSeat(r) \in Step
  BY <1>1 DEF BotsLeft, AfterSeat, Local, Step
<1>3. CASE PushPlayer(r)
  <2> DEFINE k == [own[r] EXCEPT !.bots = BotsLeft(r), !.first = FALSE]
  <2>1. own' = [own EXCEPT ![r] = k] /\ at' = [at EXCEPT ![r] = AfterSeat(r)]
    BY <1>3 DEF PushPlayer, Goto
  <2>2. /\ k \in Local /\ k.then = own[r].then /\ k.code = own[r].code
        /\ k.game = own[r].game /\ k.snapshot = own[r].snapshot
        /\ k.attempt = own[r].attempt /\ k.creates = own[r].creates /\ k.stale = own[r].stale
    BY <1>1, <1>2 DEF Local
  <2> HIDE DEF k
  <2>3. own'[r] = k
    BY <1>1, <2>1
  <2> QED
    BY <1>3, <2>1, <2>2, <2>3
<1>4. CASE AddPlayer(r) /\ Len(seats) < MaxPlayers
  <2>1. own' = [own EXCEPT ![r].first = empty] /\ at' = [at EXCEPT ![r] = "push"]
    BY <1>4 DEF AddPlayer, Goto
  <2>2. empty \in BOOLEAN
    OBVIOUS
  <2> DEFINE k == [own[r] EXCEPT !.first = empty]
  <2> HIDE DEF empty
  <2>3. /\ k \in Local /\ k.then = own[r].then /\ k.code = own[r].code
        /\ k.game = own[r].game /\ k.snapshot = own[r].snapshot /\ k.first = empty
        /\ k.attempt = own[r].attempt /\ k.creates = own[r].creates /\ k.stale = own[r].stale
    BY <1>1, <2>2 DEF Local
  <2> HIDE DEF k
  <2>4. own' = [own EXCEPT ![r] = k]
    BY <2>1 DEF k
  <2>5. own'[r] = k
    BY <1>1, <2>4
  <2> QED
    BY <1>4, <2>1, <2>3, <2>4, <2>5 DEF empty
<1>5. CASE AddPlayer(r) /\ ~(Len(seats) < MaxPlayers)
  <2>1. own' = [own EXCEPT ![r].bots = BotsLeft(r)] /\ at' = [at EXCEPT ![r] = AfterSeat(r)]
    BY <1>5 DEF AddPlayer, Goto
  <2> DEFINE k == [own[r] EXCEPT !.bots = BotsLeft(r)]
  <2>3. /\ k \in Local /\ k.then = own[r].then /\ k.code = own[r].code
        /\ k.game = own[r].game /\ k.snapshot = own[r].snapshot
        /\ k.attempt = own[r].attempt /\ k.creates = own[r].creates /\ k.stale = own[r].stale
    BY <1>1, <1>2 DEF Local
  <2> HIDE DEF k
  <2>4. own' = [own EXCEPT ![r] = k]
    BY <2>1 DEF k
  <2>5. own'[r] = k
    BY <1>1, <2>4
  <2> QED
    BY <1>5, <2>1, <2>3, <2>4, <2>5
<1> QED
  BY <1>3, <1>4, <1>5

(* A deal keeps the seats.                                                 *)
LEMMA TableDealt ==
    ASSUME NEW t \in Table
    PROVE  Deal(t) \in Table /\ Deal(t).seats = t.seats /\ Deal(t).code = t.code
<1>1. t.seats \in Seq(Seat)
  BY DEF Table
<1>2. Range(t.seats) \subseteq Seat
  BY <1>1, RangeOfSeq
<1> QED
  BY <1>2 DEF Deal, Table, Phase

(* A seat given up.                                                        *)
LEMMA TableLeft ==
    ASSUME NEW t \in Table, NEW i \in 1..Len(t.seats)
    PROVE  /\ GiveUpSeat(t, i) \in Table
           /\ Len(GiveUpSeat(t, i).seats) = Len(t.seats) - 1
           /\ GiveUpSeat(t, i).phase = t.phase /\ GiveUpSeat(t, i).code = t.code
<1>1. t.seats \in Seq(Seat) /\ Len(t.seats) \in Nat
  BY DEF Table
<1>2. RemoveAt(t.seats, i) \in Seq(Seat) /\ Len(RemoveAt(t.seats, i)) = Len(t.seats) - 1
  BY <1>1, SeatGivenUp
<1> QED
  BY <1>1, <1>2 DEF GiveUpSeat, Table

-----------------------------------------------------------------------------

(* A server without games.                                                 *)
LEMMA RoomsInit == Init => RInv
<1> SUFFICES ASSUME Init PROVE RInv
  OBVIOUS
<1> USE DEF Init
<1>1. RoomsTypeOK
  <2>1. << >> \in Seq(Seat)
    OBVIOUS
  <2>2. NewGame \in Table /\ NoRow \in Snapshot /\ NoLocal \in Local
    BY <2>1 DEF NewGame, NoRow, NoLocal, Table, Snapshot, Local, Phase
  <2>3. DOMAIN activity = {} /\ Range(activity) = {}
    BY DEF Range
  <2> QED
    BY <2>2, <2>3 DEF RoomsTypeOK, Step
<1>2. ActivityOfLiveGames
  BY DEF ActivityOfLiveGames
<1>3. IsFiniteSet(active) /\ Cardinality(active) =< MaxGames
  BY FS_EmptySet
<1>5. UnbornUnknown
  BY DEF UnbornUnknown, NoLocal
<1>6. CodesBooked
  BY DEF CodesBooked, CodesAreDistinct, Abreast
<1>7. RacesBooked
  BY DEF RacesBooked, Crowded, Holds
<1>8. ListedAreStale
  BY DEF ListedAreStale
<1> QED
  BY <1>1, <1>2, <1>3, <1>5, <1>6, <1>7, <1>8 DEF RInv

-----------------------------------------------------------------------------

(* Every step of every thread keeps the types.                             *)
LEMMA RoomsTypeStep == RInv /\ Next => RoomsTypeOK'
<1> SUFFICES ASSUME RInv, Next PROVE RoomsTypeOK'
  OBVIOUS
<1> USE DEF RInv, RoomsTypeOK, Goto, Answer, maps, ws
<1>1. raced' \subseteq Request /\ abreast' \subseteq Request \X Request
  BY DEF Next
<1>2. \A g \in DOMAIN activity : activity[g] \in {"fresh", "stale"}
  BY DEF Range
<1>3. /\ NewGame \in Table /\ NoRow \in Snapshot /\ NoLocal \in Local
      /\ \A c \in Code : [NewGame EXCEPT !.code = c] \in Table
  <2>1. << >> \in Seq(Seat)
    OBVIOUS
  <2>2. NewGame \in Table /\ \A c \in Code : [NewGame EXCEPT !.code = c] \in Table
    BY <2>1 DEF NewGame, Table, Phase
  <2>3. NoRow \in Snapshot
    BY <2>1 DEF NoRow, Snapshot
  <2>4. NoLocal \in Local
    BY <2>3 DEF NoLocal, Local
  <2> QED
    BY <2>2, <2>3, <2>4
<1>4. ASSUME NEW r \in Request, AskToCreate(r) PROVE RoomsTypeOK'
  <2>1. PICK n \in BotCounts :
          own' = [own EXCEPT ![r] = [NoLocal EXCEPT !.game = r, !.creates = TRUE,
                     !.bots = IF n >= MaxPlayers THEN MaxPlayers - 1 ELSE n]]
    BY <1>4 DEF AskToCreate
  <2> DEFINE bots == IF n >= MaxPlayers THEN MaxPlayers - 1 ELSE n
  <2>2. bots \in Int
    OBVIOUS
  <2> HIDE DEF bots
  <2>3. [NoLocal EXCEPT !.game = r, !.creates = TRUE, !.bots = bots] \in Local
    BY <1>3, <2>2 DEF Local
  <2>4. own' \in [Request -> Local]
    BY <2>1, <2>3 DEF bots
  <2>5. at' \in [Request -> Step]
    BY <1>4 DEF AskToCreate, Step
  <2> QED
    BY <1>1, <1>4, <2>4, <2>5 DEF AskToCreate
<1>21. ASSUME NEW r \in Request, DrawCode(r) PROVE RoomsTypeOK'
  <2>1. own' \in [Request -> Local] /\ at' \in [Request -> Step]
    BY <1>21, CodeDrawn DEF Step
  <2> QED
    BY <1>1, <1>21, <2>1 DEF DrawCode
<1>5. ASSUME NEW r \in Request, Insert(r) PROVE RoomsTypeOK'
  <2>1. at' \in [Request -> Step] /\ told' \in [Request -> {None, 200, 201, 400, 404, 500, 503}]
    BY <1>5 DEF Insert, Step
  <2>2. active' \subseteq Request
    BY <1>5 DEF Insert
  <2>3. DOMAIN activity' \subseteq Request /\ Range(activity') \subseteq {"fresh", "stale"}
    BY <1>2, <1>5 DEF Insert, Range
  <2>4. table' \in [Request -> Table]
    <3>1. CASE UNCHANGED table
      BY <3>1
    <3>2. CASE table' = [table EXCEPT ![r] = [NewGame EXCEPT !.code = own[r].code]]
      <4>1. own[r].code \in Code \cup {None}
        BY DEF Local
      <4>2. [NewGame EXCEPT !.code = own[r].code] \in Table
        BY <1>3, <4>1 DEF Table
      <4> QED
        BY <3>2, <4>2
    <3> QED
      BY <1>5, <3>1, <3>2 DEF Insert
  <2> QED
    BY <1>1, <1>5, <2>1, <2>2, <2>3, <2>4 DEF Insert
<1>6. ASSUME NEW r \in Request, Load(r) \/ CheckJoin(r) \/ Lost(r) \/ RemovedAll(r)
      PROVE RoomsTypeOK'
  <2>1. at' \in [Request -> Step]
    BY <1>6 DEF Load, CheckJoin, Lost, RemovedAll, Step
  <2>2. told' \in [Request -> {None, 200, 201, 400, 404, 500, 503}]
    BY <1>6 DEF Load, CheckJoin, Lost, RemovedAll
  <2>3. own' \in [Request -> Local]
    <3>1. /\ [own[r] EXCEPT !.then = "join"] \in Local
          /\ [own[r] EXCEPT !.then = "touch"] \in Local
      BY DEF Local
    <3>2. \/ UNCHANGED own
          \/ own' = [own EXCEPT ![r].then = "join"]
          \/ own' = [own EXCEPT ![r].then = "touch"]
      BY <1>6 DEF Load, CheckJoin, Lost, RemovedAll
    <3> QED
      BY <3>1, <3>2
  <2> QED
    BY <1>1, <1>6, <2>1, <2>2, <2>3 DEF Load, CheckJoin, Lost, RemovedAll
<1>7. ASSUME NEW r \in Request, Save(r) PROVE RoomsTypeOK'
  <2>1. own[r].game \in Request
    BY <1>7 DEF Save
  <2>2. [phase |-> table[own[r].game].phase, seats |-> table[own[r].game].seats] \in Snapshot
    BY <2>1 DEF Table, Snapshot
  <2>3. own' \in [Request -> Local]
    BY <1>7, <2>2 DEF Save, Local
  <2>4. at' \in [Request -> Step]
    BY <1>7 DEF Save, Step
  <2> QED
    BY <1>1, <1>7, <2>3, <2>4 DEF Save
<1>8. ASSUME NEW r \in Request, Write(r) PROVE RoomsTypeOK'
  <2>1. own[r].snapshot \in Snapshot /\ own[r].then \in {"join", "touch", "answer"}
    BY DEF Local
  <2>2. row' \in [Request -> Snapshot] /\ own' \in [Request -> Local]
    <3>1. [own[r] EXCEPT !.snapshot = NoRow] \in Local
      BY <1>3 DEF Local
    <3>2. own' = [own EXCEPT ![r].snapshot = NoRow]
      BY <1>8 DEF Write
    <3>3. row' \in [Request -> Snapshot]
      BY <1>8, <2>1 DEF Write
    <3> QED
      BY <3>1, <3>2, <3>3
  <2>3. at' \in [Request -> Step] /\ told' \in [Request -> {None, 200, 201, 400, 404, 500, 503}]
    BY <1>8, <2>1 DEF Write, Step
  <2> QED
    BY <1>1, <1>8, <2>2, <2>3 DEF Write
<1>9. ASSUME NEW r \in Request, NEW g \in active, Ask(r, g) PROVE RoomsTypeOK'
  <2>1. own' \in [Request -> Local]
    BY <1>3, <1>9 DEF Ask, Local
  <2>2. at' \in [Request -> Step]
    BY <1>9 DEF Ask, Step
  <2> QED
    BY <1>1, <1>9, <2>1, <2>2 DEF Ask
<1>10. ASSUME NEW r \in Request, NEW c \in Code, AskByCode(r, c) PROVE RoomsTypeOK'
  <2>0. \A g \in active : [NoLocal EXCEPT !.game = g] \in Local
    BY <1>3 DEF Local
  <2>1. own' \in [Request -> Local]
    BY <1>10, <2>0 DEF AskByCode
  <2>2. at' \in [Request -> Step] /\ told' \in [Request -> {None, 200, 201, 400, 404, 500, 503}]
    BY <1>10 DEF AskByCode, Step
  <2> QED
    BY <1>1, <1>10, <2>1, <2>2 DEF AskByCode
<1>11. ASSUME NEW r \in Request, AddPlayer(r) PROVE RoomsTypeOK'
  <2>1. own' \in [Request -> Local] /\ at' \in [Request -> Step]
    BY <1>11, PlayerPushed DEF AfterSeat, Step
  <2> QED
    BY <1>1, <1>11, <2>1 DEF AddPlayer
<1>22. ASSUME NEW r \in Request, PushPlayer(r) PROVE RoomsTypeOK'
  <2>1. own[r].game \in Request /\ own[r].first \in BOOLEAN
    BY <1>22 DEF PushPlayer, Local
  <2>2. SitDown(table[own[r].game], Newcomer(r), own[r].first) \in Table
    BY <2>1, PlayerAdded, NewcomerSits
  <2>3. table' \in [Request -> Table]
    BY <1>22, <2>2 DEF PushPlayer
  <2>4. own' \in [Request -> Local] /\ at' \in [Request -> Step]
    BY <1>22, PlayerPushed DEF AfterSeat, Step
  <2> QED
    BY <1>1, <1>22, <2>3, <2>4 DEF PushPlayer
<1>12. ASSUME NEW r \in Request, Touch(r) PROVE RoomsTypeOK'
  <2>1. DOMAIN activity' \subseteq Request /\ Range(activity') \subseteq {"fresh", "stale"}
    BY <1>2, <1>12 DEF Touch, Range
  <2>2. at' \in [Request -> Step] /\ told' \in [Request -> {None, 200, 201, 400, 404, 500, 503}]
    BY <1>12 DEF Touch, Step
  <2> QED
    BY <1>1, <1>12, <2>1, <2>2 DEF Touch
<1>13. ASSUME NEW r \in Request, CountBots(r) PROVE RoomsTypeOK'
  <2>1. own' \in [Request -> Local] /\ at' \in [Request -> Step]
    BY <1>13, BotsCounted DEF Answer, Step
  <2>2. told' \in [Request -> {None, 200, 201, 400, 404, 500, 503}]
    BY <1>13, BotsCounted DEF Answer
  <2> QED
    BY <1>1, <1>13, <2>1, <2>2 DEF CountBots
<1>14. ASSUME NEW r \in Request, Collect(r) PROVE RoomsTypeOK'
  <2>1. own' \in [Request -> Local]
    BY <1>14 DEF Collect, Local
  <2>2. at' \in [Request -> Step]
    BY <1>14 DEF Collect, Step
  <2> QED
    BY <1>1, <1>14, <2>1, <2>2 DEF Collect
<1>15. ASSUME NEW r \in Request, NEW g \in own[r].stale, RemoveGame(r, g) PROVE RoomsTypeOK'
  <2>1. DOMAIN activity' \subseteq Request /\ Range(activity') \subseteq {"fresh", "stale"}
    BY <1>2, <1>15 DEF RemoveGame, Range
  <2>2. own' \in [Request -> Local]
    BY <1>15 DEF RemoveGame, Local
  <2>3. row' \in [Request -> Snapshot]
    BY <1>3, <1>15 DEF RemoveGame
  <2> QED
    BY <1>1, <1>15, <2>1, <2>2, <2>3 DEF RemoveGame
<1>16. ASSUME NEW g \in active, StartGame(g) PROVE RoomsTypeOK'
  <2>1. Deal(table[g]) \in Table
    BY TableDealt
  <2> QED
    BY <1>1, <1>16, <2>1 DEF StartGame
<1>17. CASE SaveStarted
  <2>1. CASE serving.game \in active
    <3>1. [phase |-> table[serving.game].phase, seats |-> table[serving.game].seats] \in Snapshot
      BY <2>1 DEF Table, Snapshot
    <3> QED
      BY <1>1, <1>17, <2>1, <3>1 DEF SaveStarted
  <2>2. CASE serving.game \notin active
    BY <1>1, <1>3, <1>17, <2>2 DEF SaveStarted, NotServing
  <2> QED
    BY <2>1, <2>2
<1>18. CASE WriteStarted
  BY <1>1, <1>3, <1>18 DEF WriteStarted, NotServing
<1>23. CASE TouchServed
  <2>1. DOMAIN activity' \subseteq Request /\ Range(activity') \subseteq {"fresh", "stale"}
    BY <1>2, <1>23 DEF TouchServed, Range
  <2> QED
    BY <1>1, <1>3, <1>23, <2>1 DEF TouchServed, NotServing
<1>24. ASSUME NEW p \in Request, NEW g \in active, Refresh(p, g) PROVE RoomsTypeOK'
  BY <1>1, <1>24 DEF Refresh
<1>19. ASSUME NEW p \in Request, NEW g \in active, LeaveGame(p, g) PROVE RoomsTypeOK'
  <2>1. PICK i \in 1..Len(table[g].seats) :
          table' = [table EXCEPT ![g] = GiveUpSeat(@, i)]
    BY <1>19 DEF LeaveGame
  <2>2. table[g] \in Table
    OBVIOUS
  <2>3. GiveUpSeat(table[g], i) \in Table
    BY <2>2, TableLeft
  <2>4. table' \in [Request -> Table]
    BY <2>1, <2>3
  <2>5. serving' = [serving EXCEPT !.step = "touch", !.game = g] /\ left' = left \cup {p}
    BY <1>19 DEF LeaveGame
  <2>6. serving' \in [step : {"idle", "save", "write", "touch"}, game : Request \cup {None},
                      snapshot : Snapshot]
    BY <2>5
  <2>7. left' \subseteq Request
    BY <2>5
  <2>8. UNCHANGED <<active, activity, row, at, own, told>>
    BY <1>19 DEF LeaveGame
  <2> QED
    BY <1>1, <2>4, <2>6, <2>7, <2>8
<1>20. ASSUME NEW g \in active, Idle(g) PROVE RoomsTypeOK'
  <2>1. DOMAIN activity' \subseteq Request /\ Range(activity') \subseteq {"fresh", "stale"}
    BY <1>2, <1>20 DEF Idle, Range
  <2> QED
    BY <1>1, <1>20, <2>1 DEF Idle
<1> QED
  BY <1>4, <1>5, <1>6, <1>7, <1>8, <1>9, <1>10, <1>11, <1>12, <1>13, <1>14, <1>15,
     <1>16, <1>17, <1>18, <1>19, <1>20, <1>21, <1>22, <1>23, <1>24 DEF Next, HttpStep, WebSocketStep

-----------------------------------------------------------------------------

(* What a step may do to a table: make it, or leave its code alone and     *)
(* begin the round only with the WebSocket thread in the game.             *)
TableMade(g) ==
    /\ at[g] = "insert" /\ at'[g] = "load"
    /\ active' = active \cup {g}
    /\ table'[g] = [NewGame EXCEPT !.code = own[g].code]

TableKept(g) ==
    /\ table'[g].code = table[g].code
    /\ \/ table'[g].phase = table[g].phase
       \/ serving'.step # "idle" /\ serving'.game = g

(* A step makes a game, or keeps its code and its phase, unless it starts it.*)
LEMMA TableStep ==
    ASSUME RInv, Next, NEW h \in Request
    PROVE  TableMade(h) \/ TableKept(h)
<1> USE DEF RInv, RoomsTypeOK
<1>1. table[h] \in Table
  OBVIOUS
<1>2. CASE UNCHANGED table
  BY <1>1, <1>2 DEF TableKept
<1>3. ASSUME NEW r \in Request, Insert(r) PROVE TableMade(h) \/ TableKept(h)
  <2>1. CASE h = r
    BY <1>2, <1>3, <2>1 DEF Insert, TableMade, Goto
  <2>2. CASE h # r
    BY <1>1, <1>3, <2>2 DEF Insert, TableKept
  <2> QED
    BY <2>1, <2>2
<1>4. ASSUME NEW r \in Request, PushPlayer(r) PROVE TableKept(h)
  <2> DEFINE u == SitDown(table[h], Newcomer(r), own[r].first)
  <2>1. table' = [table EXCEPT ![own[r].game] = SitDown(@, Newcomer(r), own[r].first)]
    BY <1>4 DEF PushPlayer
  <2>2. u.phase = table[h].phase /\ u.code = table[h].code
    BY <1>1, PlayerAdded, NewcomerSits DEF Local
  <2>3. table'[h] = table[h] \/ table'[h] = u
    BY <2>1
  <2> HIDE DEF u
  <2> QED
    BY <1>1, <2>2, <2>3 DEF TableKept
<1>6. ASSUME NEW g \in active, StartGame(g) PROVE TableKept(h)
  <2>1. table' = [table EXCEPT ![g] = Deal(@)] /\ serving'.step = "save" /\ serving'.game = g
    BY <1>6 DEF StartGame
  <2>2. Deal(table[h]).seats = table[h].seats /\ Deal(table[h]).code = table[h].code
    BY <1>1, TableDealt
  <2>3. CASE h = g
    <3>1. table'[h] = Deal(table[h])
      BY <2>1, <2>3
    <3> QED
      BY <1>1, <2>1, <2>2, <2>3, <3>1 DEF TableKept
  <2>4. CASE h # g
    BY <1>1, <2>1, <2>4 DEF TableKept
  <2> QED
    BY <2>3, <2>4
<1>7. ASSUME NEW p \in Request, NEW g \in active, LeaveGame(p, g) PROVE TableKept(h)
  <2>1. PICK i \in 1..Len(table[g].seats) :
          table' = [table EXCEPT ![g] = GiveUpSeat(@, i)]
    BY <1>7 DEF LeaveGame
  <2>2. CASE h = g
    <3>2. /\ GiveUpSeat(table[h], i).phase = table[h].phase
          /\ GiveUpSeat(table[h], i).code = table[h].code
      BY <1>1, <2>2, TableLeft
    <3>3. table'[h] = GiveUpSeat(table[h], i)
      BY <2>1, <2>2
    <3> QED
      BY <1>1, <3>2, <3>3 DEF TableKept
  <2>3. CASE h # g
    BY <1>1, <2>1, <2>3 DEF TableKept
  <2> QED
    BY <2>2, <2>3
<1>8. ASSUME NEW r \in Request,
             \/ AskToCreate(r) \/ DrawCode(r) \/ Load(r) \/ Save(r) \/ Write(r) \/ Lost(r)
             \/ \E g \in active : Ask(r, g)
             \/ \E c \in Code : AskByCode(r, c)
             \/ CheckJoin(r) \/ AddPlayer(r) \/ Touch(r) \/ CountBots(r)
             \/ Collect(r) \/ RemovedAll(r)
             \/ \E g \in own[r].stale : RemoveGame(r, g)
      PROVE UNCHANGED table
  BY <1>8 DEF AskToCreate, DrawCode, Load, Save, Write, Lost, Ask, AskByCode, CheckJoin,
              AddPlayer, Touch, CountBots, Collect, RemovedAll, RemoveGame
<1>9. ASSUME \/ SaveStarted \/ WriteStarted \/ TouchServed
             \/ \E p \in Request, g \in active : Refresh(p, g)
             \/ \E g \in active : Idle(g)
      PROVE UNCHANGED table
  BY <1>9 DEF SaveStarted, WriteStarted, TouchServed, Refresh, Idle
<1> QED
  BY <1>2, <1>3, <1>4, <1>6, <1>7, <1>8, <1>9 DEF Next, HttpStep, WebSocketStep

-----------------------------------------------------------------------------

(* What a step may do to the two maps, and who does it.                    *)
LEMMA MapsStep ==
    ASSUME RInv, Next
    PROVE  /\ ActivityOfLiveGames'
           /\ IsFiniteSet(active') /\ Cardinality(active') =< MaxGames
           /\ \A g \in active' \ active : TableMade(g)
           /\ \A g \in active \ active' :
                 \E r \in Request : at[r] = "remove" /\ g \in own[r].stale
           /\ \A g \in active \cap active' :
                 \/ activity'[g] \in {activity[g], "stale"}
                 \/ at[g] = "insert"
                 \/ \E r \in Request : at[r] = "touch" /\ own[r].game = g
                 \/ serving.step = "touch" /\ serving.game = g
<1> USE DEF RInv, RoomsTypeOK, ActivityOfLiveGames
<1>1. Cardinality(active) \in Nat
  BY FS_CardinalityType
<1>2. ASSUME NEW r \in Request, Insert(r), active' # active
      PROVE  /\ at[r] = "insert" /\ TableMade(r) /\ Cardinality(active) < MaxGames
             /\ activity' = [g \in DOMAIN activity \cup {r} |->
                                IF g = r THEN "fresh" ELSE activity[g]]
  <2>1. ~(Cardinality(active) >= MaxGames)
    BY <1>2 DEF Insert, maps
  <2>2. /\ at[r] = "insert" /\ active' = active \cup {r}
        /\ activity' = [g \in DOMAIN activity \cup {r} |->
                            IF g = r THEN "fresh" ELSE activity[g]]
        /\ table' = [table EXCEPT ![r] = [NewGame EXCEPT !.code = own[r].code]]
        /\ at' = [at EXCEPT ![r] = "load"]
    BY <1>2, <2>1 DEF Insert, Goto
  <2>3. Cardinality(active) < MaxGames
    BY <1>1, <2>1
  <2> QED
    BY <2>2, <2>3 DEF TableMade
<1>3. ASSUME NEW r \in Request, Insert(r), active' # active
      PROVE  IsFiniteSet(active') /\ Cardinality(active') =< MaxGames
  <2>1. active' = active \cup {r} /\ Cardinality(active) < MaxGames
    BY <1>2, <1>3 DEF TableMade
  <2>2. /\ IsFiniteSet(active \cup {r})
        /\ \/ Cardinality(active \cup {r}) = Cardinality(active)
           \/ Cardinality(active \cup {r}) = Cardinality(active) + 1
    <3>1. IsFiniteSet(active)
      OBVIOUS
    <3> QED
      BY <3>1, FS_AddElement
  <2>3. Cardinality(active \cup {r}) \in Nat
    BY <2>2, FS_CardinalityType
  <2> QED
    BY <1>1, <2>1, <2>2, <2>3
<1>4. CASE \E r \in Request : Insert(r) /\ active' # active
  <2>1. PICK r \in Request : Insert(r) /\ active' # active
    BY <1>4
  <2>2. active' = active \cup {r} /\ at[r] = "insert" /\ TableMade(r)
    BY <1>2, <2>1 DEF TableMade
  <2>3. /\ DOMAIN activity' = DOMAIN activity \cup {r}
        /\ \A g \in DOMAIN activity \ {r} : activity'[g] = activity[g]
    <3>1. activity' = [g \in DOMAIN activity \cup {r} |->
                          IF g = r THEN "fresh" ELSE activity[g]]
      BY <1>2, <2>1
    <3> QED
      BY <3>1
  <2>4. IsFiniteSet(active') /\ Cardinality(active') =< MaxGames
    BY <1>3, <2>1
  <2> QED
    BY <2>2, <2>3, <2>4
<1>5. ASSUME NEW r \in Request, NEW g \in own[r].stale, RemoveGame(r, g)
      PROVE  /\ active' = active \ {g} /\ at[r] = "remove"
             /\ activity' = [h \in DOMAIN activity \ {g} |-> activity[h]]
             /\ IsFiniteSet(active') /\ Cardinality(active') =< MaxGames
  <2>1. /\ active' = active \ {g} /\ at[r] = "remove"
        /\ activity' = [h \in DOMAIN activity \ {g} |-> activity[h]]
    BY <1>5 DEF RemoveGame
  <2>2. IsFiniteSet(active') /\ Cardinality(active') =< Cardinality(active)
        /\ Cardinality(active') \in Nat
    BY <2>1, FS_Subset, FS_CardinalityType
  <2>3. Cardinality(active') =< MaxGames
    BY <1>1, <2>2
  <2> QED
    BY <2>1, <2>2, <2>3
<1>6. CASE \E r \in Request : \E g \in own[r].stale : RemoveGame(r, g)
  <2>0. PICK r \in Request : \E g \in own[r].stale : RemoveGame(r, g)
    BY <1>6
  <2>1. PICK g \in own[r].stale : RemoveGame(r, g)
    BY <2>0
  <2>2. active' = active \ {g} /\ at[r] = "remove"
    BY <1>5, <2>1
  <2>3. /\ DOMAIN activity' = DOMAIN activity \ {g}
        /\ \A h \in DOMAIN activity \ {g} : activity'[h] = activity[h]
    <3>1. activity' = [h \in DOMAIN activity \ {g} |-> activity[h]]
      BY <1>5, <2>1
    <3> QED
      BY <3>1
  <2>4. IsFiniteSet(active') /\ Cardinality(active') =< MaxGames
    BY <1>5, <2>1
  <2> QED
    BY <2>2, <2>3, <2>4
<1>7. ASSUME NEW r \in Request, Touch(r)
      PROVE  /\ UNCHANGED active /\ at[r] = "touch"
             /\ activity' = IF own[r].game \in active
                              THEN [activity EXCEPT ![own[r].game] = "fresh"] ELSE activity
  BY <1>7 DEF Touch
<1>8. CASE \E r \in Request : Touch(r)
  BY <1>7, <1>8
<1>9. CASE \E g \in active : Idle(g)
  BY <1>9 DEF Idle
<1>10. CASE UNCHANGED <<active, activity>>
  BY <1>10
<1>11. ASSUME NEW r \in Request, Insert(r), active' = active
       PROVE  UNCHANGED activity
  BY <1>11 DEF Insert, Answer, maps, UnbornUnknown
<1>12. ASSUME NEW r \in Request,
             \/ AskToCreate(r) \/ DrawCode(r) \/ Load(r) \/ Save(r) \/ Write(r) \/ Lost(r)
             \/ \E g \in active : Ask(r, g)
             \/ \E c \in Code : AskByCode(r, c)
             \/ CheckJoin(r) \/ AddPlayer(r) \/ PushPlayer(r) \/ CountBots(r)
             \/ Collect(r) \/ RemovedAll(r)
      PROVE UNCHANGED <<active, activity>>
  BY <1>12 DEF AskToCreate, DrawCode, Load, Save, Write, Lost, Ask, AskByCode, CheckJoin, AddPlayer, PushPlayer, CountBots,
               Collect, RemovedAll, maps
<1>13. ASSUME WebSocketStep, ~TouchServed PROVE UNCHANGED <<active, activity>>
  BY <1>13 DEF WebSocketStep, StartGame, SaveStarted, WriteStarted, LeaveGame, Refresh, maps
<1>14. CASE TouchServed
  BY <1>14 DEF TouchServed
<1> QED
  BY <1>4, <1>6, <1>8, <1>9, <1>10, <1>11, <1>12, <1>13, <1>14 DEF Next, HttpStep

(* How a thread comes to its insertion, and what gets on its list.         *)
LEMMA ThreadStep ==
    ASSUME RInv, Next, NEW r \in Request
    PROVE  /\ at'[r] = "new" => at[r] = "new"
           /\ at'[r] = "code" => /\ at[r] \in {"new", "code"}
                                /\ own'[r].attempt < MaxTries
           /\ at'[r] = "insert" =>
                 \/ /\ at[r] = "insert"
                    /\ own'[r].code = own[r].code /\ own'[r].attempt = own[r].attempt
                 \/ DrawCode(r)
           /\ at[r] \notin {"new", "code"} => own'[r].attempt = own[r].attempt
           /\ own'[r].stale \subseteq own[r].stale \cup active
           /\ at'[r] = "remove" => at[r] = "remove" \/ Collect(r)
           /\ at'[r] = "remove" /\ at[r] = "remove" => own'[r].stale \subseteq own[r].stale
<1> USE DEF RInv, RoomsTypeOK, Goto, Answer, maps, ws
<1>a. /\ at[r] = "code" => own[r].attempt < MaxTries
      /\ own[r].attempt \in Nat
  BY DEF CodesBooked, Local
<1>1. CASE at'[r] = at[r] /\ own'[r] = own[r]
  BY <1>1, <1>a
<1>2. ASSUME NEW s \in Request, AskToCreate(s), r = s
      PROVE  at'[r] = "code" /\ own'[r].stale = {} /\ own'[r].attempt = 0 /\ at[r] = "new"
  BY <1>2 DEF AskToCreate, NoLocal
<1>3. ASSUME NEW s \in Request, DrawCode(s), r = s
      PROVE  /\ at'[r] = "insert" \/ (at'[r] = "code" /\ own'[r].attempt < MaxTries)
             /\ own'[r].stale = own[r].stale /\ at[r] = "code"
  BY <1>3, <1>a, CodeDrawn
<1>4. ASSUME NEW s \in Request, AskToCreate(s) \/ DrawCode(s), r # s
      PROVE  at'[r] = at[r] /\ own'[r] = own[r]
  <2>1. CASE AskToCreate(s)
    <3>1. PICK n \in BotCounts :
            own' = [own EXCEPT ![s] = [NoLocal EXCEPT !.game = s, !.creates = TRUE,
                       !.bots = IF n >= MaxPlayers THEN MaxPlayers - 1 ELSE n]]
      BY <2>1 DEF AskToCreate
    <3> DEFINE k == [NoLocal EXCEPT !.game = s, !.creates = TRUE,
                       !.bots = IF n >= MaxPlayers THEN MaxPlayers - 1 ELSE n]
    <3>2. own' = [own EXCEPT ![s] = k]
      BY <3>1
    <3> HIDE DEF k
    <3>3. at' = [at EXCEPT ![s] = "code"]
      BY <2>1 DEF AskToCreate
    <3> QED
      BY <1>4, <3>2, <3>3
  <2>2. CASE DrawCode(s)
    <3>1. at' = [at EXCEPT ![s] = at'[s]] /\ own' = [own EXCEPT ![s] = own'[s]]
      BY <2>2, CodeDrawn
    <3> QED
      BY <1>4, <3>1
  <2> QED
    BY <1>4, <2>1, <2>2
<1>5. CASE \E s \in Request : AskToCreate(s) \/ DrawCode(s)
  <2>1. PICK s \in Request : AskToCreate(s) \/ DrawCode(s)
    BY <1>5
  <2>2. CASE r = s
    BY <1>2, <1>3, <2>1, <2>2
  <2>3. CASE r # s
    BY <1>1, <1>4, <2>1, <2>3
  <2> QED
    BY <2>2, <2>3
<1>6. ASSUME NEW s \in Request, Collect(s)
      PROVE  own'[r].stale \subseteq own[r].stale \cup active
  BY <1>6 DEF Collect
<1>7. CASE \E s \in Request : Collect(s)
  <2>1. PICK s \in Request : Collect(s)
    BY <1>7
  <2>2. CASE r = s
    BY <1>6, <2>1, <2>2 DEF Collect
  <2>3. CASE r # s
    BY <1>1, <2>1, <2>3 DEF Collect
  <2> QED
    BY <2>2, <2>3
<1>8. ASSUME NEW s \in Request, (\E g \in active : Ask(s, g)) \/ \E c \in Code : AskByCode(s, c)
      PROVE  /\ at[s] = "new" /\ at'[s] \notin {"new", "code", "insert", "remove"}
             /\ own'[s].stale \subseteq own[s].stale
             /\ r # s => at'[r] = at[r] /\ own'[r] = own[r]
  BY <1>8 DEF Ask, AskByCode, NoLocal
<1>9. ASSUME NEW s \in Request,
             Insert(s) \/ Load(s) \/ CheckJoin(s) \/ Lost(s) \/ RemovedAll(s)
      PROVE  /\ at'[s] \notin {"new", "code", "insert", "remove"}
             /\ own'[s].stale = own[s].stale /\ own'[s].attempt = own[s].attempt
             /\ r # s => at'[r] = at[r] /\ own'[r] = own[r]
  BY <1>9 DEF Insert, Load, CheckJoin, Lost, RemovedAll, Local
<1>10. ASSUME NEW s \in Request, Save(s) \/ Write(s) \/ Touch(s)
       PROVE  /\ at'[s] \notin {"new", "code", "insert", "remove"}
              /\ own'[s].stale = own[s].stale /\ own'[s].attempt = own[s].attempt
              /\ r # s => at'[r] = at[r] /\ own'[r] = own[r]
  BY <1>10 DEF Save, Write, Touch, Local
<1>13. ASSUME NEW s \in Request, AddPlayer(s) \/ PushPlayer(s) \/ CountBots(s)
       PROVE  /\ at'[s] \notin {"new", "code", "insert", "remove"}
              /\ own'[s].stale = own[s].stale /\ own'[s].attempt = own[s].attempt
              /\ r # s => at'[r] = at[r] /\ own'[r] = own[r]
  <2>1. CASE AddPlayer(s) \/ PushPlayer(s)
    BY <2>1, PlayerPushed DEF AfterSeat
  <2>2. CASE CountBots(s)
    BY <2>2, BotsCounted
  <2> QED
    BY <1>13, <2>1, <2>2
<1>11. ASSUME NEW s \in Request, NEW g \in own[s].stale, RemoveGame(s, g)
       PROVE  /\ UNCHANGED at /\ at[s] = "remove"
              /\ own'[s].stale \subseteq own[s].stale /\ own'[s].attempt = own[s].attempt
              /\ r # s => own'[r] = own[r]
  BY <1>11 DEF RemoveGame, Local
<1>12. ASSUME WebSocketStep \/ \E g \in active : Idle(g)
       PROVE  UNCHANGED <<at, own>>
  BY <1>12 DEF WebSocketStep, StartGame, SaveStarted, WriteStarted, TouchServed, LeaveGame,
               Refresh, Idle
<1>14. ASSUME NEW s \in Request, HttpStep(s), ~AskToCreate(s), ~DrawCode(s), ~Collect(s),
              ~\E g \in own[s].stale : RemoveGame(s, g)
       PROVE  /\ at'[s] \notin {"new", "code", "insert", "remove"}
              /\ own'[s].stale \subseteq own[s].stale
              /\ at[s] = "new" \/ own'[s].attempt = own[s].attempt
              /\ r # s => at'[r] = at[r] /\ own'[r] = own[r]
  <2> HIDE DEF RInv, RoomsTypeOK, Goto, Answer
  <2>1. CASE (\E g \in active : Ask(s, g)) \/ \E c \in Code : AskByCode(s, c)
    BY <1>8, <2>1
  <2>2. CASE Insert(s) \/ Load(s) \/ CheckJoin(s) \/ Lost(s) \/ RemovedAll(s)
    BY <1>9, <2>2
  <2>3. CASE Save(s) \/ Write(s) \/ Touch(s)
    BY <1>10, <2>3
  <2>4. CASE AddPlayer(s) \/ PushPlayer(s) \/ CountBots(s)
    BY <1>13, <2>4
  <2> QED
    BY <1>14, <2>1, <2>2, <2>3, <2>4 DEF HttpStep
<1>15. CASE \E s \in Request : HttpStep(s)
  <2> HIDE DEF RInv, RoomsTypeOK, Goto, Answer
  <2>1. PICK s \in Request : HttpStep(s)
    BY <1>15
  <2>2. CASE \E g \in own[s].stale : RemoveGame(s, g)
    BY <1>1, <1>11, <2>2
  <2>3. CASE AskToCreate(s) \/ DrawCode(s) \/ Collect(s)
    BY <1>5, <1>7, <2>3
  <2>4. CASE ~(AskToCreate(s) \/ DrawCode(s) \/ Collect(s)
               \/ \E g \in own[s].stale : RemoveGame(s, g))
    BY <1>1, <1>14, <2>1, <2>4
  <2> QED
    BY <2>2, <2>3, <2>4
<1> HIDE DEF RInv, RoomsTypeOK, Goto, Answer
<1> QED
  BY <1>1, <1>12, <1>15 DEF Next

-----------------------------------------------------------------------------

(* A thread that has not inserted its game stays unknown.                  *)
LEMMA UnbornStep == RInv /\ Next => UnbornUnknown'
<1> SUFFICES ASSUME RInv, Next, NEW r \in Request, at'[r] \in {"new", "code", "insert"}
             PROVE  r \notin active' /\ \A s \in Request : r \notin own'[s].stale
  BY DEF UnbornUnknown
<1>1. at[r] \in {"new", "code", "insert"}
  BY ThreadStep DEF DrawCode
<1>2. r \notin active /\ \A s \in Request : r \notin own[s].stale
  BY <1>1 DEF RInv, UnbornUnknown
<1>3. r \notin active'
  BY <1>2, MapsStep DEF TableMade
<1>4. \A s \in Request : r \notin own'[s].stale
  BY <1>2, ThreadStep
<1> QED
  BY <1>3, <1>4

(* Codes that meet are on the books.                                       *)
LEMMA CodesStep == RInv /\ Next => CodesBooked'
<1> SUFFICES ASSUME RInv, Next PROVE CodesBooked'
  OBVIOUS
<1> USE DEF RInv
<1>1. active \subseteq Request /\ active' \subseteq Request
  BY RoomsTypeStep DEF RoomsTypeOK
<1>2. ASSUME NEW g \in active' PROVE TableMade(g) \/ (g \in active /\ table'[g].code = table[g].code)
  <2>1. CASE g \in active
    <3>1. ~TableMade(g)
      BY <1>1, <2>1 DEF TableMade, UnbornUnknown
    <3> QED
      BY <1>1, <2>1, <3>1, TableStep DEF TableKept
  <2>2. CASE g \notin active
    <3>1. \A h \in active' \ active : TableMade(h)
      BY MapsStep
    <3>2. g \in active' \ active
      BY <1>2, <2>2
    <3> QED
      BY <3>1, <3>2
  <2> QED
    BY <2>1, <2>2
<1>3. ASSUME NEW g \in Request, TableMade(g)
      PROVE  at[g] = "insert" /\ g \notin active /\ table'[g].code = own[g].code /\ active' = active \cup {g}
  BY <1>3 DEF TableMade, UnbornUnknown, NewGame
<1>4. abreast \subseteq abreast' /\ \A r, s \in Request : Abreast(r, s)' => <<r, s>> \in abreast'
  BY DEF Next
<1>5. \A g \in active : own'[g].attempt = own[g].attempt
  BY <1>1, ThreadStep DEF UnbornUnknown
<1>6. \A g \in Request : TableMade(g) => own'[g].attempt = own[g].attempt
  BY <1>3, ThreadStep
<1>7. CodesAreDistinct'
  <2> SUFFICES ASSUME NEW g \in active', NEW h \in active',
                      g # h, table'[g].code = table'[h].code
               PROVE  <<g, h>> \in abreast' \/ MaxTries \in {own'[g].attempt, own'[h].attempt}
    BY DEF CodesAreDistinct
  <2>1. CASE g \in active /\ h \in active
    <3>1. table'[g].code = table[g].code /\ table'[h].code = table[h].code
      BY <1>1, <1>2, <1>3, <2>1
    <3> QED
      BY <1>4, <1>5, <2>1, <3>1 DEF CodesBooked, CodesAreDistinct
  <2>2. CASE g \notin active
    <3>1. TableMade(g) /\ h \in active /\ table'[h].code = table[h].code
      BY <1>1, <1>2, <1>3, <2>2
    <3> QED
      BY <1>1, <1>3, <1>4, <1>6, <3>1 DEF CodesBooked
  <2>3. CASE h \notin active
    <3>1. TableMade(h) /\ g \in active /\ table'[g].code = table[g].code
      BY <1>1, <1>2, <1>3, <2>3
    <3> QED
      BY <1>1, <1>3, <1>4, <1>6, <3>1 DEF CodesBooked
  <2> QED
    BY <2>1, <2>2, <2>3
<1>8. ASSUME NEW r \in Request, at'[r] = "insert", NEW g \in active',
             table'[g].code = own'[r].code
      PROVE  \/ <<r, g>> \in abreast' /\ <<g, r>> \in abreast'
             \/ own'[r].attempt = MaxTries
  <2>1. CASE /\ at[r] = "insert"
             /\ own'[r].code = own[r].code /\ own'[r].attempt = own[r].attempt
    <3>1. CASE g \in active /\ table'[g].code = table[g].code
      BY <1>4, <1>8, <2>1, <3>1 DEF CodesBooked
    <3>2. CASE TableMade(g)
      <4>1. g \in Request /\ g # r /\ at[g] = "insert"
        BY <1>1, <1>3, <1>8, <3>2 DEF TableMade
      <4>2. <<r, g>> \in abreast /\ <<g, r>> \in abreast
        BY <2>1, <4>1 DEF CodesBooked, Abreast
      <4> QED
        BY <1>4, <4>2
    <3> QED
      BY <1>2, <3>1, <3>2
  <2>2. CASE DrawCode(r)
    <3>1. active' = active /\ table' = table
      BY <2>2 DEF DrawCode, maps
    <3>2. InUse(own'[r].code)
      BY <1>8, <3>1 DEF InUse
    <3>3. at[r] = "code" /\ own[r].attempt < MaxTries /\ own[r].attempt \in Nat
      BY <2>2 DEF DrawCode, CodesBooked, RoomsTypeOK, Local
    <3> QED
      BY <1>8, <2>2, <3>2, <3>3, CodeDrawn
  <2> QED
    BY <1>8, <2>1, <2>2, ThreadStep
<1>9. \A r \in Request : at'[r] = "code" => own'[r].attempt < MaxTries
  BY ThreadStep
<1> QED
  BY <1>4, <1>7, <1>8, <1>9 DEF CodesBooked

(* A stale lobby on a list stays one, or somebody is seen in it.           *)
LEMMA ListedStep == RInv /\ Next => ListedAreStale'
<1> SUFFICES ASSUME RInv, Next, NEW r \in Request, NEW g \in own'[r].stale \cap active',
                    at'[r] = "remove", g \notin raced'
             PROVE  table'[g].phase = "LOBBY" /\ activity'[g] = "stale"
  BY DEF ListedAreStale
<1> USE DEF RInv
<1>1. g \in Request /\ g \notin raced /\ ~Crowded(g)'
  BY RoomsTypeStep DEF Next, RoomsTypeOK
<1>2. CASE Collect(r)
  BY <1>2 DEF Collect, RoomsTypeOK, maps, Local
<1>3. CASE at[r] = "remove" /\ own'[r].stale \subseteq own[r].stale
  <2>1. g \in own[r].stale /\ at[g] # "insert" /\ ~TableMade(g)
    BY <1>1, <1>3 DEF UnbornUnknown, TableMade
  <2>2. g \in active
    BY <2>1, MapsStep
  <2>3. table[g].phase = "LOBBY" /\ activity[g] = "stale"
    BY <1>1, <1>3, <2>1, <2>2 DEF ListedAreStale
  <2>4. ~(serving'.step # "idle" /\ serving'.game = g)
    BY <1>1 DEF Crowded, Holds
  <2>5. table'[g].phase = "LOBBY"
    BY <1>1, <2>1, <2>3, <2>4, TableStep DEF TableKept
  <2>6. ASSUME NEW s \in Request, at[s] = "touch", own[s].game = g PROVE FALSE
    <3>1. s # r /\ g \in Holds(s) \cap Holds(r)
      BY <1>3, <2>1, <2>6 DEF Holds
    <3> QED
      BY <1>1, <3>1 DEF Crowded, RacesBooked
  <2>7. ~(serving.step = "touch" /\ serving.game = g)
    <3>1. g \in Holds(r)
      BY <1>3, <2>1 DEF Holds
    <3> QED
      BY <1>1, <3>1 DEF Crowded, RacesBooked
  <2>8. activity'[g] = "stale"
    BY <2>1, <2>2, <2>3, <2>6, <2>7, MapsStep
  <2> QED
    BY <2>5, <2>8
<1> QED
  BY <1>2, <1>3, ThreadStep

-----------------------------------------------------------------------------

(* What holds of the maps and the tables between any two steps of any      *)
(* threads.                                                                *)
THEOREM RoomsInvariance == Spec => []RInv
<1>1. RInv /\ Next => RInv'
  <2> SUFFICES ASSUME RInv, Next PROVE RInv'
    OBVIOUS
  <2>2. RacesBooked'
    BY DEF Next, RacesBooked
  <2> QED
    BY <2>2, RoomsTypeStep, MapsStep, UnbornStep, CodesStep, ListedStep DEF RInv
<1>2. RInv /\ UNCHANGED vars => RInv'
  BY DEF vars, RInv, RoomsTypeOK, ActivityOfLiveGames, UnbornUnknown, CodesBooked,
         CodesAreDistinct, Abreast, RacesBooked, Crowded, Holds, ListedAreStale
<1> QED
  BY RoomsInit, <1>1, <1>2, PTL DEF Spec

(* However many requests run at once, every field keeps its type.          *)
THEOREM RoomsTypeCorrect == Spec => []RoomsTypeOK
<1>1. RInv => RoomsTypeOK
  BY DEF RInv
<1> QED
  BY RoomsInvariance, <1>1, PTL

(* activeGames_ and gameActivity_ name the same games, always.             *)
THEOREM MapsAgree == Spec => []ActivityOfLiveGames
<1>1. RInv => ActivityOfLiveGames
  BY DEF RInv
<1> QED
  BY RoomsInvariance, <1>1, PTL

(* Two games share a code only if both creations were between their        *)
(* loop and their insertion at one time, or a loop ran out of tries.       *)
THEOREM CodesLeadToOneGame == Spec => []CodesAreDistinct
<1>1. RInv => CodesAreDistinct
  BY DEF RInv, CodesBooked
<1> QED
  BY RoomsInvariance, <1>1, PTL

(* A clean-up that nobody crosses takes away stale lobbies and nothing     *)
(* else.                                                                   *)
THEOREM CleanUpTakesStaleLobbies == Spec => StaleOnlyRemoved
<1> DEFINE A == \A g \in active \ active' :
                    g \in raced \/ (table[g].phase = "LOBBY" /\ activity[g] = "stale")
<1>1. RInv /\ [Next]_vars => [A]_vars
  <2> SUFFICES ASSUME RInv, Next, NEW g \in active \ active', g \notin raced
               PROVE  table[g].phase = "LOBBY" /\ activity[g] = "stale"
    OBVIOUS
  <2>1. PICK r \in Request : at[r] = "remove" /\ g \in own[r].stale
    BY MapsStep
  <2> QED
    BY <2>1 DEF RInv, ListedAreStale
<1> QED
  BY RoomsInvariance, <1>1, PTL DEF Spec, StaleOnlyRemoved

-----------------------------------------------------------------------------
(* Tables nobody else is at.                                               *)

(* What the threads' local variables say of the threads themselves.        *)
LocalsFit ==
    \A r \in Request :
        /\ at[r] \in {"code", "insert", "load", "bots"} => own[r].creates
        /\ own[r].creates => own[r].game = r
        /\ at[r] \in {"new", "remove"} => own[r].game = None
        /\ at[r] \in {"seat", "push"} => own[r].then # "join"
        /\ at[r] # "done" => told[r] = None
        /\ at[r] \in {"new", "code", "insert"} => \A s \in Request : s # r => own[s].game # r

\* A game somebody is in exists, unless somebody else is in it as well.
HeldExist ==
    \A g \in Request \ raced :
        /\ \A r \in Request : g \in Holds(r) => g \in active
        /\ serving.step # "idle" /\ serving.game = g => g \in active

\* r is on its way to its own seat, or seats its bots.
ForItself(r)  == at[r] \in {"seat", "push"} /\ own[r].then = "touch"
ForItsBots(r) == at[r] \in {"seat", "push"} /\ own[r].then = "answer"

\* r has created its game and has no seat in it yet.
Early(r) ==
    /\ own[r].creates
    /\ \/ at[r] \in {"load", "join"} \/ ForItself(r)
       \/ at[r] \in {"save", "write"} /\ own[r].then = "join"

\* r has taken its seat.
Placed(r) ==
    \/ at[r] \in {"touch", "bots"} \/ ForItsBots(r)
    \/ at[r] \in {"save", "write"} /\ own[r].then # "join"
    \/ Joined(r)

\* p plays at table t, and may start its game if it is his.
PlaysAt(t, p, creates) ==
    /\ p \in Range(t.seats)
    /\ t.phase = "IN_PROGRESS" => p \in t.dealt
    /\ creates => t.creator = p

\* What r has found at the table g is still so.
StillFree(r, g) ==
    /\ ForItself(r) => table[g].phase = "LOBBY" /\ Len(table[g].seats) < MaxPlayers
    /\ at[r] = "push" => /\ Len(table[g].seats) < MaxPlayers
                         /\ own[r].first = (table[g].seats = << >>)

(* What a thread has found or done at a table nobody else was at is so.    *)
SeatsKept ==
    /\ \A g \in active \ raced : Len(table[g].seats) =< MaxPlayers
    /\ \A r \in Request : \A g \in active \ raced : own[r].game = g =>
        /\ Early(r) => table[g].seats = << >>
        /\ StillFree(r, g)
        /\ (Placed(r) /\ r \notin left) => PlaysAt(table[g], r, own[r].creates)

\* s shows table t, perhaps with some who have left since.
Shows(s, t) == s.phase = t.phase /\ Range(t.seats) \subseteq Range(s.seats)

\* Somebody is about to save g.
Unsaved(g) ==
    \/ \E r \in Request :
          at[r] \in {"load", "seat", "push", "save", "write"} /\ own[r].game = g
    \/ serving.step \in {"save", "write"} /\ serving.game = g

(* A row is what was last saved, and what is about to be saved is so.      *)
RowsKept ==
    \A g \in Request \ raced :
        /\ g \in active => Shows(row[g], table[g]) \/ Unsaved(g)
        /\ g \notin active => row[g] = NoRow
        /\ \A r \in Request : at[r] = "write" /\ own[r].game = g =>
              Shows(own[r].snapshot, table[g])
        /\ serving.step = "write" /\ serving.game = g => Shows(serving.snapshot, table[g])

OInv == RInv /\ LocalsFit /\ HeldExist /\ SeatsKept /\ RowsKept

-----------------------------------------------------------------------------

(* Who else sits at a table when one gives up his seat.                    *)
LEMMA OthersStaySeated ==
    ASSUME NEW s \in Seq(Seat), NEW i \in 1..Len(s)
    PROVE  /\ Range(RemoveAt(s, i)) \subseteq Range(s)
           /\ Range(s) \ {s[i]} \subseteq Range(RemoveAt(s, i))
<1> DEFINE a == SubSeq(s, 1, i - 1)
           b == SubSeq(s, i + 1, Len(s))
<1>1. Len(s) \in Nat /\ i \in Nat /\ 1 =< i /\ i =< Len(s)
  OBVIOUS
<1>2. a \in Seq(Seat) /\ Len(a) = i - 1 /\ \A k \in 1..(i - 1) : a[k] = s[k]
  BY <1>1, SubSeqProperties
<1>3. b \in Seq(Seat) /\ Len(b) = Len(s) - i /\ \A k \in 1..(Len(s) - i) : b[k] = s[i + k]
  <2>1. i + 1 \in Int /\ Len(s) \in Int /\ \A k \in (i + 1)..Len(s) : s[k] \in Seat
    BY <1>1, ElementOfSeq
  <2>2. /\ b \in Seq(Seat)
        /\ Len(b) = IF i + 1 <= Len(s) THEN Len(s) - (i + 1) + 1 ELSE 0
        /\ \A k \in 1..(Len(s) - (i + 1) + 1) : b[k] = s[(i + 1) + k - 1]
    BY <1>1, <2>1, SubSeqProperties
  <2>3. Len(b) = Len(s) - i
    BY <1>1, <2>2
  <2>4. \A k \in 1..(Len(s) - i) : b[k] = s[i + k]
    <3> SUFFICES ASSUME NEW k \in 1..(Len(s) - i) PROVE b[k] = s[i + k]
      OBVIOUS
    <3>1. (i + 1) + k - 1 = i + k /\ k \in 1..(Len(s) - (i + 1) + 1)
      BY <1>1
    <3> QED
      BY <2>2, <3>1
  <2> QED
    BY <2>2, <2>3, <2>4
<1>4. RemoveAt(s, i) = a \o b
  BY DEF RemoveAt
<1> HIDE DEF a, b
<1>5. Range(a \o b) = Range(a) \cup Range(b)
  BY <1>2, <1>3, RangeConcatenation
<1>6. /\ Range(a) = {a[k] : k \in 1..Len(a)} /\ Range(b) = {b[k] : k \in 1..Len(b)}
      /\ Range(s) = {s[k] : k \in 1..Len(s)}
  <2>1. Range(a) = {a[k] : k \in 1..Len(a)}
    BY <1>2, RangeEquality
  <2>2. Range(b) = {b[k] : k \in 1..Len(b)}
    BY <1>3, RangeEquality
  <2>3. Range(s) = {s[k] : k \in 1..Len(s)}
    BY RangeEquality
  <2> QED
    BY <2>1, <2>2, <2>3
<1>7. ASSUME NEW k \in 1..Len(s), k # i PROVE s[k] \in Range(a) \cup Range(b)
  <2>1. CASE k < i
    <3>1. k \in 1..Len(a) /\ a[k] = s[k]
      BY <1>1, <1>2, <2>1
    <3> QED
      BY <1>6, <3>1
  <2>2. CASE k > i
    <3>1. k - i \in 1..Len(b) /\ i + (k - i) = k
      BY <1>1, <1>3, <2>2
    <3>2. b[k - i] = s[k]
      BY <1>3, <3>1
    <3> QED
      BY <1>6, <3>1, <3>2
  <2> QED
    BY <1>1, <1>7, <2>1, <2>2
<1>8. Range(s) \ {s[i]} \subseteq Range(a) \cup Range(b)
  BY <1>6, <1>7
<1>9. Range(a) \subseteq Range(s)
  <2> SUFFICES ASSUME NEW k \in 1..(i - 1) PROVE a[k] \in Range(s)
    BY <1>2, <1>6
  <2>1. k \in 1..Len(s) /\ a[k] = s[k]
    BY <1>1, <1>2
  <2> QED
    BY <1>6, <2>1
<1>10. Range(b) \subseteq Range(s)
  <2> SUFFICES ASSUME NEW k \in 1..(Len(s) - i) PROVE b[k] \in Range(s)
    BY <1>3, <1>6
  <2>1. i + k \in 1..Len(s) /\ b[k] = s[i + k]
    BY <1>1, <1>3
  <2> QED
    BY <1>6, <2>1
<1> QED
  BY <1>4, <1>5, <1>8, <1>9, <1>10

(* Who sits at a table when somebody sits down.                            *)
LEMMA SeatAdded ==
    ASSUME NEW s \in Seq(Seat), NEW p \in Seat
    PROVE  Range(Append(s, p)) = Range(s) \cup {p}
<1> DEFINE one == <<p>>
<1>1. one \in Seq(Seat) /\ Range(one) = {p}
  BY DEF Range
<1>2. Append(s, p) = s \o one
  OBVIOUS
<1> HIDE DEF one
<1>3. Range(s \o one) = Range(s) \cup Range(one)
  BY <1>1, RangeConcatenation
<1> QED
  BY <1>1, <1>2, <1>3

(* A player goes on playing when others come, when the cards are dealt and *)
(* when others leave.                                                      *)
LEMMA PlaysOn ==
    ASSUME NEW t \in Table, NEW p, NEW creates, PlaysAt(t, p, creates)
    PROVE  /\ t.seats # << >>
           /\ \A q \in Seat : PlaysAt(SitDown(t, q, FALSE), p, creates)
           /\ PlaysAt(Deal(t), p, creates)
           /\ \A i \in 1..Len(t.seats) :
                 t.seats[i] # p => PlaysAt(GiveUpSeat(t, i), p, creates)
<1>1. t.seats \in Seq(Seat) /\ t.seats # << >>
  <2>1. Range(<< >>) = {}
    BY DEF Range
  <2> QED
    BY <2>1 DEF Table, PlaysAt
<1>2. ASSUME NEW q \in Seat PROVE PlaysAt(SitDown(t, q, FALSE), p, creates)
  <2>1. Range(t.seats) \subseteq Range(Append(t.seats, q))
    BY <1>1, SeatAdded
  <2> DEFINE u == SitDown(t, q, FALSE)
  <2>2. /\ u.seats = Append(t.seats, q) /\ u.phase = t.phase /\ u.dealt = t.dealt
        /\ u.creator = t.creator
    BY PlayerAdded
  <2> HIDE DEF u
  <2>3. PlaysAt(u, p, creates)
    BY <2>1, <2>2 DEF PlaysAt
  <2> QED
    BY <2>3 DEF u
<1>4. PlaysAt(Deal(t), p, creates)
  BY DEF Deal, Table, PlaysAt
<1>5. ASSUME NEW i \in 1..Len(t.seats), t.seats[i] # p
      PROVE  PlaysAt(GiveUpSeat(t, i), p, creates)
  <2>1. p \in Range(RemoveAt(t.seats, i))
    BY <1>1, <1>5, OthersStaySeated DEF PlaysAt
  <2> DEFINE w == RemoveAt(t.seats, i)
  <2> HIDE DEF w
  <2>2. /\ GiveUpSeat(t, i).seats = w /\ GiveUpSeat(t, i).phase = t.phase
        /\ GiveUpSeat(t, i).dealt = t.dealt /\ GiveUpSeat(t, i).creator = t.creator
    BY DEF GiveUpSeat, Table, w
  <2> QED
    BY <2>1, <2>2 DEF PlaysAt, w
<1> QED
  BY <1>1, <1>2, <1>4, <1>5

(* A player takes a seat in a lobby.                                       *)
LEMMA SeatTaken ==
    ASSUME NEW t \in Table, NEW p \in Seat, NEW first \in BOOLEAN, NEW creates,
           t.phase = "LOBBY", creates => first
    PROVE  PlaysAt(SitDown(t, p, first), p, creates)
<1> DEFINE u == SitDown(t, p, first)
<1>1. t.seats \in Seq(Seat)
  BY DEF Table
<1>2. /\ u.seats = Append(t.seats, p) /\ u.phase = "LOBBY"
      /\ u.creator = IF first THEN p ELSE t.creator
  BY PlayerAdded
<1> HIDE DEF u
<1>3. p \in Range(Append(t.seats, p))
  BY <1>1, SeatAdded
<1>4. PlaysAt(u, p, creates)
  BY <1>2, <1>3 DEF PlaysAt
<1> QED
  BY <1>4 DEF u

-----------------------------------------------------------------------------

(* A request's thread moves alone.                                         *)
LEMMA OthersStay ==
    ASSUME RInv, NEW s \in Request, HttpStep(s)
    PROVE  /\ UNCHANGED <<serving, left>>
           /\ \A r \in Request : r # s =>
                 at'[r] = at[r] /\ own'[r] = own[r] /\ told'[r] = told[r]
<1> USE DEF RInv, RoomsTypeOK, Goto, Answer, ws
<1>1. UNCHANGED <<serving, left>>
  BY DEF HttpStep, AskToCreate, DrawCode, Insert, Load, Save, Write, Lost, Ask, AskByCode, CheckJoin,
         AddPlayer, PushPlayer, Touch, CountBots, Collect, RemovedAll, RemoveGame
<1>2. ASSUME NEW r \in Request, r # s
      PROVE  at'[r] = at[r] /\ own'[r] = own[r] /\ told'[r] = told[r]
  <2>1. CASE AskToCreate(s)
    <3>1. PICK n \in BotCounts :
            own' = [own EXCEPT ![s] = [NoLocal EXCEPT !.game = s, !.creates = TRUE,
                       !.bots = IF n >= MaxPlayers THEN MaxPlayers - 1 ELSE n]]
      BY <2>1 DEF AskToCreate
    <3> DEFINE k == [NoLocal EXCEPT !.game = s, !.creates = TRUE,
                       !.bots = IF n >= MaxPlayers THEN MaxPlayers - 1 ELSE n]
    <3>2. own' = [own EXCEPT ![s] = k]
      BY <3>1
    <3> HIDE DEF k
    <3>3. at' = [at EXCEPT ![s] = "code"] /\ told' = told
      BY <2>1 DEF AskToCreate
    <3> QED
      BY <1>2, <3>2, <3>3
  <2>16. CASE DrawCode(s)
    <3>1. at' = [at EXCEPT ![s] = at'[s]] /\ own' = [own EXCEPT ![s] = own'[s]] /\ told' = told
      BY <2>16, CodeDrawn DEF DrawCode
    <3> QED
      BY <1>2, <3>1
  <2>2. CASE Insert(s)
    BY <1>2, <2>2 DEF Insert
  <2>3. CASE Load(s)
    BY <1>2, <2>3 DEF Load
  <2>4. CASE Save(s)
    BY <1>2, <2>4 DEF Save
  <2>5. CASE Write(s)
    BY <1>2, <2>5 DEF Write
  <2>6. CASE Lost(s)
    BY <1>2, <2>6 DEF Lost
  <2>7. CASE CheckJoin(s)
    BY <1>2, <2>7 DEF CheckJoin
  <2>8. CASE AddPlayer(s) \/ PushPlayer(s)
    <3>1. at' = [at EXCEPT ![s] = at'[s]] /\ own' = [own EXCEPT ![s] = own'[s]]
      BY <2>8, PlayerPushed
    <3>2. told' = told
      BY <2>8 DEF AddPlayer, PushPlayer
    <3> QED
      BY <1>2, <3>1, <3>2
  <2>9. CASE Touch(s)
    BY <1>2, <2>9 DEF Touch
  <2>10. CASE CountBots(s)
    <3>1. at' = [at EXCEPT ![s] = at'[s]] /\ own' = [own EXCEPT ![s] = own'[s]]
      BY <2>10, BotsCounted
    <3>2. told' = told \/ Answer(s, 201)
      BY <2>10, BotsCounted
    <3> QED
      BY <1>2, <3>1, <3>2
  <2>11. CASE Collect(s)
    BY <1>2, <2>11 DEF Collect
  <2>12. CASE RemovedAll(s)
    BY <1>2, <2>12 DEF RemovedAll
  <2>13. CASE \E g \in active : Ask(s, g)
    BY <1>2, <2>13 DEF Ask
  <2>14. CASE \E c \in Code : AskByCode(s, c)
    BY <1>2, <2>14 DEF AskByCode
  <2>15. CASE \E g \in own[s].stale : RemoveGame(s, g)
    BY <1>2, <2>15 DEF RemoveGame
  <2> QED
    BY <2>1, <2>2, <2>3, <2>4, <2>5, <2>6, <2>7, <2>8, <2>9, <2>10, <2>11, <2>12, <2>13, <2>14,
       <2>15, <2>16 DEF HttpStep
<1> QED
  BY <1>1, <1>2

(* A creation asked for.                                                   *)
LEMMA CreationAsked ==
    ASSUME RInv, NEW s \in Request, AskToCreate(s)
    PROVE  /\ at[s] = "new" /\ at'[s] = "code" /\ told' = told
           /\ own'[s].game = s /\ own'[s].creates = TRUE /\ own'[s].stale = {}
<1>1. PICK n \in BotCounts :
        own' = [own EXCEPT ![s] = [NoLocal EXCEPT !.game = s, !.creates = TRUE,
                   !.bots = IF n >= MaxPlayers THEN MaxPlayers - 1 ELSE n]]
  BY DEF AskToCreate
<1> DEFINE b == IF n >= MaxPlayers THEN MaxPlayers - 1 ELSE n
<1>2. own' = [own EXCEPT ![s] = [NoLocal EXCEPT !.game = s, !.creates = TRUE, !.bots = b]]
  BY <1>1
<1> HIDE DEF b
<1>3. at[s] = "new" /\ at'[s] = "code" /\ told' = told
  BY DEF AskToCreate, Goto, RInv, RoomsTypeOK
<1> QED
  BY <1>2, <1>3 DEF NoLocal, RInv, RoomsTypeOK

(* What a write changes for the thread.                                    *)
LEMMA Writing ==
    ASSUME RInv, NEW s \in Request, Write(s)
    PROVE  /\ at[s] = "write"
           /\ own'[s].game = own[s].game /\ own'[s].creates = own[s].creates
           /\ own'[s].then = own[s].then /\ own'[s].stale = own[s].stale
           /\ own[s].then \in {"join", "touch", "answer"}
           /\ \/ /\ own[s].then = "answer" /\ at'[s] = "done"
                 /\ told'[s] = 201
              \/ own[s].then # "answer" /\ at'[s] = own[s].then /\ told'[s] = told[s]
<1>1. own' = [own EXCEPT ![s].snapshot = NoRow] /\ own \in [Request -> Local]
  BY DEF Write, RInv, RoomsTypeOK
<1>2. /\ own'[s].game = own[s].game /\ own'[s].creates = own[s].creates
      /\ own'[s].then = own[s].then /\ own'[s].stale = own[s].stale
      /\ own[s].then \in {"join", "touch", "answer"}
  BY <1>1 DEF Local
<1>3. /\ at[s] = "write"
      /\ \/ own[s].then = "answer" /\ at'[s] = "done" /\ told'[s] = 201
         \/ own[s].then # "answer" /\ at'[s] = own[s].then /\ told'[s] = told[s]
  BY DEF Write, Answer, Goto, RInv, RoomsTypeOK
<1> QED
  BY <1>2, <1>3

(* The WebSocket thread and the clock leave the requests alone.            *)
LEMMA RequestsStay ==
    ASSUME WebSocketStep \/ \E g \in active : Idle(g)
    PROVE  UNCHANGED <<at, own, told, active>>
BY DEF WebSocketStep, StartGame, SaveStarted, WriteStarted, TouchServed, LeaveGame, Refresh, Idle, maps

(* Nobody else is at a game that is not on the books.                      *)
LEMMA NotCrowded ==
    ASSUME RInv, Next, NEW g \in Request, g \notin raced'
    PROVE  g \notin raced /\ ~Crowded(g) /\ ~Crowded(g)'
BY DEF Next, RInv, RacesBooked

(* What toJson shows is all that a save changes for the thread.            *)
LEMMA Saving ==
    ASSUME RInv, NEW s \in Request, Save(s)
    PROVE  /\ at[s] = "save" /\ at'[s] = "write" /\ told' = told
           /\ own[s].game \in active /\ own'[s].game = own[s].game
           /\ own'[s].creates = own[s].creates /\ own'[s].then = own[s].then
           /\ own'[s].stale = own[s].stale
           /\ own'[s].snapshot = [phase |-> table[own[s].game].phase,
                                 seats |-> table[own[s].game].seats]
<1> DEFINE x == [phase |-> table[own[s].game].phase, seats |-> table[own[s].game].seats]
<1>1. own' = [own EXCEPT ![s].snapshot = x] /\ own \in [Request -> Local]
  BY DEF Save, RInv, RoomsTypeOK
<1> HIDE DEF x
<1>2. /\ own'[s].game = own[s].game /\ own'[s].creates = own[s].creates
      /\ own'[s].then = own[s].then /\ own'[s].stale = own[s].stale
      /\ own'[s].snapshot = x
  BY <1>1 DEF Local
<1>3. /\ at[s] = "save" /\ at'[s] = "write" /\ told' = told /\ own[s].game \in active
  BY DEF Save, Goto, RInv, RoomsTypeOK
<1> QED
  BY <1>2, <1>3 DEF x

(* A thread that is not in a game yet knows of none, and knows its own when *)
(* it is.                                                                  *)
LEMMA LocalsStep == RInv /\ LocalsFit /\ Next => LocalsFit'
<1> SUFFICES ASSUME RInv, LocalsFit, Next PROVE LocalsFit'
  OBVIOUS
<1> USE DEF RInv, RoomsTypeOK, Goto, Answer, maps, ws
<1>1. CASE WebSocketStep \/ \E g \in active : Idle(g)
  BY <1>1, RequestsStay DEF LocalsFit
<1>2. ASSUME NEW s \in Request, HttpStep(s)
      PROVE  LocalsFit'
  <2>a. /\ at[s] \in {"code", "insert", "load", "bots"} => own[s].creates
        /\ own[s].creates => own[s].game = s
        /\ at[s] \in {"new", "remove"} => own[s].game = None
        /\ at[s] \in {"seat", "push"} => own[s].then # "join"
        /\ at[s] # "done" => told[s] = None
    BY DEF LocalsFit
  <2>b. at[s] = "new" => own[s].creates = FALSE
    BY <2>a DEF Local
  <2>1. /\ at'[s] \in {"code", "insert", "load", "bots"} => own'[s].creates
        /\ own'[s].creates => own'[s].game = s
        /\ at'[s] \in {"new", "remove"} => own'[s].game = None
        /\ at'[s] \in {"seat", "push"} => own'[s].then # "join"
        /\ at'[s] # "done" => told'[s] = None
        /\ own'[s].game = own[s].game \/ own'[s].game = s \/ own'[s].game \in active
        /\ at[s] # "new" => own'[s].game = own[s].game
    <3>1. CASE AskToCreate(s)
      <4> HIDE DEF RInv, RoomsTypeOK
      <4> QED
        BY <2>a, <3>1, CreationAsked
    <3>16. CASE DrawCode(s)
      <4>1. told' = told
        BY <3>16 DEF DrawCode
      <4> HIDE DEF Goto, Answer
      <4> QED
        BY <2>a, <3>16, <4>1, CodeDrawn
    <3>2. CASE Insert(s)
      BY <2>a, <2>b, <3>2 DEF Insert
    <3>3. CASE Load(s)
      BY <2>a, <2>b, <3>3 DEF Load, Local
    <3>4. CASE Save(s)
      <4> HIDE DEF RInv, RoomsTypeOK
      <4>1. /\ at[s] = "save" /\ at'[s] = "write" /\ told' = told
            /\ own'[s].game = own[s].game /\ own'[s].creates = own[s].creates
        BY <3>4, Saving
      <4> QED
        BY <2>a, <2>b, <4>1
    <3>5. CASE Write(s)
      <4> HIDE DEF RInv, RoomsTypeOK, Goto, Answer
      <4> QED
        BY <2>a, <3>5, Writing
    <3>6. CASE Lost(s)
      BY <2>a, <2>b, <3>6 DEF Lost
    <3>7. CASE CheckJoin(s)
      BY <2>a, <2>b, <3>7 DEF CheckJoin, Local
    <3>8. CASE AddPlayer(s) \/ PushPlayer(s)
      <4>1. told' = told /\ at[s] \in {"seat", "push"}
        BY <3>8 DEF AddPlayer, PushPlayer
      <4> HIDE DEF Goto, Answer
      <4> QED
        BY <2>a, <3>8, <4>1, PlayerPushed DEF AfterSeat
    <3>9. CASE Touch(s)
      BY <2>a, <2>b, <3>9 DEF Touch
    <3>10. CASE CountBots(s)
      BY <2>a, <3>10, BotsCounted
    <3>11. CASE Collect(s)
      BY <2>a, <2>b, <3>11 DEF Collect, Local
    <3>12. CASE RemovedAll(s)
      BY <2>a, <2>b, <3>12 DEF RemovedAll
    <3>13. CASE \E g \in active : Ask(s, g)
      BY <2>a, <2>b, <3>13 DEF Ask, NoLocal
    <3>14. CASE \E c \in Code : AskByCode(s, c)
      BY <2>a, <2>b, <3>14 DEF AskByCode, NoLocal
    <3>15. CASE \E g \in own[s].stale : RemoveGame(s, g)
      BY <2>a, <2>b, <3>15 DEF RemoveGame, Local
    <3> QED
      BY <1>2, <3>1, <3>2, <3>3, <3>4, <3>5, <3>6, <3>7, <3>8, <3>9, <3>10, <3>11, <3>12, <3>13, <3>14,
         <3>15, <3>16 DEF HttpStep
  <2>2. ASSUME NEW r \in Request, NEW q \in Request, q # r, at'[r] \in {"new", "code", "insert"}
        PROVE  own'[q].game # r
    <3>1. at[r] \in {"new", "code", "insert"}
      BY <2>2, ThreadStep, CodeDrawn
    <3>2. own[q].game # r /\ r \notin active
      BY <2>2, <3>1 DEF LocalsFit, UnbornUnknown
    <3> QED
      BY <1>2, <2>1, <2>2, <3>2, OthersStay
  <2> SUFFICES ASSUME NEW r \in Request
               PROVE  /\ at'[r] \in {"code", "insert", "load", "bots"} => own'[r].creates
                      /\ own'[r].creates => own'[r].game = r
                      /\ at'[r] \in {"new", "remove"} => own'[r].game = None
                      /\ at'[r] \in {"seat", "push"} => own'[r].then # "join"
                      /\ at'[r] # "done" => told'[r] = None
    BY <2>2 DEF LocalsFit
  <2>3. CASE r = s
    BY <2>1, <2>3
  <2>4. CASE r # s
    BY <1>2, <2>4, OthersStay DEF LocalsFit
  <2> QED
    BY <2>3, <2>4
<1> QED
  BY <1>1, <1>2 DEF Next

(* How a thread gets into a game: the game is there.                       *)
LEMMA GotInto ==
    ASSUME RInv, LocalsFit, NEW s \in Request, HttpStep(s), NEW g \in Request,
           g \in Holds(s)', g \notin Holds(s)
    PROVE  g \in active'
<1> USE DEF RInv, RoomsTypeOK, Goto, Answer, maps, ws
<1>a. /\ at[s] \in {"insert", "load", "bots"} => own[s].creates
      /\ own[s].creates => own[s].game = s
      /\ at[s] \in {"new", "remove"} => own[s].game = None
  BY DEF LocalsFit
<1>1. CASE AskToCreate(s)
  BY <1>1 DEF AskToCreate, Holds
<1>16. CASE DrawCode(s)
  BY <1>16, CodeDrawn DEF Holds
<1>2. CASE Insert(s)
  BY <1>a, <1>2 DEF Insert, Holds
<1>3. CASE Load(s)
  BY <1>a, <1>3 DEF Load, Holds, Local
<1>4. CASE Save(s)
  <2> HIDE DEF RInv, RoomsTypeOK
  <2>1. at[s] = "save" /\ at'[s] = "write" /\ own'[s].game = own[s].game
    BY <1>4, Saving
  <2> QED
    BY <2>1 DEF Holds
<1>5. CASE Write(s)
  <2> HIDE DEF RInv, RoomsTypeOK, Goto, Answer
  <2> QED
    BY <1>5, Writing DEF Holds
<1>6. CASE Lost(s)
  BY <1>a, <1>6 DEF Lost, Holds
<1>7. CASE CheckJoin(s)
  <2>1. active' = active /\ at[s] = "join"
    BY <1>7 DEF CheckJoin
  <2>2. \/ at'[s] = "done"
        \/ own[s].game \in active /\ at'[s] = "seat" /\ own'[s].game = own[s].game
    BY <1>7 DEF CheckJoin, Local
  <2> HIDE DEF RInv, RoomsTypeOK
  <2>3. at'[s] = "seat" /\ g = own'[s].game
    BY <2>2 DEF Holds
  <2> QED
    BY <2>1, <2>2, <2>3
<1>8. CASE AddPlayer(s) \/ PushPlayer(s)
  <2>1. at[s] \in {"seat", "push"}
    BY <1>8 DEF AddPlayer, PushPlayer
  <2> QED
    BY <1>8, <2>1, PlayerPushed DEF Holds, AfterSeat
<1>9. CASE Touch(s)
  BY <1>a, <1>9 DEF Touch, Holds
<1>10. CASE CountBots(s)
  BY <1>a, <1>10, BotsCounted DEF Holds
<1>11. CASE Collect(s)
  BY <1>a, <1>11 DEF Collect, Holds, Local
<1>12. CASE RemovedAll(s)
  BY <1>a, <1>12 DEF RemovedAll, Holds
<1>13. CASE \E h \in active : Ask(s, h)
  BY <1>a, <1>13 DEF Ask, Holds, NoLocal
<1>14. CASE \E c \in Code : AskByCode(s, c)
  BY <1>a, <1>14 DEF AskByCode, Holds, NoLocal
<1>15. CASE \E h \in own[s].stale : RemoveGame(s, h)
  BY <1>a, <1>15 DEF RemoveGame, Holds, Local
<1> QED
  BY <1>1, <1>2, <1>3, <1>4, <1>5, <1>6, <1>7, <1>8, <1>9, <1>10, <1>11, <1>12, <1>13, <1>14,
     <1>15, <1>16 DEF HttpStep

(* What one is in exists.                                                  *)
LEMMA HeldStep == RInv /\ LocalsFit /\ HeldExist /\ Next => HeldExist'
<1> SUFFICES ASSUME RInv, LocalsFit, HeldExist, Next, NEW g \in Request, g \notin raced'
             PROVE  /\ \A r \in Request : g \in Holds(r)' => g \in active'
                    /\ serving'.step # "idle" /\ serving'.game = g => g \in active'
  BY DEF HeldExist
<1>1. g \notin raced /\ ~Crowded(g) /\ ~Crowded(g)'
  BY NotCrowded
<1>2. /\ \A r \in Request : g \in Holds(r) => g \in active
      /\ serving.step # "idle" /\ serving.game = g => g \in active
  BY <1>1 DEF HeldExist
<1>3. CASE WebSocketStep \/ \E h \in active : Idle(h)
  <2>1. UNCHANGED <<at, own, active>>
    BY <1>3, RequestsStay
  <2>2. \A r \in Request : Holds(r)' = Holds(r)
    BY <2>1 DEF Holds
  <2>3. serving'.step # "idle" /\ serving'.game = g => g \in active
    <3> USE DEF RInv, RoomsTypeOK
    <3>1. ASSUME NEW h \in active, NEW p \in Request,
                 StartGame(h) \/ LeaveGame(p, h) \/ Refresh(p, h)
          PROVE  serving'.game = h
      <4>1. \/ serving' = [serving EXCEPT !.step = "save", !.game = h]
            \/ serving' = [serving EXCEPT !.step = "touch", !.game = h]
        BY <3>1 DEF StartGame, LeaveGame, Refresh
      <4>2. serving \in [step : {"idle", "save", "write", "touch"}, game : Request \cup {None},
                         snapshot : Snapshot]
        OBVIOUS
      <4> HIDE DEF RInv, RoomsTypeOK
      <4>3. ASSUME NEW x, serving' = [serving EXCEPT !.step = x, !.game = h]
            PROVE  serving'.game = h
        BY <4>2, <4>3
      <4> QED
        BY <4>1, <4>3
    <3>2. CASE SaveStarted
      BY <1>2, <3>2 DEF SaveStarted, NotServing
    <3>3. CASE WriteStarted \/ TouchServed
      <4>1. CASE WriteStarted
        <5>1. serving'.game = serving.game /\ serving.step = "write"
          BY <4>1 DEF WriteStarted, NotServing
        <5> QED
          BY <1>2, <5>1
      <4>2. CASE TouchServed
        BY <4>2 DEF TouchServed, NotServing
      <4> QED
        BY <3>3, <4>1, <4>2
    <3>4. CASE \E h \in active : Idle(h)
      BY <1>2, <3>4 DEF Idle, ws
    <3> QED
      BY <1>3, <3>1, <3>2, <3>3, <3>4 DEF WebSocketStep
  <2> QED
    BY <1>2, <2>1, <2>2, <2>3
<1>4. ASSUME NEW s \in Request, HttpStep(s)
      PROVE  /\ \A r \in Request : g \in Holds(r)' => g \in active'
             /\ serving'.step # "idle" /\ serving'.game = g => g \in active'
  <2>1. serving' = serving /\ \A r \in Request : r # s => Holds(r)' = Holds(r)
    BY <1>4, OthersStay DEF Holds
  <2>2. ASSUME g \in active, g \notin active'
        PROVE  g \in Holds(s) /\ g \notin Holds(s)'
    <3>1. CASE \E h \in own[s].stale : RemoveGame(s, h)
      BY <2>2, <3>1 DEF RemoveGame, Holds, RInv, RoomsTypeOK, Local
    <3>2. CASE Insert(s)
      BY <2>2, <3>2 DEF Insert, maps
    <3> QED
      BY <1>4, <2>2, <3>1, <3>2 DEF HttpStep, AskToCreate, DrawCode, Load, Save, Write, Lost, Ask, AskByCode,
            CheckJoin, AddPlayer, PushPlayer, Touch, CountBots, Collect, RemovedAll, maps
  <2>3. ASSUME NEW r \in Request, g \in Holds(r)' PROVE g \in active'
    <3>1. CASE r = s
      BY <1>2, <1>4, <2>2, <2>3, <3>1, GotInto
    <3>2. CASE r # s
      BY <1>1, <1>2, <2>1, <2>2, <2>3, <3>2 DEF Crowded
    <3> QED
      BY <3>1, <3>2
  <2>4. ASSUME serving.step # "idle", serving.game = g PROVE g \in active'
    BY <1>1, <1>2, <2>2, <2>4 DEF Crowded
  <2> QED
    BY <2>1, <2>3, <2>4
<1> QED
  BY <1>3, <1>4 DEF Next

-----------------------------------------------------------------------------

(* What a step may do to a table, and what else it does then.              *)
SeatsMade(g) ==
    at[g] = "insert" /\ at'[g] = "load" /\ table'[g].seats = << >>

SeatAdds(g, s) ==
    /\ at[s] = "push" /\ own[s].game = g
    /\ table'[g] = SitDown(table[g], Newcomer(s), own[s].first)
    /\ at'[s] = "save" \/ (at'[s] = "seat" /\ own[s].then # "touch")
    /\ own'[s].game = g /\ own'[s].then = own[s].then /\ own'[s].creates = own[s].creates

Deals(g) ==
    /\ table'[g] = Deal(table[g])
    /\ serving'.step = "save" /\ serving'.game = g

Leaves(g, p) ==
    /\ \E i \in 1..Len(table[g].seats) :
          table[g].seats[i] = p /\ table'[g] = GiveUpSeat(table[g], i)
    /\ p \in left' /\ serving'.step = "touch" /\ serving'.game = g

(* There are four ways a table changes.                                    *)
LEMMA TableMoves ==
    ASSUME RInv, Next, NEW g \in Request
    PROVE  \/ table'[g] = table[g]
           \/ SeatsMade(g)
           \/ \E s \in Request : SeatAdds(g, s)
           \/ Deals(g)
           \/ \E p \in Request : Leaves(g, p)
<1> USE DEF RInv, RoomsTypeOK
<1>1. CASE UNCHANGED table
  BY <1>1
<1>2. ASSUME NEW s \in Request, Insert(s) PROVE table'[g] = table[g] \/ SeatsMade(g)
  BY <1>2 DEF Insert, SeatsMade, Goto, NewGame
<1>3. ASSUME NEW s \in Request, PushPlayer(s) PROVE table'[g] = table[g] \/ SeatAdds(g, s)
  <2>1. /\ at[s] = "push"
        /\ table' = [table EXCEPT ![own[s].game] =
                        SitDown(table[own[s].game], Newcomer(s), own[s].first)]
    BY <1>3 DEF PushPlayer
  <2>2. at'[s] = AfterSeat(s)
    BY <1>3 DEF PushPlayer, Goto
  <2>3. at'[s] = "save" \/ (at'[s] = "seat" /\ own[s].then # "touch")
    <3>1. own[s].then = "touch" => Newcomer(s) = s /\ s # Bot
      BY DEF Newcomer
    <3> QED
      BY <2>2, <3>1 DEF AfterSeat, NextBot
  <2>4. /\ own'[s].game = own[s].game /\ own'[s].then = own[s].then
        /\ own'[s].creates = own[s].creates
    BY <1>3, PlayerPushed
  <2>5. CASE g = own[s].game
    BY <2>1, <2>3, <2>4, <2>5 DEF SeatAdds
  <2>6. CASE g # own[s].game
    BY <2>1, <2>6
  <2> QED
    BY <2>5, <2>6
<1>5. ASSUME NEW h \in active, StartGame(h) PROVE table'[g] = table[g] \/ Deals(g)
  BY <1>5 DEF StartGame, Deals
<1>6. ASSUME NEW p \in Request, NEW h \in active, LeaveGame(p, h)
      PROVE  table'[g] = table[g] \/ Leaves(g, p)
  BY <1>6 DEF LeaveGame, Leaves
<1>8. ASSUME NEW s \in Request, HttpStep(s), ~Insert(s), ~PushPlayer(s)
      PROVE UNCHANGED table
  BY <1>8 DEF HttpStep, AskToCreate, DrawCode, Load, Save, Write, Lost, Ask, AskByCode,
              CheckJoin, AddPlayer, Touch, CountBots, Collect, RemovedAll, RemoveGame
<1>9. ASSUME \/ SaveStarted \/ WriteStarted \/ TouchServed \/ \E h \in active : Idle(h)
             \/ \E p \in Request, h \in active : Refresh(p, h)
      PROVE UNCHANGED table
  BY <1>9 DEF SaveStarted, WriteStarted, TouchServed, Refresh, Idle
<1>10. CASE \E s \in Request : HttpStep(s)
  <2>1. PICK s \in Request : HttpStep(s)
    BY <1>10
  <2> HIDE DEF RInv, RoomsTypeOK
  <2>2. \/ UNCHANGED table \/ table'[g] = table[g] \/ SeatsMade(g)
        \/ SeatAdds(g, s)
    BY <1>2, <1>3, <1>8, <2>1
  <2> QED
    BY <1>1, <2>1, <2>2
<1>11. CASE WebSocketStep
  BY <1>1, <1>5, <1>6, <1>9, <1>11 DEF WebSocketStep
<1> QED
  BY <1>1, <1>9, <1>10, <1>11 DEF Next

(* How a thread comes to have, or to be about to take, a seat.             *)
LEMMA SeatMoves ==
    ASSUME RInv, LocalsFit, Next, NEW r \in Request, own'[r].game \in active'
    PROVE  /\ Early(r)' =>
                 \/ SeatsMade(r)
                 \/ Early(r) /\ own'[r].game = own[r].game
           /\ ForItself(r)' =>
                 /\ own'[r].game = own[r].game
                 /\ \/ ForItself(r)
                    \/ /\ table' = table /\ table[own[r].game].phase = "LOBBY"
                       /\ Len(table[own[r].game].seats) < MaxPlayers
           /\ at'[r] = "push" =>
                 /\ own'[r].game = own[r].game
                 /\ \/ at[r] = "push" /\ own'[r] = own[r]
                    \/ /\ table' = table /\ Len(table[own[r].game].seats) < MaxPlayers
                       /\ own'[r].first = (table[own[r].game].seats = << >>)
           /\ Placed(r)' =>
                 /\ own'[r].game = own[r].game /\ own'[r].creates = own[r].creates
                 /\ \/ Placed(r)
                    \/ ForItself(r) /\ SeatAdds(own[r].game, r)
                    \/ ForItself(r) /\ ~(Len(table[own[r].game].seats) < MaxPlayers)
<1> USE DEF RInv, RoomsTypeOK, Goto, Answer
<1>a. /\ at[r] \in {"code", "insert", "load", "bots"} => own[r].creates
      /\ own[r].creates => own[r].game = r
      /\ at[r] \in {"new", "remove"} => own[r].game = None
      /\ at[r] \in {"seat", "push"} => own[r].then # "join"
      /\ at[r] # "done" => told[r] = None
      /\ own[r].then \in {"join", "touch", "answer"} /\ own[r].creates \in BOOLEAN
      /\ at[r] \in Step
      /\ None \notin {200, 201}
  BY NoneIsNoStatus DEF LocalsFit, Local
<1>b. active' \subseteq Request
  BY RoomsTypeStep
<1> USE DEF Early, Placed, Joined, ForItself, ForItsBots
<1> DEFINE P == /\ Early(r)' =>
                      \/ SeatsMade(r)
                      \/ Early(r) /\ own'[r].game = own[r].game
                /\ ForItself(r)' =>
                      /\ own'[r].game = own[r].game
                      /\ \/ ForItself(r)
                         \/ /\ table' = table /\ table[own[r].game].phase = "LOBBY"
                            /\ Len(table[own[r].game].seats) < MaxPlayers
                /\ at'[r] = "push" =>
                      /\ own'[r].game = own[r].game
                      /\ \/ at[r] = "push" /\ own'[r] = own[r]
                         \/ /\ table' = table /\ Len(table[own[r].game].seats) < MaxPlayers
                            /\ own'[r].first = (table[own[r].game].seats = << >>)
                /\ Placed(r)' =>
                      /\ own'[r].game = own[r].game /\ own'[r].creates = own[r].creates
                      /\ \/ Placed(r)
                         \/ ForItself(r) /\ SeatAdds(own[r].game, r)
                         \/ ForItself(r) /\ ~(Len(table[own[r].game].seats) < MaxPlayers)
<1>c. ASSUME at'[r] = at[r], own'[r] = own[r], told'[r] = told[r] PROVE P
  BY <1>c
<1>1. CASE AskToCreate(r) \/ DrawCode(r)
  <2>1. at'[r] \in {"code", "insert"} /\ at[r] # "done" /\ told' = told
    <3>1. CASE AskToCreate(r)
      BY <3>1, CreationAsked
    <3>2. CASE DrawCode(r)
      BY <3>2, CodeDrawn DEF DrawCode
    <3> QED
      BY <1>1, <3>1, <3>2
  <2> HIDE DEF Goto, Answer, RInv, RoomsTypeOK
  <2> QED
    BY <1>a, <2>1
<1>2. CASE Insert(r)
  BY <1>a, <1>b, <1>2 DEF Insert, Local, SeatsMade, NewGame
<1>3. CASE Load(r)
  BY <1>a, <1>b, <1>3 DEF Load, Local
<1>4. CASE Save(r)
  <2> HIDE DEF RInv, RoomsTypeOK
  <2>1. /\ at[r] = "save" /\ at'[r] = "write" /\ told' = told
        /\ own'[r].game = own[r].game /\ own'[r].creates = own[r].creates
        /\ own'[r].then = own[r].then
    BY <1>4, Saving
  <2> QED
    BY <1>a, <2>1
<1>5. CASE Write(r)
  <2> HIDE DEF RInv, RoomsTypeOK, Goto, Answer
  <2>1. /\ at[r] = "write"
        /\ own'[r].game = own[r].game /\ own'[r].creates = own[r].creates
        /\ own'[r].then = own[r].then
        /\ \/ own[r].then = "answer" /\ at'[r] = "done"
           \/ own[r].then # "answer" /\ at'[r] = own[r].then /\ told'[r] = told[r]
    BY <1>5, Writing
  <2> QED
    BY <1>a, <2>1
<1>6. CASE Lost(r)
  BY <1>a, <1>b, <1>6 DEF Lost, Local
<1>7. CASE CheckJoin(r)
  <2>1. CASE /\ own' = [own EXCEPT ![r].then = "touch"] /\ at' = [at EXCEPT ![r] = "seat"]
             /\ table' = table /\ told' = told
             /\ table[own[r].game].phase = "LOBBY" /\ Len(table[own[r].game].seats) < MaxPlayers
    <3>1. /\ own'[r].game = own[r].game /\ own'[r].creates = own[r].creates
          /\ own'[r].then = "touch" /\ at'[r] = "seat" /\ at[r] = "join"
      BY <1>7, <2>1 DEF Local, CheckJoin
    <3> HIDE DEF RInv, RoomsTypeOK, Goto, Answer
    <3> QED
      BY <1>a, <2>1, <3>1
  <2>2. CASE own' = own /\ at'[r] = "done" /\ told'[r] \in {400, 500}
    BY <1>a, <2>2
  <2> QED
    BY <1>7, <2>1, <2>2 DEF CheckJoin
<1>8. CASE PushPlayer(r)
  <2>1. /\ at[r] = "push" /\ own[r].game \in Request /\ told' = told
        /\ table' = [table EXCEPT ![own[r].game] =
                        SitDown(table[own[r].game], Newcomer(r), own[r].first)]
    BY <1>8 DEF PushPlayer
  <2>2. at'[r] = AfterSeat(r)
    BY <1>8 DEF PushPlayer, Goto
  <2>3. at'[r] = "save" \/ (at'[r] = "seat" /\ own[r].then # "touch")
    <3>1. own[r].then = "touch" => Newcomer(r) = r /\ r # Bot
      BY DEF Newcomer
    <3> QED
      BY <2>2, <3>1 DEF AfterSeat, NextBot
  <2>4. /\ own'[r].game = own[r].game /\ own'[r].then = own[r].then
        /\ own'[r].creates = own[r].creates
    BY <1>8, PlayerPushed
  <2>5. SeatAdds(own[r].game, r)
    BY <2>1, <2>3, <2>4 DEF SeatAdds
  <2> HIDE DEF RInv, RoomsTypeOK, Goto, Answer
  <2> QED
    BY <1>a, <2>1, <2>3, <2>4, <2>5
<1>20. CASE AddPlayer(r)
  <2>1. at[r] = "seat" /\ told' = told /\ table' = table
    BY <1>20 DEF AddPlayer
  <2>2. ~PushPlayer(r)
    BY <2>1 DEF PushPlayer
  <2>3. /\ own'[r].game = own[r].game /\ own'[r].then = own[r].then
        /\ own'[r].creates = own[r].creates
        /\ \/ /\ at'[r] = "push" /\ Len(table[own[r].game].seats) < MaxPlayers
              /\ own'[r].first = (table[own[r].game].seats = << >>)
           \/ /\ ~(Len(table[own[r].game].seats) < MaxPlayers)
              /\ at'[r] = AfterSeat(r)
    BY <1>20, <2>2, PlayerPushed
  <2>4. AfterSeat(r) = "save" \/ (AfterSeat(r) = "seat" /\ own[r].then # "touch")
    <3>1. own[r].then = "touch" => Newcomer(r) = r /\ r # Bot
      BY DEF Newcomer
    <3> QED
      BY <3>1 DEF AfterSeat, NextBot
  <2> HIDE DEF RInv, RoomsTypeOK, Goto, Answer
  <2> QED
    BY <1>a, <2>1, <2>3, <2>4
<1>9. CASE Touch(r)
  BY <1>a, <1>b, <1>9 DEF Touch, Local
<1>10. CASE CountBots(r)
  <2>1. at[r] = "bots" /\ own'[r].game = own[r].game /\ own'[r].creates = own[r].creates
        /\ \/ at'[r] = "done"
           \/ at'[r] = "seat" /\ own'[r].then = "answer"
    BY <1>10, BotsCounted
  <2> HIDE DEF RInv, RoomsTypeOK, Goto, Answer
  <2> QED
    BY <1>a, <2>1
<1>11. CASE Collect(r)
  BY <1>a, <1>b, <1>11 DEF Collect, Local
<1>12. CASE RemovedAll(r)
  BY <1>a, <1>b, <1>12 DEF RemovedAll, Local
<1>13. CASE \E g \in active : Ask(r, g)
  <2>1. at'[r] = "join" /\ told'[r] = None /\ own'[r].creates = FALSE
    BY <1>a, <1>13 DEF Ask, NoLocal
  <2> QED
    BY <1>a, <2>1
<1>14. CASE \E c \in Code : AskByCode(r, c)
  <2>1. \/ at'[r] = "join" /\ told'[r] = None /\ own'[r].creates = FALSE
        \/ at'[r] = "done" /\ told'[r] = 404
    BY <1>a, <1>14 DEF AskByCode, NoLocal
  <2> QED
    BY <1>a, <2>1
<1>15. CASE \E g \in own[r].stale : RemoveGame(r, g)
  BY <1>a, <1>b, <1>15 DEF RemoveGame, Local
<1>16. CASE HttpStep(r)
  <2> HIDE DEF P
  <2> QED
    BY <1>1, <1>2, <1>3, <1>4, <1>5, <1>6, <1>7, <1>8, <1>9, <1>10, <1>11, <1>12, <1>13, <1>14,
       <1>15, <1>16, <1>20 DEF HttpStep
<1>17. ASSUME NEW s \in Request, s # r, HttpStep(s) PROVE P
  <2> HIDE DEF P
  <2> QED
    BY <1>c, <1>17, OthersStay
<1>18. CASE WebSocketStep \/ \E g \in active : Idle(g)
  <2> HIDE DEF P
  <2> QED
    BY <1>c, <1>18, RequestsStay
<1>19. P
  <2> HIDE DEF RInv, RoomsTypeOK, Goto, Answer, Early, Placed, Joined, ForItself, ForItsBots
  <2>1. CASE \E s \in Request : HttpStep(s)
    BY <1>16, <1>17, <2>1
  <2> QED
    BY <1>18, <2>1 DEF Next
<1> QED
  BY <1>19

(* Once it is at somebody's table, nobody else can be.                     *)
LEMMA NobodyElse ==
    ASSUME NEW g \in Request, NEW r \in Request, ~Crowded(g), g \in Holds(r)
    PROVE  /\ \A s \in Request : s # r => g \notin Holds(s)
           /\ ~(serving.step # "idle" /\ serving.game = g)
BY DEF Crowded

(* What was found at a table stays so, and a seat taken is kept.           *)
LEMMA SeatsStep == RInv /\ LocalsFit /\ SeatsKept /\ Next => SeatsKept'
<1> SUFFICES ASSUME RInv, LocalsFit, SeatsKept, Next, NEW g \in active', g \notin raced'
             PROVE  /\ Len(table'[g].seats) =< MaxPlayers
                    /\ \A r \in Request : own'[r].game = g =>
                         /\ Early(r)' => table'[g].seats = << >>
                         /\ StillFree(r, g)'
                         /\ (Placed(r)' /\ r \notin left') =>
                               PlaysAt(table'[g], r, own'[r].creates)
  BY DEF SeatsKept
<1>1. g \in Request /\ g \notin raced /\ ~Crowded(g) /\ ~Crowded(g)'
  <2>1. g \in Request
    BY RoomsTypeStep DEF RoomsTypeOK
  <2> QED
    BY <2>1, NotCrowded
<1>2. table[g] \in Table /\ table[g].seats \in Seq(Seat) /\ Len(table[g].seats) \in Nat
      /\ (g \in active => Len(table[g].seats) =< MaxPlayers)
  <2>1. g \in active => Len(table[g].seats) =< MaxPlayers
    BY <1>1 DEF SeatsKept
  <2>2. table[g] \in Table
    BY <1>1 DEF RInv, RoomsTypeOK
  <2> QED
    BY <2>1, <2>2 DEF Table
<1>3. SeatsMade(g) \/ g \in active
  <2>1. TableMade(g) => SeatsMade(g)
    BY DEF TableMade, SeatsMade, NewGame
  <2> QED
    BY <1>1, <2>1, MapsStep
<1>4. \/ table'[g] = table[g]
      \/ SeatsMade(g)
      \/ \E s \in Request : SeatAdds(g, s)
      \/ Deals(g)
      \/ \E p \in Request : Leaves(g, p)
  BY <1>1, TableMoves
<1>5. ASSUME NEW s \in Request, SeatAdds(g, s)
      PROVE  /\ g \in Holds(s) /\ g \in Holds(s)' /\ g \in active
             /\ Len(table[g].seats) < MaxPlayers
             /\ own[s].first = (table[g].seats = << >>) /\ own[s].first \in BOOLEAN
             /\ ForItself(s) => table[g].phase = "LOBBY"
  <2>1. at[s] = "push" /\ own[s].game = g /\ own'[s].game = g /\ at'[s] \in {"save", "seat"}
    BY <1>5 DEF SeatAdds
  <2>2. g \in Holds(s) /\ g \in Holds(s)'
    BY <2>1 DEF Holds
  <2>3. ~SeatsMade(g)
    BY <1>1, <2>1 DEF SeatsMade, LocalsFit
  <2>4. own[s].first \in BOOLEAN
    BY DEF RInv, RoomsTypeOK, Local
  <2>5. StillFree(s, g)
    BY <1>1, <1>3, <2>1, <2>3 DEF SeatsKept
  <2> QED
    BY <1>3, <2>1, <2>2, <2>3, <2>4, <2>5 DEF StillFree
<1>6. ASSUME NEW r \in Request, g \in Holds(r)'
      PROVE  ~Deals(g) /\ \A p \in Request : ~Leaves(g, p)
  BY <1>1, <1>6 DEF Deals, Leaves, Crowded
<1>7. ASSUME NEW r \in Request, own[r].game = g, at[r] # "insert"
      PROVE  ~SeatsMade(g) /\ g \in active
  <2>1. at[g] # "insert"
    BY <1>1, <1>7 DEF LocalsFit
  <2> QED
    BY <1>3, <2>1 DEF SeatsMade
<1>8. ASSUME NEW s \in Request, SeatAdds(g, s)
      PROVE  Len(table'[g].seats) = Len(table[g].seats) + 1
  BY <1>2, <1>5, <1>8, PlayerAdded, NewcomerSits DEF SeatAdds
<1>9. Len(table'[g].seats) =< MaxPlayers
  <2>1. CASE SeatsMade(g)
    BY <2>1 DEF SeatsMade
  <2>2. CASE \E s \in Request : SeatAdds(g, s)
    BY <1>2, <1>5, <1>8, <2>2
  <2>3. CASE g \in active /\ Deals(g)
    BY <1>2, <2>3, TableDealt DEF Deals
  <2>4. CASE g \in active /\ \E p \in Request : Leaves(g, p)
    <3>1. PICK i \in 1..Len(table[g].seats) : table'[g] = GiveUpSeat(table[g], i)
      BY <2>4 DEF Leaves
    <3> QED
      BY <1>2, <2>4, <3>1, TableLeft
  <2> QED
    BY <1>2, <1>3, <1>4, <2>1, <2>2, <2>3, <2>4
<1>10. ASSUME NEW r \in Request, own'[r].game = g, Early(r)'
       PROVE  table'[g].seats = << >>
  <2>1. CASE SeatsMade(r)
    <3>1. own'[r].creates
      BY <1>10 DEF Early
    <3>2. own'[r].game = r
      BY <3>1, LocalsStep DEF LocalsFit
    <3> QED
      BY <1>10, <2>1, <3>2 DEF SeatsMade
  <2>2. CASE Early(r) /\ own[r].game = g
    <3>1. g \in Holds(r) /\ g \in Holds(r)' /\ at[r] # "insert"
      BY <1>10, <2>2 DEF Early, ForItself, Holds
    <3>2. ~SeatsMade(g) /\ g \in active
      BY <1>7, <2>2, <3>1
    <3>3. table[g].seats = << >>
      BY <1>1, <2>2, <3>2 DEF SeatsKept
    <3>4. ASSUME NEW s \in Request, SeatAdds(g, s) PROVE FALSE
      <4>1. s = r
        BY <1>1, <1>5, <3>1, <3>4, NobodyElse
      <4>2. own[r].then # "join"
        BY <3>4, <4>1 DEF SeatAdds, LocalsFit
      <4> QED
        BY <1>10, <3>4, <4>1, <4>2 DEF Early, ForItself, SeatAdds
    <3> QED
      BY <1>4, <1>6, <3>1, <3>2, <3>3, <3>4
  <2> QED
    BY <1>10, <2>1, <2>2, SeatMoves
<1>11. ASSUME NEW r \in Request, own'[r].game = g, g \in Holds(r), own[r].game = g,
              at[r] \in {"seat", "push"}, at'[r] \in {"seat", "push"}, ~SeatAdds(g, r)
       PROVE  g \in active /\ table'[g] = table[g]
  <2>1. g \in Holds(r)'
    BY <1>11 DEF Holds
  <2>2. ~SeatsMade(g) /\ g \in active
    BY <1>7, <1>11
  <2>3. ASSUME NEW s \in Request, SeatAdds(g, s) PROVE FALSE
    BY <1>1, <1>5, <1>11, <2>3, NobodyElse
  <2> QED
    BY <1>4, <1>6, <2>1, <2>2, <2>3
<1>12. ASSUME NEW r \in Request, own'[r].game = g, ForItself(r)'
       PROVE  table'[g].phase = "LOBBY" /\ Len(table'[g].seats) < MaxPlayers
  <2>1. own[r].game = g
    BY <1>12, SeatMoves
  <2>2. CASE /\ table' = table /\ table[own[r].game].phase = "LOBBY"
             /\ Len(table[own[r].game].seats) < MaxPlayers
    BY <2>1, <2>2
  <2>3. CASE ForItself(r)
    <3>1. g \in Holds(r) /\ at[r] \in {"seat", "push"} /\ at'[r] \in {"seat", "push"}
      BY <1>12, <2>1, <2>3 DEF ForItself, Holds
    <3>2. ~SeatAdds(g, r)
      BY <1>12, <2>3 DEF ForItself, SeatAdds
    <3>3. g \in active /\ table'[g] = table[g]
      BY <1>11, <1>12, <2>1, <3>1, <3>2
    <3>4. StillFree(r, g)
      BY <1>1, <2>1, <3>3 DEF SeatsKept
    <3> QED
      BY <2>3, <3>3, <3>4 DEF StillFree
  <2> QED
    BY <1>12, <2>2, <2>3, SeatMoves
<1>13. ASSUME NEW r \in Request, own'[r].game = g, at'[r] = "push"
       PROVE  /\ Len(table'[g].seats) < MaxPlayers
              /\ own'[r].first = (table'[g].seats = << >>)
  <2>1. own[r].game = g
    BY <1>13, SeatMoves
  <2>2. CASE /\ table' = table /\ Len(table[own[r].game].seats) < MaxPlayers
             /\ own'[r].first = (table[own[r].game].seats = << >>)
    BY <2>1, <2>2
  <2>3. CASE at[r] = "push" /\ own'[r] = own[r]
    <3>1. g \in Holds(r) /\ ~SeatAdds(g, r)
      BY <1>13, <2>1, <2>3 DEF Holds, SeatAdds
    <3>2. g \in active /\ table'[g] = table[g]
      BY <1>11, <1>13, <2>1, <2>3, <3>1
    <3>3. StillFree(r, g)
      BY <1>1, <2>1, <3>2 DEF SeatsKept
    <3> QED
      BY <2>3, <3>2, <3>3 DEF StillFree
  <2> QED
    BY <1>13, <2>2, <2>3, SeatMoves
<1>14. ASSUME NEW r \in Request, own'[r].game = g, Placed(r)', r \notin left'
       PROVE  PlaysAt(table'[g], r, own'[r].creates)
  <2>1. own[r].game = g /\ own'[r].creates = own[r].creates /\ r \in Seat
    BY <1>14, SeatMoves DEF Seat
  <2>2. CASE ForItself(r) /\ SeatAdds(g, r)
    <3>1. table'[g] = SitDown(table[g], r, own[r].first) /\ at[r] = "push"
      BY <2>2 DEF SeatAdds, ForItself, Newcomer
    <3>2. own[r].creates => own[r].first
      <4>1. own[r].creates => Early(r)
        BY <2>2 DEF Early
      <4>2. Early(r) => table[g].seats = << >>
        BY <1>1, <1>5, <2>1, <2>2 DEF SeatsKept
      <4> QED
        BY <1>5, <2>2, <4>1, <4>2
    <3>3. PlaysAt(SitDown(table[g], r, own[r].first), r, own[r].creates)
      BY <1>2, <1>5, <2>1, <2>2, <3>2, SeatTaken
    <3> QED
      BY <2>1, <3>1, <3>3
  <2>3. CASE ForItself(r) /\ ~(Len(table[g].seats) < MaxPlayers)
    <3>1. at[r] # "insert"
      BY <2>3 DEF ForItself
    <3>2. StillFree(r, g)
      BY <1>1, <1>7, <2>1, <3>1 DEF SeatsKept
    <3> QED
      BY <2>3, <3>2 DEF StillFree
  <2>4. CASE Placed(r)
    <3>1. at[r] # "insert" /\ r \notin left
      <4>1. at[r] = "insert" => told[r] = None
        BY DEF LocalsFit
      <4>2. left \subseteq left'
        BY DEF Next, HttpStep, WebSocketStep, AskToCreate, DrawCode, Insert, Load, Save, Write,
               Lost, Ask, AskByCode, CheckJoin, AddPlayer, PushPlayer, Touch, CountBots, Collect,
               RemovedAll, RemoveGame, StartGame, SaveStarted, WriteStarted, TouchServed,
               LeaveGame, Refresh, Idle, ws
      <4> QED
        BY <1>14, <2>4, <4>1, <4>2, NoneIsNoStatus DEF Placed, Joined, ForItsBots
    <3>2. ~SeatsMade(g) /\ g \in active
      BY <1>7, <2>1, <3>1
    <3>3. PlaysAt(table[g], r, own[r].creates)
      BY <1>1, <2>1, <2>4, <3>1, <3>2 DEF SeatsKept
    <3>4. /\ table[g].seats # << >>
          /\ \A q \in Seat : PlaysAt(SitDown(table[g], q, FALSE), r, own[r].creates)
          /\ PlaysAt(Deal(table[g]), r, own[r].creates)
          /\ \A i \in 1..Len(table[g].seats) :
                table[g].seats[i] # r => PlaysAt(GiveUpSeat(table[g], i), r, own[r].creates)
      BY <1>2, <3>3, PlaysOn
    <3>5. ASSUME NEW s \in Request, SeatAdds(g, s)
          PROVE  PlaysAt(table'[g], r, own[r].creates)
      <4>1. own[s].first = FALSE
        BY <1>5, <3>4, <3>5
      <4> QED
        BY <3>4, <3>5, <4>1, NewcomerSits DEF SeatAdds
    <3>6. ASSUME Deals(g) PROVE PlaysAt(table'[g], r, own[r].creates)
      BY <3>4, <3>6 DEF Deals
    <3>7. ASSUME NEW p \in Request, Leaves(g, p)
          PROVE  PlaysAt(table'[g], r, own[r].creates)
      <4>1. p # r
        BY <1>14, <3>7 DEF Leaves
      <4> QED
        BY <3>4, <3>7, <4>1 DEF Leaves
    <3>8. ASSUME table'[g] = table[g] PROVE PlaysAt(table'[g], r, own[r].creates)
      BY <3>3, <3>8
    <3> QED
      BY <1>4, <2>1, <3>2, <3>5, <3>6, <3>7, <3>8
  <2> QED
    BY <1>14, <2>1, <2>2, <2>3, <2>4, SeatMoves
<1>15. ASSUME NEW r \in Request, own'[r].game = g PROVE StillFree(r, g)'
  BY <1>12, <1>13, <1>15 DEF StillFree
<1> QED
  BY <1>9, <1>10, <1>14, <1>15

-----------------------------------------------------------------------------

(* Who writes a row, and what.                                             *)
LEMMA RowMoves ==
    ASSUME RInv, Next, NEW g \in Request
    PROVE  /\ \/ row'[g] = row[g]
              \/ \E s \in Request :
                    at[s] = "write" /\ own[s].game = g /\ row'[g] = own[s].snapshot
              \/ serving.step = "write" /\ serving.game = g /\ row'[g] = serving.snapshot
              \/ g \notin active' /\ row'[g] = NoRow
           /\ g \in active \ active' => row'[g] = NoRow
<1> USE DEF RInv, RoomsTypeOK
<1>1. CASE UNCHANGED row /\ active \subseteq active'
  BY <1>1
<1>2. ASSUME NEW s \in Request, Write(s)
      PROVE  /\ active' = active
             /\ \/ row'[g] = row[g]
                \/ at[s] = "write" /\ own[s].game = g /\ row'[g] = own[s].snapshot
  BY <1>2 DEF Write, maps
<1>3. CASE WriteStarted
  BY <1>3 DEF WriteStarted, maps
<1>4. ASSUME NEW s \in Request, NEW h \in own[s].stale, RemoveGame(s, h)
      PROVE  /\ active' = active \ {h} /\ row' = [row EXCEPT ![h] = NoRow]
  BY <1>4 DEF RemoveGame
<1>5. ASSUME NEW s \in Request, HttpStep(s), ~Write(s),
             ~\E h \in own[s].stale : RemoveGame(s, h)
      PROVE  UNCHANGED row /\ active \subseteq active'
  <2> HIDE DEF RInv, RoomsTypeOK
  <2>1. CASE Insert(s)
    BY <2>1 DEF Insert, maps
  <2>2. ASSUME AskToCreate(s) \/ DrawCode(s) \/ Load(s) \/ Save(s) \/ Lost(s) \/ (\E h \in active : Ask(s, h))
               \/ (\E c \in Code : AskByCode(s, c))
        PROVE  UNCHANGED <<row, active>>
    BY <2>2 DEF AskToCreate, DrawCode, Load, Save, Lost, Ask, AskByCode, maps
  <2>3. ASSUME CheckJoin(s) \/ AddPlayer(s) \/ PushPlayer(s) \/ Touch(s) \/ CountBots(s)
               \/ Collect(s) \/ RemovedAll(s)
        PROVE  UNCHANGED <<row, active>>
    BY <2>3 DEF CheckJoin, AddPlayer, PushPlayer, Touch, CountBots, Collect, RemovedAll, maps
  <2> QED
    BY <1>5, <2>1, <2>2, <2>3 DEF HttpStep
<1>6. ASSUME WebSocketStep \/ \E h \in active : Idle(h)
      PROVE  UNCHANGED active /\ (UNCHANGED row \/ WriteStarted)
  BY <1>6 DEF WebSocketStep, StartGame, SaveStarted, WriteStarted, TouchServed, LeaveGame, Refresh, Idle, maps
<1>7. CASE \E s \in Request : HttpStep(s)
  <2>1. PICK s \in Request : HttpStep(s)
    BY <1>7
  <2>2. CASE Write(s)
    BY <1>2, <2>2
  <2>3. CASE \E h \in own[s].stale : RemoveGame(s, h)
    <3>1. PICK h \in own[s].stale : RemoveGame(s, h)
      BY <2>3
    <3>2. active' = active \ {h} /\ row' = [row EXCEPT ![h] = NoRow]
      BY <1>4, <3>1
    <3> QED
      BY <3>2
  <2> QED
    BY <1>1, <1>5, <2>1, <2>2, <2>3
<1> QED
  BY <1>1, <1>3, <1>6, <1>7 DEF Next

(* What toJson has shown a thread is kept until it is written, and it is   *)
(* written unless the game is gone.                                        *)
LEMMA SnapshotMoves ==
    ASSUME RInv, LocalsFit, Next, NEW r \in Request
    PROVE  /\ at'[r] = "write" =>
                 /\ own'[r].game = own[r].game
                 /\ \/ at[r] = "write" /\ own'[r].snapshot = own[r].snapshot
                    \/ /\ table' = table
                       /\ own'[r].snapshot.phase = table[own[r].game].phase
                       /\ own'[r].snapshot.seats = table[own[r].game].seats
           /\ (at[r] \in {"load", "seat", "push", "save", "write"} /\ own[r].game \in active) =>
                 \/ at'[r] \in {"load", "seat", "push", "save", "write"} /\ own'[r].game = own[r].game
                 \/ at[r] = "write" /\ table' = table /\ row'[own[r].game] = own[r].snapshot
<1> USE DEF RInv, RoomsTypeOK, Goto, Answer
<1>a. /\ at[r] \in Step /\ own[r].then \in {"join", "touch", "answer"}
  BY DEF Local
<1> DEFINE P == /\ at'[r] = "write" =>
                      /\ own'[r].game = own[r].game
                      /\ \/ at[r] = "write" /\ own'[r].snapshot = own[r].snapshot
                         \/ /\ table' = table
                            /\ own'[r].snapshot.phase = table[own[r].game].phase
                            /\ own'[r].snapshot.seats = table[own[r].game].seats
                /\ (at[r] \in {"load", "seat", "push", "save", "write"} /\ own[r].game \in active) =>
                      \/ at'[r] \in {"load", "seat", "push", "save", "write"} /\ own'[r].game = own[r].game
                      \/ /\ at[r] = "write" /\ table' = table
                         /\ row'[own[r].game] = own[r].snapshot
<1>c. ASSUME at'[r] = at[r], own'[r] = own[r] PROVE P
  BY <1>c
<1>1. CASE AskToCreate(r) \/ DrawCode(r)
  <2>1. at[r] \in {"new", "code"} /\ at'[r] \in {"code", "insert"}
    <3>1. CASE AskToCreate(r)
      BY <3>1 DEF AskToCreate
    <3>2. CASE DrawCode(r)
      BY <3>2, CodeDrawn
    <3> QED
      BY <1>1, <3>1, <3>2
  <2> HIDE DEF RInv, RoomsTypeOK, Goto, Answer
  <2> QED
    BY <2>1
<1>2. CASE Insert(r)
  BY <1>a, <1>2 DEF Insert
<1>3. CASE Load(r)
  BY <1>a, <1>3 DEF Load, Local
<1>4. CASE Lost(r)
  BY <1>a, <1>4 DEF Lost
<1>5. CASE CheckJoin(r)
  BY <1>a, <1>5 DEF CheckJoin
<1>6. CASE AddPlayer(r) \/ PushPlayer(r)
  <2>1. at[r] \in {"seat", "push"}
    BY <1>6 DEF AddPlayer, PushPlayer
  <2>2. own'[r].game = own[r].game /\ at'[r] \in {"push", "seat", "save"}
    BY <1>6, PlayerPushed DEF AfterSeat
  <2> HIDE DEF RInv, RoomsTypeOK, Goto, Answer
  <2> QED
    BY <2>1, <2>2
<1>7. CASE Touch(r)
  BY <1>a, <1>7 DEF Touch
<1>8. CASE CountBots(r)
  <2>1. at[r] = "bots" /\ at'[r] \in {"done", "seat"}
    BY <1>8, BotsCounted
  <2> HIDE DEF RInv, RoomsTypeOK, Goto, Answer
  <2> QED
    BY <2>1
<1>9. CASE Collect(r)
  BY <1>a, <1>9 DEF Collect
<1>10. CASE RemovedAll(r)
  BY <1>a, <1>10 DEF RemovedAll
<1>11. CASE Write(r)
  <2>1. at[r] = "write" /\ at'[r] \in {"done", "join", "touch"}
    BY <1>a, <1>11 DEF Write
  <2>2. table' = table /\ row' = [row EXCEPT ![own[r].game] = own[r].snapshot]
    BY <1>11 DEF Write
  <2>3. own[r].game \in active => row'[own[r].game] = own[r].snapshot
    BY <2>2
  <2> HIDE DEF RInv, RoomsTypeOK, Goto, Answer
  <2> QED
    BY <2>1, <2>2, <2>3
<1>12. CASE Save(r)
  <2> HIDE DEF RInv, RoomsTypeOK
  <2>1. /\ at[r] = "save" /\ at'[r] = "write" /\ own'[r].game = own[r].game
        /\ own'[r].snapshot = [phase |-> table[own[r].game].phase,
                               seats |-> table[own[r].game].seats]
    BY <1>12, Saving
  <2>2. /\ own'[r].snapshot.phase = table[own[r].game].phase
        /\ own'[r].snapshot.seats = table[own[r].game].seats
    BY <2>1
  <2>3. table' = table
    BY <1>12 DEF Save
  <2> HIDE DEF Goto, Answer
  <2> QED
    BY <2>1, <2>2, <2>3
<1>13. CASE \E g \in active : Ask(r, g)
  BY <1>a, <1>13 DEF Ask
<1>14. CASE \E c \in Code : AskByCode(r, c)
  BY <1>a, <1>14 DEF AskByCode
<1>15. CASE \E g \in own[r].stale : RemoveGame(r, g)
  BY <1>a, <1>15 DEF RemoveGame
<1>16. CASE HttpStep(r)
  BY <1>1, <1>2, <1>3, <1>4, <1>5, <1>6, <1>7, <1>8, <1>9, <1>10, <1>11, <1>12, <1>13, <1>14, <1>15, <1>16 DEF HttpStep
<1>17. ASSUME NEW s \in Request, s # r, HttpStep(s) PROVE P
  BY <1>c, <1>17, OthersStay
<1>18. CASE WebSocketStep \/ \E g \in active : Idle(g)
  BY <1>c, <1>18, RequestsStay
<1> HIDE DEF RInv, RoomsTypeOK, Goto, Answer
<1>19. CASE \E s \in Request : HttpStep(s)
  BY <1>16, <1>17, <1>19
<1> QED
  BY <1>18, <1>19 DEF Next

(* So does the WebSocket thread when it has started a game.                *)
LEMMA StartMoves ==
    ASSUME RInv, Next
    PROVE  /\ serving'.step = "write" =>
                 /\ serving'.game = serving.game
                 /\ \/ serving' = serving
                    \/ /\ table' = table
                       /\ serving'.snapshot.phase = table[serving.game].phase
                       /\ serving'.snapshot.seats = table[serving.game].seats
           /\ (serving.step \in {"save", "write"} /\ serving.game \in active) =>
                 \/ serving'.step \in {"save", "write"} /\ serving'.game = serving.game
                 \/ /\ serving.step = "write" /\ table' = table
                    /\ row'[serving.game] = serving.snapshot
<1> USE DEF RInv, RoomsTypeOK
<1>1. CASE serving' = serving
  BY <1>1
<1>2. CASE \E s \in Request : HttpStep(s)
  <2> HIDE DEF RInv, RoomsTypeOK
  <2> QED
    BY <1>1, <1>2, OthersStay
<1>3. CASE \E g \in active : StartGame(g)
  BY <1>3 DEF StartGame
<1>4. CASE SaveStarted
  <2> DEFINE x == [phase |-> table[serving.game].phase, seats |-> table[serving.game].seats]
  <2>1. CASE serving.game \in active
    <3>1. serving' = [serving EXCEPT !.step = "write", !.snapshot = x] /\ table' = table
      BY <1>4, <2>1 DEF SaveStarted
    <3> HIDE DEF x
    <3>2. serving'.step = "write" /\ serving'.game = serving.game /\ serving'.snapshot = x
      BY <3>1
    <3> QED
      BY <3>1, <3>2 DEF x
  <2>2. CASE serving.game \notin active
    BY <1>4, <2>2 DEF SaveStarted, NotServing
  <2> QED
    BY <2>1, <2>2
<1>5. CASE WriteStarted
  <2>1. serving'.step = "touch" /\ serving.step = "write" /\ table' = table
    BY <1>5 DEF WriteStarted, NotServing
  <2>2. serving.game \in active => row'[serving.game] = serving.snapshot
    BY <1>5 DEF WriteStarted
  <2> QED
    BY <2>1, <2>2
<1>7. CASE TouchServed
  BY <1>7 DEF TouchServed, NotServing
<1>6. CASE \E p \in Request, g \in active : LeaveGame(p, g) \/ Refresh(p, g)
  <2>1. PICK p \in Request, g \in active : LeaveGame(p, g) \/ Refresh(p, g)
    BY <1>6
  <2>2. serving.step = "idle" /\ serving' = [serving EXCEPT !.step = "touch", !.game = g]
    BY <2>1 DEF LeaveGame, Refresh
  <2>3. serving'.step = "touch"
    BY <2>2
  <2> QED
    BY <2>2, <2>3
<1>8. CASE \E g \in active : Idle(g)
  BY <1>1, <1>8 DEF Idle, ws
<1> QED
  BY <1>2, <1>3, <1>4, <1>5, <1>6, <1>7, <1>8 DEF Next, WebSocketStep

(* Rows follow the tables.                                                 *)
LEMMA RowsStep ==
    RInv /\ RInv' /\ LocalsFit /\ HeldExist /\ RowsKept /\ Next => RowsKept'
<1> SUFFICES ASSUME RInv, RInv', LocalsFit, HeldExist, RowsKept, Next,
                    NEW g \in Request, g \notin raced'
             PROVE  /\ g \in active' => Shows(row'[g], table'[g]) \/ Unsaved(g)'
                    /\ g \notin active' => row'[g] = NoRow
                    /\ \A r \in Request : at'[r] = "write" /\ own'[r].game = g =>
                          Shows(own'[r].snapshot, table'[g])
                    /\ serving'.step = "write" /\ serving'.game = g =>
                          Shows(serving'.snapshot, table'[g])
  BY DEF RowsKept
<1>1. g \notin raced /\ ~Crowded(g) /\ ~Crowded(g)'
  BY NotCrowded
<1>2. /\ g \in active => Shows(row[g], table[g]) \/ Unsaved(g)
      /\ g \notin active => row[g] = NoRow
      /\ \A r \in Request : at[r] = "write" /\ own[r].game = g =>
            Shows(own[r].snapshot, table[g])
      /\ serving.step = "write" /\ serving.game = g => Shows(serving.snapshot, table[g])
  BY <1>1 DEF RowsKept
<1>3. table[g] \in Table /\ table[g].seats \in Seq(Seat)
  BY DEF RInv, RoomsTypeOK, Table
<1>4. /\ \A r \in Request : g \in Holds(r) => g \in active
      /\ serving.step # "idle" /\ serving.game = g => g \in active
  BY <1>1 DEF HeldExist
<1>5. \A r \in Request : at[r] = "write" /\ own[r].game = g => g \in Holds(r)
  BY DEF Holds
<1>6. SeatsMade(g) => g \notin active /\ Unsaved(g)'
  <2> SUFFICES ASSUME SeatsMade(g) PROVE g \notin active /\ Unsaved(g)'
    OBVIOUS
  <2>1. own'[g].creates /\ own'[g].game = g
    BY LocalsStep DEF LocalsFit, SeatsMade
  <2> QED
    BY <2>1 DEF SeatsMade, RInv, UnbornUnknown, Unsaved
<1>7. ASSUME NEW s \in Request, SeatAdds(g, s)
      PROVE  g \in Holds(s) /\ at[s] # "write" /\ Unsaved(g)'
  BY <1>7 DEF SeatAdds, Holds, Unsaved
<1>8. Deals(g) => Unsaved(g)' /\ \A r \in Request : g \notin Holds(r)'
  BY <1>1 DEF Deals, Unsaved, Crowded
<1>9. ASSUME NEW p \in Request, Leaves(g, p)
      PROVE  table'[g].phase = table[g].phase /\ Range(table'[g].seats) \subseteq Range(table[g].seats)
  <2>1. PICK i \in 1..Len(table[g].seats) : table'[g] = GiveUpSeat(table[g], i)
    BY <1>9 DEF Leaves
  <2>2. Range(RemoveAt(table[g].seats, i)) \subseteq Range(table[g].seats)
    BY <1>3, OthersStaySeated
  <2> DEFINE w == RemoveAt(table[g].seats, i)
  <2> HIDE DEF w
  <2>3. GiveUpSeat(table[g], i).seats = w /\ GiveUpSeat(table[g], i).phase = table[g].phase
    BY <1>3 DEF GiveUpSeat, Table, w
  <2> QED
    BY <2>1, <2>2, <2>3 DEF w
<1>10. \/ /\ table'[g].phase = table[g].phase
          /\ Range(table'[g].seats) \subseteq Range(table[g].seats)
       \/ SeatsMade(g)
       \/ \E s \in Request : SeatAdds(g, s)
       \/ Deals(g)
  BY <1>9, TableMoves
<1>11. ASSUME NEW x, Shows(x, table[g]), ~Unsaved(g)' PROVE Shows(x, table'[g])
  BY <1>6, <1>7, <1>8, <1>10, <1>11 DEF Shows
<1>12. g \in active' => Shows(row'[g], table'[g]) \/ Unsaved(g)'
  <2> SUFFICES ASSUME g \in active', ~Unsaved(g)' PROVE Shows(row'[g], table'[g])
    OBVIOUS
  <2>1. g \in active
    <3>1. TableMade(g) => SeatsMade(g)
      BY DEF TableMade, SeatsMade, NewGame
    <3> QED
      BY <1>6, <3>1, MapsStep
  <2>2. CASE Shows(row[g], table[g])
    <3>1. Shows(row'[g], table[g])
      BY <1>2, <2>2, RowMoves
    <3> QED
      BY <1>11, <3>1
  <2>3. CASE Unsaved(g)
    <3>1. ASSUME NEW r \in Request, at[r] \in {"load", "seat", "push", "save", "write"}, own[r].game = g
          PROVE  at[r] = "write" /\ table' = table /\ row'[g] = own[r].snapshot
      <4>1. ~(at'[r] \in {"load", "seat", "push", "save", "write"} /\ own'[r].game = g)
        BY DEF Unsaved
      <4> QED
        BY <2>1, <3>1, <4>1, SnapshotMoves
    <3>2. ASSUME serving.step \in {"save", "write"}, serving.game = g
          PROVE  serving.step = "write" /\ table' = table /\ row'[g] = serving.snapshot
      <4>1. ~(serving'.step \in {"save", "write"} /\ serving'.game = g)
        BY DEF Unsaved
      <4> QED
        BY <2>1, <3>2, <4>1, StartMoves
    <3> QED
      BY <1>2, <2>3, <3>1, <3>2 DEF Unsaved
  <2> QED
    BY <1>2, <2>1, <2>2, <2>3
<1>13. g \notin active' => row'[g] = NoRow
  <2>1. g \notin active => ~\E s \in Request : at[s] = "write" /\ own[s].game = g
    BY <1>4, <1>5
  <2> QED
    BY <1>2, <1>4, <2>1, RowMoves
<1>14. ASSUME NEW r \in Request, at'[r] = "write", own'[r].game = g
       PROVE  Shows(own'[r].snapshot, table'[g])
  <2>1. own[r].game = g
    BY <1>14, SnapshotMoves
  <2>2. CASE /\ table' = table
             /\ own'[r].snapshot.phase = table[own[r].game].phase
             /\ own'[r].snapshot.seats = table[own[r].game].seats
    BY <2>1, <2>2 DEF Shows
  <2>3. CASE at[r] = "write" /\ own'[r].snapshot = own[r].snapshot
    <3>1. g \in Holds(r) /\ g \in Holds(r)' /\ g \in active
      BY <1>4, <1>5, <1>14, <2>1, <2>3 DEF Holds
    <3>2. ASSUME NEW s \in Request, SeatAdds(g, s) PROVE FALSE
      <4>1. s # r
        BY <1>7, <2>3, <3>2
      <4> QED
        BY <1>1, <1>7, <3>1, <3>2, <4>1, NobodyElse
    <3>3. Shows(own[r].snapshot, table[g])
      BY <1>2, <2>1, <2>3
    <3> QED
      BY <1>6, <1>8, <1>10, <2>3, <3>1, <3>2, <3>3 DEF Shows
  <2> QED
    BY <1>14, <2>2, <2>3, SnapshotMoves
<1>15. ASSUME serving'.step = "write", serving'.game = g
       PROVE  Shows(serving'.snapshot, table'[g])
  <2>1. serving.game = g
    BY <1>15, StartMoves
  <2>2. CASE /\ table' = table
             /\ serving'.snapshot.phase = table[serving.game].phase
             /\ serving'.snapshot.seats = table[serving.game].seats
    BY <2>1, <2>2 DEF Shows
  <2>3. CASE serving' = serving
    <3>1. serving.step = "write" /\ g \in active
      BY <1>4, <1>15, <2>1, <2>3
    <3>2. ASSUME NEW s \in Request, SeatAdds(g, s) PROVE FALSE
      BY <1>1, <1>7, <2>1, <3>1, <3>2, NobodyElse
    <3>3. ~Deals(g)
      BY <1>15 DEF Deals
    <3>4. Shows(serving.snapshot, table[g])
      BY <1>2, <2>1, <3>1
    <3> QED
      BY <1>6, <1>10, <2>3, <3>1, <3>2, <3>3, <3>4 DEF Shows
  <2> QED
    BY <1>15, <2>2, <2>3, StartMoves
<1> QED
  BY <1>12, <1>13, <1>14, <1>15

(* What holds of a game nobody else is at, between any two steps.          *)
THEOREM UnracedInvariance == Spec => []OInv
<1>1. Init => OInv
  <2> SUFFICES ASSUME Init PROVE OInv
    OBVIOUS
  <2>1. LocalsFit
    BY DEF Init, LocalsFit, NoLocal
  <2>2. HeldExist
    BY DEF Init, HeldExist, Holds
  <2>3. SeatsKept
    BY DEF Init, SeatsKept
  <2>4. RowsKept
    BY DEF Init, RowsKept
  <2> QED
    BY <2>1, <2>2, <2>3, <2>4, RoomsInit DEF OInv
<1>2. OInv /\ RInv' /\ Next => OInv'
  BY LocalsStep, HeldStep, SeatsStep, RowsStep DEF OInv
<1>3. OInv /\ RInv' /\ UNCHANGED vars => OInv'
  <2> SUFFICES ASSUME OInv, RInv', UNCHANGED vars PROVE OInv'
    OBVIOUS
  <2> USE DEF OInv, vars
  <2>1. LocalsFit'
    BY DEF LocalsFit
  <2>2. HeldExist'
    BY DEF HeldExist, Holds
  <2>3. SeatsKept'
    BY DEF SeatsKept, StillFree, Early, Placed, ForItself, ForItsBots, Joined, PlaysAt
  <2>4. RowsKept'
    BY DEF RowsKept, Shows, Unsaved
  <2> QED
    BY <2>1, <2>2, <2>3, <2>4
<1> QED
  BY <1>1, <1>2, <1>3, RoomsInvariance, PTL DEF Spec

(* There are never more games than the server is configured for, nor more  *)
(* players at a table no two threads were at together than it has seats,   *)
(* with any number of requests, limits and bots.                           *)
THEOREM LimitsAreKept == Spec => []LimitsHold
<1>1. OInv => LimitsHold
  BY DEF OInv, RInv, SeatsKept, LimitsHold
<1> QED
  BY UnracedInvariance, <1>1, PTL

(* Who is told that he has joined a game no two threads were in at once    *)
(* sits in it until he leaves, is dealt to, and may start what he created: *)
(* with any number of requests, limits and bots.                           *)
THEOREM JoinsAreKept == Spec => []JoinedIsSeated
<1>1. OInv => JoinedIsSeated
  <2> SUFFICES ASSUME OInv, NEW r \in Request, NEW g \in active,
                      Joined(r), own[r].game = g, r \notin left, g \notin raced
               PROVE  /\ r \in Seated(g)
                      /\ table[g].phase = "IN_PROGRESS" => r \in table[g].dealt
                      /\ own[r].creates => table[g].creator = r
    BY DEF JoinedIsSeated
  <2>1. PlaysAt(table[g], r, own[r].creates)
    BY DEF OInv, SeatsKept, Placed
  <2> QED
    BY <2>1 DEF PlaysAt, Seated
<1> QED
  BY UnracedInvariance, <1>1, PTL

(* The database has a game no two threads were in at once as it is         *)
(* whenever no thread is in it, but for who has left; and it has no        *)
(* removed one: with any number of requests, limits and bots.              *)
THEOREM RowsAreCurrent == Spec => []RowsMatchGames
<1>1. OInv => RowsMatchGames
  <2> SUFFICES ASSUME OInv, NEW g \in Request, g \notin raced, serving.game # g,
                      \A r \in Request : g \notin Holds(r)
               PROVE  IF g \in active
                        THEN row[g].phase = table[g].phase /\ Seated(g) \subseteq Range(row[g].seats)
                        ELSE row[g] = NoRow
    BY DEF RowsMatchGames
  <2>1. \A r \in Request : at[r] = "load" => own[r].creates
    BY DEF OInv, LocalsFit
  <2>2. ~Unsaved(g)
    BY <2>1 DEF Unsaved, Holds
  <2>3. /\ g \in active => Shows(row[g], table[g])
        /\ g \notin active => row[g] = NoRow
    BY <2>2 DEF OInv, RowsKept
  <2> QED
    BY <2>3 DEF Shows, Seated
<1> QED
  BY UnracedInvariance, <1>1, PTL
=============================================================================
