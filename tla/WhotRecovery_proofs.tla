------------------------- MODULE WhotRecovery_proofs ------------------------
(***************************************************************************)
(* What survives a crash, for any number of players, moves, crashes and    *)
(* failing statements.                                                     *)
(***************************************************************************)
EXTENDS WhotRecovery, Functions, SequenceTheorems, TLAPS

USE RecoveryAssumption

(* Only a live game is worked on, and only a removed one is deleted.       *)
Ends == {"unlist", "drop", "removed"}

TasksFit ==
    /\ ~up => ~live /\ todo = << >>
    /\ ~live => \A t \in Range(todo) : t.do \in Ends
    /\ live => \A t \in Range(todo) : t.do \notin {"drop", "removed"}
    /\ (\E t \in Range(todo) : t.do = "drop") => saved = 0
    /\ \A t \in Range(todo) :
          t.do \in {"seat", "profile", "stats", "list", "answer"} => t.for \in Player

(* savePlayer goes on to the statistics of a player with a row only.       *)
StatsOfKnown ==
    /\ \A t \in Range(todo) : t.do = "stats" => t.for \in profiled
    /\ ranked \subseteq profiled

\* A save comes first of all: whatever was done is written before the move
\* counts as dealt with.
SavesFirst(tasks) ==
    \A i \in 1..Len(tasks) : tasks[i].do = "handled" =>
        \E j \in 1..(i - 1) : tasks[j].do = "save"

\* The bots play when the human's move has been dealt with.
BotsLast(tasks) ==
    \A i, j \in 1..Len(tasks) : (i < j /\ tasks[i].do = "play") => tasks[j].do # "handled"

MovesKept ==
    /\ ~born => saved = 0 /\ ~live /\ row = NoRow
    /\ BotsLast(todo)
    /\ live => saved =< game.moves
    /\ "save" \notin failed =>
          /\ saved =< row.moves
          /\ SavesFirst(todo) \/ game.moves =< row.moves

CInv == RecoveryTypeOK /\ TasksFit /\ StatsOfKnown /\ MovesKept

-----------------------------------------------------------------------------

(* What is left when the first task is taken off.                          *)
LEMMA TaskDone ==
    ASSUME NEW s \in Seq(Task), s # << >>
    PROVE  /\ Tail(s) \in Seq(Task) /\ Head(s) \in Range(s) /\ Head(s) \in Task
           /\ Range(Tail(s)) \subseteq Range(s)
           /\ BotsLast(s) => BotsLast(Tail(s))
           /\ (SavesFirst(s) /\ Head(s).do # "save") => SavesFirst(Tail(s))
           /\ (BotsLast(s) /\ Head(s).do = "play") => SavesFirst(s)
<1> DEFINE n == Len(s)
           r == Tail(s)
<1>1. /\ n \in Nat \ {0} /\ r \in Seq(Task) /\ Len(r) = n - 1
      /\ Head(s) = s[1] /\ \A i \in 1..(n - 1) : r[i] = s[i + 1]
  BY HeadTailProperties, LenProperties
<1>2. Range(s) = {s[i] : i \in 1..n} /\ Range(r) = {r[i] : i \in 1..(n - 1)}
  <2>1. Range(s) = {s[i] : i \in 1..n}
    BY RangeEquality
  <2>2. r \in Seq(Task) /\ Len(r) = n - 1
    BY <1>1
  <2> HIDE DEF r
  <2>3. Range(r) = {r[i] : i \in 1..Len(r)}
    BY <2>2, RangeEquality
  <2> QED
    BY <2>1, <2>2, <2>3
<1>3. Head(s) \in Range(s) /\ Range(r) \subseteq Range(s) /\ Head(s) \in Task
  BY <1>1, <1>2, ElementOfSeq
<1> HIDE DEF r
<1>4. BotsLast(s) => BotsLast(r)
  BY <1>1 DEF BotsLast
<1>5. ASSUME SavesFirst(s), Head(s).do # "save" PROVE SavesFirst(r)
  <2> SUFFICES ASSUME NEW i \in 1..(n - 1), r[i].do = "handled"
               PROVE  \E j \in 1..(i - 1) : r[j].do = "save"
    BY <1>1 DEF SavesFirst
  <2>1. PICK k \in 1..i : s[k].do = "save"
    <3>1. i + 1 \in 1..n /\ s[i + 1].do = "handled"
      BY <1>1
    <3>2. \E k \in 1..(i + 1 - 1) : s[k].do = "save"
      BY <1>5, <3>1 DEF SavesFirst
    <3> QED
      BY <3>2
  <2>2. k # 1
    BY <1>1, <1>5, <2>1
  <2>3. k - 1 \in 1..(i - 1) /\ k - 1 \in 1..(n - 1) /\ (k - 1) + 1 = k
    BY <1>1, <2>2
  <2>4. r[k - 1] = s[k]
    BY <1>1, <2>3
  <2> QED
    BY <2>1, <2>3, <2>4
<1>6. ASSUME BotsLast(s), Head(s).do = "play" PROVE SavesFirst(s)
  BY <1>1, <1>6 DEF BotsLast, SavesFirst
<1> QED
  BY <1>1, <1>3, <1>4, <1>5, <1>6 DEF r

(* What is done first instead, with nothing to deal with in it.            *)
LEMMA TasksAhead ==
    ASSUME NEW a \in Seq(Task), NEW s \in Seq(Task),
           \A t \in Range(a) : t.do \notin {"handled", "play"}
    PROVE  /\ a \o s \in Seq(Task) /\ Range(a \o s) = Range(a) \cup Range(s)
           /\ BotsLast(s) => BotsLast(a \o s)
           /\ SavesFirst(s) => SavesFirst(a \o s)
<1> DEFINE c == a \o s
           m == Len(a)
<1>1. /\ c \in Seq(Task) /\ m \in Nat /\ Len(s) \in Nat /\ Len(c) = m + Len(s)
      /\ \A i \in 1..(m + Len(s)) : c[i] = IF i <= m THEN a[i] ELSE s[i - m]
  BY ConcatProperties, LenProperties
<1>2. Range(c) = Range(a) \cup Range(s)
  BY RangeConcatenation
<1>3. \A i \in 1..m : a[i].do \notin {"handled", "play"}
  BY RangeEquality
<1> HIDE DEF c, m
<1>4. \A i \in 1..Len(c) : c[i].do \in {"handled", "play"} => i > m /\ c[i] = s[i - m]
  BY <1>1, <1>3
<1>5. ASSUME BotsLast(s) PROVE BotsLast(c)
  <2> SUFFICES ASSUME NEW i \in 1..Len(c), NEW j \in 1..Len(c),
                      i < j, c[i].do = "play", c[j].do = "handled"
               PROVE  FALSE
    BY DEF BotsLast
  <2>1. i > m /\ c[i] = s[i - m] /\ j > m /\ c[j] = s[j - m]
    BY <1>4
  <2>2. i - m \in 1..Len(s) /\ j - m \in 1..Len(s) /\ i - m < j - m
    BY <1>1, <2>1
  <2> QED
    BY <1>5, <2>1, <2>2 DEF BotsLast
<1>6. ASSUME SavesFirst(s) PROVE SavesFirst(c)
  <2> SUFFICES ASSUME NEW i \in 1..Len(c), c[i].do = "handled"
               PROVE  \E j \in 1..(i - 1) : c[j].do = "save"
    BY DEF SavesFirst
  <2>1. i - m \in 1..Len(s) /\ s[i - m].do = "handled"
    BY <1>1, <1>4
  <2>2. PICK k \in 1..(i - m - 1) : s[k].do = "save"
    BY <1>6, <2>1 DEF SavesFirst
  <2>3. k + m \in 1..(i - 1) /\ c[k + m] = s[k]
    BY <1>1, <2>1, <2>2
  <2> QED
    BY <2>2, <2>3
<1> QED
  BY <1>1, <1>2, <1>5, <1>6 DEF c

(* The tasks a handler starts with.                                        *)
LEMMA OneTask ==
    ASSUME NEW t \in Task
    PROVE  <<t>> \in Seq(Task) /\ Range(<<t>>) = {t}
BY DEF Range

(* What a join, an action, a creation, a removal and a start have to do.   *)
LEMMA JoinTasksOnly ==
    ASSUME NEW p \in Player
    PROVE  /\ JoinTasks(p) \in Seq(Task)
           /\ \A t \in Range(JoinTasks(p)) :
                 t.do \in {"seat", "profile", "save"} /\ (t.do # "save" => t.for = p)
<1> DEFINE a == DoFor("seat", p)
           b == DoFor("profile", p)
           c == Do("save")
<1>1. a \in Task /\ b \in Task /\ c \in Task
  BY DEF Do, DoFor, Task, Steps
<1>2. /\ a.do = "seat" /\ b.do = "profile" /\ c.do = "save"
      /\ a.for = p /\ b.for = p
  BY DEF Do, DoFor
<1>3. JoinTasks(p) = <<a, b, c>>
  BY DEF JoinTasks
<1> HIDE DEF a, b, c
<1>4. <<a, b, c>> \in Seq(Task) /\ Range(<<a, b, c>>) = {a, b, c}
  BY <1>1 DEF Range
<1> QED
  BY <1>2, <1>3, <1>4

(* A join by code: the same, and the answer.                               *)
LEMMA AnsweredTasksOnly ==
    ASSUME NEW p \in Human
    PROVE  /\ JoinTasks(p) \o <<DoFor("answer", p)>> \in Seq(Task)
           /\ \A t \in Range(JoinTasks(p) \o <<DoFor("answer", p)>>) :
                 /\ t.do \in {"seat", "profile", "save", "answer"}
                 /\ t.do # "save" => t.for = p
<1> DEFINE a == JoinTasks(p)
           b == <<DoFor("answer", p)>>
<1>1. a \in Seq(Task) /\ \A t \in Range(a) : /\ t.do \in {"seat", "profile", "save", "answer"}
                                             /\ t.do # "save" => t.for = p
  BY JoinTasksOnly DEF Player
<1>2. b \in Seq(Task) /\ \A t \in Range(b) : t.do = "answer" /\ t.for = p
  BY OneTask DEF DoFor, Task, Steps, Player
<1> HIDE DEF a, b
<1>3. a \o b \in Seq(Task) /\ Range(a \o b) = Range(a) \cup Range(b)
  BY <1>1, <1>2, ConcatProperties, RangeConcatenation
<1> QED
  BY <1>1, <1>2, <1>3 DEF a, b

(* An action: whatever it does, a save comes before it is dealt with.      *)
LEMMA ActionTasksOnly ==
    ASSUME NEW ends \in BOOLEAN
    PROVE  /\ ActionTasks(ends) \in Seq(Task)
           /\ SavesFirst(ActionTasks(ends)) /\ BotsLast(ActionTasks(ends))
           /\ \A t \in Range(ActionTasks(ends)) :
                 t.do \in {"save", "newRound", "handled", "play"}
<1> DEFINE a == Do("save")
           b == Do("newRound")
           c == Do("handled")
           d == Do("play")
<1>1. a \in Task /\ b \in Task /\ c \in Task /\ d \in Task
  BY DEF Do, Task, Steps
<1>2. a.do = "save" /\ b.do = "newRound" /\ c.do = "handled" /\ d.do = "play"
  BY DEF Do
<1>3. CASE ends
  <2>1. ActionTasks(ends) = <<a, b, a, c, d>>
    BY <1>3 DEF ActionTasks
  <2> HIDE DEF a, b, c, d
  <2>2. <<a, b, a, c, d>> \in Seq(Task) /\ Range(<<a, b, a, c, d>>) = {a, b, c, d}
    BY <1>1 DEF Range
  <2>3. SavesFirst(<<a, b, a, c, d>>) /\ BotsLast(<<a, b, a, c, d>>)
    BY <1>2 DEF SavesFirst, BotsLast
  <2> QED
    BY <1>2, <2>1, <2>2, <2>3
<1>4. CASE ~ends
  <2>1. ActionTasks(ends) = <<a, c, d>>
    BY <1>4 DEF ActionTasks
  <2> HIDE DEF a, b, c, d
  <2>2. <<a, c, d>> \in Seq(Task) /\ Range(<<a, c, d>>) = {a, c, d}
    BY <1>1 DEF Range
  <2>3. SavesFirst(<<a, c, d>>) /\ BotsLast(<<a, c, d>>)
    BY <1>2 DEF SavesFirst, BotsLast
  <2> QED
    BY <1>2, <2>1, <2>2, <2>3
<1> QED
  BY <1>3, <1>4

(* A task for every seat.                                                  *)
LEMMA SeatsListed ==
    ASSUME NEW s \in Seq(Player), NEW step \in Steps
    PROVE  /\ [i \in 1..Len(s) |-> DoFor(step, s[i])] \in Seq(Task)
           /\ \A t \in Range([i \in 1..Len(s) |-> DoFor(step, s[i])]) :
                 t.do = step /\ t.for \in Player
<1>1. Len(s) \in Nat /\ \A i \in 1..Len(s) : s[i] \in Player
  BY ElementOfSeq, LenProperties
<1>2. \A i \in 1..Len(s) : DoFor(step, s[i]) \in Task
  BY <1>1 DEF DoFor, Task
<1>3. [i \in 1..Len(s) |-> DoFor(step, s[i])] \in Seq(Task)
  BY <1>1, <1>2, IsASeq
<1> QED
  BY <1>1, <1>3 DEF Range, DoFor

(* Tasks without a move are in order.                                      *)
LEMMA NothingToDealWith ==
    ASSUME NEW s \in Seq(Task), \A t \in Range(s) : t.do \notin {"handled", "play"}
    PROVE  SavesFirst(s) /\ BotsLast(s)
BY RangeEquality DEF SavesFirst, BotsLast

(* The creation of a game, with its bots.                                  *)
LEMMA CreateTasksOnly ==
    ASSUME NEW p \in Human, NEW bots \in BotSeqs,
           NEW tasks,
           tasks = <<Do("save")>> \o JoinTasks(p)
                     \o BotTasks(bots) \o (IF bots = << >> THEN << >> ELSE <<Do("save")>>)
                     \o <<DoFor("answer", p)>>
    PROVE  /\ tasks \in Seq(Task)
           /\ \A t \in Range(tasks) : /\ t.do \in {"seat", "profile", "save", "answer"}
                                      /\ t.do # "save" => t.for \in Player
<1>1. /\ Do("save") \in Task /\ DoFor("answer", p) \in Task
      /\ Do("save").do = "save" /\ DoFor("answer", p).do = "answer"
      /\ DoFor("answer", p).for \in Player
  BY DEF Do, DoFor, Task, Steps, Player
<1> DEFINE a == <<Do("save")>>
           b == JoinTasks(p)
           c == BotTasks(bots)
           d == IF bots = << >> THEN << >> ELSE <<Do("save")>>
           e == <<DoFor("answer", p)>>
           Fit(s) == s \in Seq(Task)
                       /\ \A t \in Range(s) : /\ t.do \in {"seat", "profile", "save", "answer"}
                                              /\ t.do # "save" => t.for \in Player
<1>2. Fit(a) /\ Fit(e)
  BY <1>1, OneTask
<1>3. Fit(b)
  BY JoinTasksOnly DEF Player
<1>4. bots \in Seq(Player)
  BY DEF BotSeqs, Player
<1>5. Fit(c)
  BY <1>4, SeatsListed DEF BotTasks, Steps
<1>6. Fit(d)
  BY <1>2, EmptySeq DEF Range
<1> HIDE DEF a, b, c, d, e
<1>7. \A s, u \in Seq(Task) : s \o u \in Seq(Task) /\ Range(s \o u) = Range(s) \cup Range(u)
  BY ConcatProperties, RangeConcatenation
<1>8. Fit(a \o b)
  BY <1>2, <1>3, <1>7
<1>9. Fit(a \o b \o c)
  BY <1>5, <1>7, <1>8
<1>10. Fit(a \o b \o c \o d)
  BY <1>6, <1>7, <1>9
<1>11. Fit(a \o b \o c \o d \o e)
  BY <1>2, <1>7, <1>10
<1> QED
  BY <1>11 DEF a, b, c, d, e

(* The removal of a lobby.                                                 *)
LEMMA RemoveTasksOnly ==
    /\ <<Do("unlist"), Do("drop"), Do("removed")>> \in Seq(Task)
    /\ \A t \in Range(<<Do("unlist"), Do("drop"), Do("removed")>>) : t.do \in Ends
<1>1. \A step \in {"unlist", "drop", "removed"} : Do(step) \in Task /\ Do(step).do = step
  BY DEF Do, Task, Steps
<1> QED
  BY <1>1 DEF Range, Ends

(* The start of a game.                                                    *)
LEMMA StartTasksOnly ==
    /\ <<Do("save"), Do("play")>> \in Seq(Task)
    /\ \A t \in Range(<<Do("save"), Do("play")>>) : t.do \in {"save", "play"}
    /\ SavesFirst(<<Do("save"), Do("play")>>) /\ BotsLast(<<Do("save"), Do("play")>>)
<1>1. \A step \in {"save", "play"} : Do(step) \in Task /\ Do(step).do = step
  BY DEF Do, Task, Steps
<1> QED
  BY <1>1 DEF Range, SavesFirst, BotsLast

\* What saveGame has still to do when the row is written.
ListTasks == <<Do("unlist")>> \o [i \in 1..Len(game.seats) |-> DoFor("list", game.seats[i])]

(* The statements that follow the game's row.                              *)
LEMMA ListTasksOnly ==
    ASSUME game.seats \in Seq(Player)
    PROVE  /\ ListTasks \in Seq(Task)
           /\ \A t \in Range(ListTasks) : /\ t.do \in {"unlist", "list"}
                                          /\ t.do = "list" => t.for \in Player
<1> DEFINE a == <<Do("unlist")>>
           b == [i \in 1..Len(game.seats) |-> DoFor("list", game.seats[i])]
<1>1. a \in Seq(Task) /\ \A t \in Range(a) : t.do = "unlist"
  BY OneTask DEF Do, Task, Steps
<1>2. b \in Seq(Task) /\ \A t \in Range(b) : t.do = "list" /\ t.for \in Player
  BY SeatsListed DEF Steps
<1>3. ListTasks = a \o b
  BY DEF ListTasks
<1> HIDE DEF a, b
<1>4. a \o b \in Seq(Task) /\ Range(a \o b) = Range(a) \cup Range(b)
  BY <1>1, <1>2, ConcatProperties, RangeConcatenation
<1> QED
  BY <1>1, <1>2, <1>3, <1>4

-----------------------------------------------------------------------------

(* A server with an empty database.                                        *)
LEMMA RecoveryInit == Init => CInv
<1> SUFFICES ASSUME Init PROVE CInv
  OBVIOUS
<1> USE DEF Init
<1>1. << >> \in Seq(Task) /\ << >> \in Seq(Player) /\ Range(<< >>) = {} /\ Len(<< >>) = 0
  BY DEF Range
<1>2. NewGame(0) \in Game /\ NewGame(0).moves = 0
  BY <1>1 DEF NewGame, Game, Phase
<1>3. NoRow \in Row /\ NoRow.moves = 0
  BY <1>1 DEF NoRow, Row, Phase
<1>4. RecoveryTypeOK
  BY <1>1, <1>2, <1>3 DEF RecoveryTypeOK
<1>5. TasksFit /\ StatsOfKnown
  BY <1>1 DEF TasksFit, StatsOfKnown
<1>6. MovesKept
  BY <1>1, <1>2, <1>3 DEF MovesKept, SavesFirst, BotsLast
<1> QED
  BY <1>4, <1>5, <1>6 DEF CInv

(* A step that takes off the first task.                                   *)
LEMMA TaskTaken ==
    ASSUME CInv, NEW step, Next1(step)
    PROVE  /\ todo # << >> /\ todo \in Seq(Task) /\ Head(todo) \in Task
           /\ Head(todo).do = step /\ Head(todo) \in Range(todo)
           /\ Tail(todo) \in Seq(Task) /\ Range(Tail(todo)) \subseteq Range(todo)
           /\ step \in {"seat", "profile", "stats", "list", "answer"} => Head(todo).for \in Player
           /\ BotsLast(Tail(todo))
           /\ step # "save" => (SavesFirst(todo) => SavesFirst(Tail(todo)))
           /\ step = "play" => SavesFirst(todo)
<1>1. todo # << >> /\ todo \in Seq(Task) /\ Head(todo).do = step
  BY DEF Next1, CInv, RecoveryTypeOK
<1>2. BotsLast(todo)
  BY DEF CInv, MovesKept
<1>3. \A t \in Range(todo) :
         t.do \in {"seat", "profile", "stats", "list", "answer"} => t.for \in Player
  BY DEF CInv, TasksFit
<1> QED
  BY <1>1, <1>2, <1>3, TaskDone

(* A seat's number is a turn.                                              *)
LEMMA MoveTyped ==
    ASSUME game \in Game, NEW phase \in Phase, NEW turn \in 0..Len(game.seats) - 1
    PROVE  /\ AfterMove(phase, turn) \in Game
           /\ AfterMove(phase, turn).moves = game.moves + 1
<1>1. game.seats \in Seq(Player) /\ game.moves \in Nat /\ game.limit \in Nat
  BY DEF Game
<1>2. turn \in Nat
  BY <1>1, LenProperties
<1>3. game.moves + 1 \in Nat
  BY <1>1
<1> QED
  BY <1>1, <1>2, <1>3 DEF AfterMove, Game

(* Every step keeps the types.                                             *)
LEMMA RecoveryTypeStep == CInv /\ [Next]_vars => RecoveryTypeOK'
<1> SUFFICES ASSUME CInv, [Next]_vars PROVE RecoveryTypeOK'
  OBVIOUS
<1> USE DEF CInv, RecoveryTypeOK, database, history, memory
<1>a. /\ game.seats \in Seq(Player) /\ game.moves \in Nat /\ game.limit \in Nat
      /\ game.phase \in Phase /\ game.turn \in Nat
  BY DEF Game
<1>b. \A steps : Works(steps) => failed' \subseteq Steps /\ failures' \in Nat
  BY DEF Works
<1>c. \A step \in Steps : Fails(step) => failed' \subseteq Steps /\ failures' \in Nat
  BY DEF Fails
<1>d. {"seat", "profile", "stats", "save", "unlist", "list", "drop"} \subseteq Steps
  BY DEF Steps
<1>1. CASE SaveRow
  <2>1. todo' \in Seq(Task)
    <3>1. CASE todo' = Tail(todo)
      BY <1>1, <3>1, TaskTaken DEF SaveRow
    <3>2. CASE todo' = ListTasks \o Tail(todo)
      BY <1>a, <1>1, <3>2, TaskTaken, ListTasksOnly, ConcatProperties DEF SaveRow
    <3> QED
      BY <1>1, <3>1, <3>2 DEF SaveRow, ListTasks
  <2>2. Snapshot(game) \in Row
    BY <1>a DEF Snapshot, Row, Phase
  <2>3. row' \in Row
    BY <1>1, <2>2 DEF SaveRow
  <2>4. Works({"save"}) \/ Fails("save")
    BY <1>1 DEF SaveRow
  <2>5. failed' \subseteq Steps /\ failures' \in Nat
    BY <1>b, <1>c, <1>d, <2>4
  <2> QED
    BY <1>1, <2>1, <2>3, <2>5 DEF SaveRow
<1>2. CASE UnlistPlayers
  <2>1. todo' \in Seq(Task)
    BY <1>2, TaskTaken DEF UnlistPlayers
  <2>2. Works({"unlist", "list"}) \/ Fails("unlist")
    BY <1>2 DEF UnlistPlayers
  <2>3. failed' \subseteq Steps /\ failures' \in Nat
    BY <1>b, <1>c, <1>d, <2>2
  <2> QED
    BY <1>2, <2>1, <2>3 DEF UnlistPlayers
<1>3. CASE ListPlayer
  <2>1. todo' \in Seq(Task) /\ Head(todo).for \in Player
    BY <1>3, TaskTaken DEF ListPlayer
  <2>2. Works({}) \/ Fails("list")
    BY <1>3 DEF ListPlayer
  <2>3. failed' \subseteq Steps /\ failures' \in Nat
    BY <1>b, <1>c, <1>d, <2>2
  <2>4. listed' \subseteq Player
    BY <1>3, <2>1 DEF ListPlayer
  <2> QED
    BY <1>3, <2>1, <2>3, <2>4 DEF ListPlayer
<1>4. CASE SaveProfile
  <2>1. Tail(todo) \in Seq(Task) /\ Head(todo).for \in Player
    BY <1>4, TaskTaken DEF SaveProfile
  <2>2. <<DoFor("stats", Head(todo).for)>> \in Seq(Task)
    BY <2>1, OneTask DEF DoFor, Task, Steps
  <2>3. <<DoFor("stats", Head(todo).for)>> \o Tail(todo) \in Seq(Task)
    BY <2>1, <2>2, ConcatProperties
  <2>4. todo' \in Seq(Task)
    BY <1>4, <2>1, <2>3 DEF SaveProfile
  <2>5. Works({"profile"}) \/ Fails("profile")
    BY <1>4 DEF SaveProfile
  <2>6. failed' \subseteq Steps /\ failures' \in Nat
    BY <1>b, <1>c, <1>d, <2>5
  <2>7. profiled' \subseteq Player
    BY <1>4, <2>1 DEF SaveProfile
  <2> QED
    BY <1>4, <2>4, <2>6, <2>7 DEF SaveProfile
<1>5. CASE SaveStats
  <2>1. todo' \in Seq(Task) /\ Head(todo).for \in Player
    BY <1>5, TaskTaken DEF SaveStats
  <2>2. Works({"stats"}) \/ Fails("stats")
    BY <1>5 DEF SaveStats
  <2>3. failed' \subseteq Steps /\ failures' \in Nat
    BY <1>b, <1>c, <1>d, <2>2
  <2>4. ranked' \subseteq Player
    BY <1>5, <2>1 DEF SaveStats
  <2> QED
    BY <1>5, <2>1, <2>3, <2>4 DEF SaveStats
<1>6. CASE DeleteRow
  <2>1. todo' \in Seq(Task)
    BY <1>6, TaskTaken DEF DeleteRow
  <2>2. NoRow \in Row
    BY EmptySeq DEF NoRow, Row, Phase
  <2>3. Works({"drop"}) \/ Fails("drop")
    BY <1>6 DEF DeleteRow
  <2>4. failed' \subseteq Steps /\ failures' \in Nat
    BY <1>b, <1>c, <1>d, <2>3
  <2>5. row' \in Row
    BY <1>6, <2>2 DEF DeleteRow
  <2> QED
    BY <1>6, <2>1, <2>4, <2>5 DEF DeleteRow
<1>7. CASE TakeSeat
  <2>1. todo' \in Seq(Task) /\ Head(todo).for \in Player
    BY <1>7, TaskTaken DEF TakeSeat
  <2>2. Append(game.seats, Head(todo).for) \in Seq(Player)
    BY <1>a, <2>1, AppendProperties
  <2>3. game' \in Game
    BY <1>7, <2>2 DEF TakeSeat, Game
  <2> QED
    BY <1>7, <2>1, <2>3 DEF TakeSeat
<1>8. CASE Answer
  <2>1. todo' \in Seq(Task) /\ Head(todo).for \in Player
    BY <1>8, TaskTaken DEF Answer
  <2> QED
    BY <1>8, <2>1 DEF Answer
<1>9. CASE StartNewRound
  <2>1. todo' \in Seq(Task)
    BY <1>9, TaskTaken DEF StartNewRound
  <2> QED
    BY <1>9, <2>1 DEF StartNewRound, Game, Phase
<1>10. CASE Handled \/ StopPlaying \/ AnswerRemoved
  <2>1. todo' \in Seq(Task)
    BY <1>10, TaskTaken DEF Handled, StopPlaying, AnswerRemoved
  <2> QED
    BY <1>a, <1>10, <2>1 DEF Handled, StopPlaying, AnswerRemoved
<1>11. CASE PlayBot
  <2>1. game' \in Game
    BY <1>11, MoveTyped DEF PlayBot, Phase
  <2> QED
    BY <1>11, <2>1 DEF PlayBot
<1>12. ASSUME NEW p \in Human, NEW bots \in BotSeqs, HandleCreateGame(p, bots)
       PROVE  RecoveryTypeOK'
  <2>1. todo' \in Seq(Task)
    BY <1>12, CreateTasksOnly DEF HandleCreateGame
  <2>2. game' \in Game
    BY <1>12, EmptySeq DEF HandleCreateGame, NewGame, Game, Phase
  <2> QED
    BY <1>12, <2>1, <2>2 DEF HandleCreateGame
<1>13. ASSUME NEW p \in Human, HandleJoinByCode(p) PROVE RecoveryTypeOK'
  <2>2. todo' \in Seq(Task)
    BY <1>13, AnsweredTasksOnly DEF HandleJoinByCode
  <2> QED
    BY <1>13, <2>2 DEF HandleJoinByCode
<1>14. ASSUME NEW p \in Human, HandleLeaveGame(p) PROVE RecoveryTypeOK'
  <2>1. PICK i \in 1..Len(game.seats) : game' = [game EXCEPT !.seats = RemoveAt(@, i)]
    BY <1>14 DEF HandleLeaveGame
  <2>2. RemoveAt(game.seats, i) \in Seq(Player)
    <3>1. /\ Len(game.seats) \in Nat /\ i \in Nat /\ 1 =< i /\ i =< Len(game.seats)
      BY <1>a, LenProperties
    <3>2. /\ SubSeq(game.seats, 1, i - 1) \in Seq(Player)
          /\ SubSeq(game.seats, i + 1, Len(game.seats)) \in Seq(Player)
      BY <1>a, <3>1, SubSeqProperties
    <3> QED
      BY <3>2, ConcatProperties DEF RemoveAt
  <2>3. game' \in Game
    BY <2>1, <2>2 DEF Game
  <2> QED
    BY <1>14, <2>3 DEF HandleLeaveGame
<1>15. ASSUME NEW p \in Human, HandleGameAction(p) PROVE RecoveryTypeOK'
  <2>1. todo' \in Seq(Task)
    BY <1>15, ActionTasksOnly DEF HandleGameAction
  <2>2. PICK turn \in 0..Len(game.seats) - 1 :
           game' = AfterMove(game.phase, turn) \/ game' = AfterMove("ROUND_ENDED", turn)
    BY <1>15 DEF HandleGameAction
  <2>3. game' \in Game
    BY <1>a, <2>2, MoveTyped DEF Phase
  <2> QED
    BY <1>15, <2>1, <2>3 DEF HandleGameAction
<1>16. CASE HandleStartGame
  <2>1. todo' \in Seq(Task) /\ game' \in Game
    BY <1>16, StartTasksOnly DEF HandleStartGame, Game, Phase
  <2> QED
    BY <1>16, <2>1 DEF HandleStartGame
<1>17. CASE HandleCleanupStaleLobbies
  <2>1. todo' \in Seq(Task)
    BY <1>17, RemoveTasksOnly DEF HandleCleanupStaleLobbies
  <2> QED
    BY <1>17, <2>1 DEF HandleCleanupStaleLobbies
<1>18. CASE Crash
  <2>1. NewGame(0) \in Game /\ << >> \in Seq(Task)
    BY EmptySeq DEF NewGame, Game, Phase
  <2>2. failed' = failed \cup {"list"} \/ failed' = failed
    BY <1>18 DEF Crash
  <2>3. game' \in Game /\ todo' \in Seq(Task) /\ up' \in BOOLEAN /\ live' \in BOOLEAN
    BY <1>18, <2>1 DEF Crash
  <2> QED
    BY <1>d, <1>18, <2>2, <2>3 DEF Crash
<1>19. CASE Restart
  <2>1. FromRow(row) \in Game /\ row.moves \in Nat
    BY DEF FromRow, Game, Row
  <2>2. live' \in BOOLEAN /\ game' \in Game
    BY <1>19, <2>1 DEF Restart, Load, LoadFails
  <2>3. failures' \in Nat
    BY <1>19 DEF Restart, Load, LoadFails
  <2>4. saved' \in Nat /\ joined' \subseteq Player
    BY <1>19, <2>1 DEF Restart
  <2> QED
    BY <1>19, <2>2, <2>3, <2>4 DEF Restart
<1>20. CASE UNCHANGED vars
  BY <1>20 DEF vars
<1> QED
  BY <1>1, <1>2, <1>3, <1>4, <1>5, <1>6, <1>7, <1>8, <1>9, <1>10, <1>11, <1>12, <1>13,
     <1>14, <1>15, <1>16, <1>17, <1>18, <1>19, <1>20 DEF Next, Execute

(* Every step keeps the tasks fit.                                         *)
LEMMA TasksStep == CInv /\ [Next]_vars => TasksFit'
<1> SUFFICES ASSUME CInv, [Next]_vars PROVE TasksFit'
  OBVIOUS
<1> USE DEF database, history, memory
<1>a. TasksFit
  BY DEF CInv
<1>b. ASSUME NEW step, Next1(step), todo' = Tail(todo), live' = live, saved' = saved,
             up' = up
      PROVE  TasksFit'
  BY <1>a, <1>b, TaskTaken DEF TasksFit
<1>c. ASSUME NEW step, Next1(step)
      PROVE  up /\ (step \notin Ends => live)
  BY <1>a, <1>c, TaskTaken DEF TasksFit
<1>d. ASSUME NEW a \in Seq(Task), todo' = a \o Tail(todo), NEW step, Next1(step),
             up, live, UNCHANGED <<up, live>>,
             \A t \in Range(a) : t.do \in {"stats", "unlist", "list"},
             \A t \in Range(a) : t.do \in {"stats", "list"} => t.for \in Player
      PROVE  TasksFit'
  <2>1. Range(todo') = Range(a) \cup Range(Tail(todo)) /\ Range(Tail(todo)) \subseteq Range(todo)
    BY <1>d, TaskTaken, TasksAhead
  <2> QED
    BY <1>a, <1>d, <2>1 DEF TasksFit
<1>1. CASE SaveRow
  <2>1. up /\ live
    BY <1>1, <1>c DEF SaveRow, Ends
  <2>2. CASE todo' = Tail(todo)
    BY <1>1, <1>b, <2>2 DEF SaveRow
  <2>3. CASE todo' = ListTasks \o Tail(todo)
    <3>1. game.seats \in Seq(Player)
      BY DEF CInv, RecoveryTypeOK, Game
    <3> QED
      BY <1>1, <1>d, <2>1, <2>3, <3>1, ListTasksOnly DEF SaveRow
  <2> QED
    BY <1>1, <2>2, <2>3 DEF SaveRow, ListTasks
<1>2. CASE UnlistPlayers \/ ListPlayer \/ SaveStats \/ DeleteRow \/ TakeSeat \/ Answer
             \/ StartNewRound \/ StopPlaying \/ AnswerRemoved
  BY <1>2, <1>b DEF UnlistPlayers, ListPlayer, SaveStats, DeleteRow, TakeSeat, Answer,
       StartNewRound, StopPlaying, AnswerRemoved
<1>3. CASE SaveProfile
  <2>1. up /\ live
    BY <1>3, <1>c DEF SaveProfile, Ends
  <2>2. CASE todo' = Tail(todo)
    BY <1>3, <1>b, <2>2 DEF SaveProfile
  <2>3. CASE todo' = <<DoFor("stats", Head(todo).for)>> \o Tail(todo)
    <3>1. Head(todo).for \in Player
      BY <1>3, TaskTaken DEF SaveProfile
    <3>2. DoFor("stats", Head(todo).for) \in Task
      BY <3>1 DEF DoFor, Task, Steps
    <3>3. /\ <<DoFor("stats", Head(todo).for)>> \in Seq(Task)
          /\ \A t \in Range(<<DoFor("stats", Head(todo).for)>>) :
                t.do = "stats" /\ t.for \in Player
      BY <3>1, <3>2, OneTask DEF DoFor
    <3> QED
      BY <1>3, <1>d, <2>1, <2>3, <3>3 DEF SaveProfile
  <2> QED
    BY <1>3, <2>2, <2>3 DEF SaveProfile
<1>4. CASE Handled
  <2>1. live /\ up /\ Range(Tail(todo)) \subseteq Range(todo)
    BY <1>4, <1>c, TaskTaken DEF Handled, Ends
  <2> QED
    BY <1>4, <1>a, <2>1 DEF Handled, TasksFit
<1>5. CASE PlayBot
  BY <1>5, <1>a DEF PlayBot, TasksFit
<1>6. ASSUME NEW p \in Human, NEW bots \in BotSeqs, HandleCreateGame(p, bots)
      PROVE  TasksFit'
  BY <1>6, CreateTasksOnly DEF HandleCreateGame, TasksFit, Idle
<1>7. ASSUME NEW p \in Human, HandleJoinByCode(p) PROVE TasksFit'
  <2>1. p \in Player
    BY DEF Player
  <2> QED
    BY <1>7, <2>1, AnsweredTasksOnly DEF HandleJoinByCode, TasksFit, Idle
<1>8. ASSUME NEW p \in Human, HandleLeaveGame(p) PROVE TasksFit'
  BY <1>8, <1>a DEF HandleLeaveGame, TasksFit
<1>9. ASSUME NEW p \in Human, HandleGameAction(p) PROVE TasksFit'
  <2>1. \A t \in Range(todo') : t.do \in {"save", "newRound", "handled", "play"}
    BY <1>9, ActionTasksOnly DEF HandleGameAction
  <2> QED
    BY <1>9, <2>1 DEF HandleGameAction, TasksFit, Idle
<1>10. CASE HandleStartGame
  BY <1>10, StartTasksOnly DEF HandleStartGame, TasksFit, Idle
<1>11. CASE HandleCleanupStaleLobbies
  BY <1>11, RemoveTasksOnly DEF HandleCleanupStaleLobbies, TasksFit, Idle, Ends
<1>12. CASE Crash
  <2>1. Range(<< >>) = {}
    BY DEF Range
  <2> QED
    BY <1>12, <2>1 DEF Crash, TasksFit
<1>13. CASE Restart
  <2>1. Range(<< >>) = {}
    BY DEF Range
  <2> QED
    BY <1>13, <1>a, <2>1 DEF Restart, TasksFit
<1>14. CASE UNCHANGED vars
  BY <1>14, <1>a DEF vars, TasksFit
<1> QED
  BY <1>1, <1>2, <1>3, <1>4, <1>5, <1>6, <1>7, <1>8, <1>9, <1>10, <1>11, <1>12, <1>13,
     <1>14 DEF Next, Execute

(* Every step keeps the statistics to players with a row.                  *)
LEMMA StatsStep == CInv /\ [Next]_vars => StatsOfKnown'
<1> SUFFICES ASSUME CInv, [Next]_vars PROVE StatsOfKnown'
  OBVIOUS
<1> USE DEF database, history, memory
<1>a. StatsOfKnown /\ todo \in Seq(Task)
  BY DEF CInv, RecoveryTypeOK
<1>b. ASSUME NEW step, Next1(step), todo' = Tail(todo), ranked' = ranked,
             profiled \subseteq profiled'
      PROVE  StatsOfKnown'
  BY <1>a, <1>b, TaskTaken DEF StatsOfKnown
<1>c. ASSUME \A t \in Range(todo') : t.do # "stats", UNCHANGED <<ranked, profiled>>
      PROVE  StatsOfKnown'
  BY <1>a, <1>c DEF StatsOfKnown
<1>1. CASE SaveRow
  <2>1. CASE todo' = Tail(todo)
    BY <1>1, <1>b, <2>1 DEF SaveRow
  <2>2. CASE todo' = ListTasks \o Tail(todo)
    <3>1. game.seats \in Seq(Player)
      BY DEF CInv, RecoveryTypeOK, Game
    <3>2. /\ Range(todo') = Range(ListTasks) \cup Range(Tail(todo))
          /\ Range(Tail(todo)) \subseteq Range(todo)
      BY <1>1, <2>2, <3>1, ListTasksOnly, TaskTaken, TasksAhead DEF SaveRow
    <3> QED
      BY <1>1, <1>a, <3>1, <3>2, ListTasksOnly DEF SaveRow, StatsOfKnown
  <2> QED
    BY <1>1, <2>1, <2>2 DEF SaveRow, ListTasks
<1>2. CASE UnlistPlayers \/ ListPlayer \/ DeleteRow \/ TakeSeat \/ Answer
             \/ StartNewRound \/ StopPlaying \/ AnswerRemoved \/ Handled
  BY <1>2, <1>b DEF UnlistPlayers, ListPlayer, DeleteRow, TakeSeat, Answer,
       StartNewRound, StopPlaying, AnswerRemoved, Handled
<1>3. CASE SaveProfile
  <2>1. CASE todo' = Tail(todo)
    BY <1>3, <1>b, <2>1 DEF SaveProfile
  <2>2. CASE todo' = <<DoFor("stats", Head(todo).for)>> \o Tail(todo)
                /\ profiled' = profiled \cup {Head(todo).for}
    <3>1. Head(todo).for \in Player
      BY <1>3, TaskTaken DEF SaveProfile
    <3>2. DoFor("stats", Head(todo).for) \in Task
      BY <3>1 DEF DoFor, Task, Steps
    <3>3. /\ <<DoFor("stats", Head(todo).for)>> \in Seq(Task)
          /\ \A t \in Range(<<DoFor("stats", Head(todo).for)>>) :
                t.do = "stats" /\ t.for = Head(todo).for
      BY <3>2, OneTask DEF DoFor
    <3>4. /\ Range(todo') = Range(<<DoFor("stats", Head(todo).for)>>) \cup Range(Tail(todo))
          /\ Range(Tail(todo)) \subseteq Range(todo)
      BY <1>3, <2>2, <3>3, TaskTaken, TasksAhead DEF SaveProfile
    <3> QED
      BY <1>3, <1>a, <2>2, <3>3, <3>4 DEF SaveProfile, StatsOfKnown
  <2> QED
    BY <1>3, <2>1, <2>2 DEF SaveProfile
<1>4. CASE SaveStats
  <2>1. /\ Head(todo) \in Range(todo) /\ Head(todo).do = "stats"
        /\ Range(Tail(todo)) \subseteq Range(todo)
    BY <1>4, TaskTaken DEF SaveStats
  <2>2. Head(todo).for \in profiled
    BY <1>a, <2>1 DEF StatsOfKnown
  <2> QED
    BY <1>4, <1>a, <2>1, <2>2 DEF SaveStats, StatsOfKnown
<1>5. CASE PlayBot \/ \E p \in Human : HandleLeaveGame(p)
  BY <1>5, <1>a DEF PlayBot, HandleLeaveGame, StatsOfKnown
<1>6. ASSUME NEW p \in Human, NEW bots \in BotSeqs, HandleCreateGame(p, bots)
      PROVE  StatsOfKnown'
  BY <1>6, <1>c, CreateTasksOnly DEF HandleCreateGame
<1>7. ASSUME NEW p \in Human, HandleJoinByCode(p) PROVE StatsOfKnown'
  BY <1>7, <1>c, AnsweredTasksOnly DEF HandleJoinByCode
<1>8. ASSUME NEW p \in Human, HandleGameAction(p) PROVE StatsOfKnown'
  BY <1>8, <1>c, ActionTasksOnly DEF HandleGameAction
<1>9. CASE HandleStartGame
  BY <1>9, <1>c, StartTasksOnly DEF HandleStartGame
<1>10. CASE HandleCleanupStaleLobbies
  BY <1>10, <1>c, RemoveTasksOnly DEF HandleCleanupStaleLobbies, Ends
<1>11. CASE Crash
  <2>1. Range(<< >>) = {}
    BY DEF Range
  <2> QED
    BY <1>11, <1>c, <2>1 DEF Crash
<1>12. CASE Restart \/ UNCHANGED vars
  BY <1>12, <1>a DEF Restart, vars, StatsOfKnown
<1> QED
  BY <1>1, <1>2, <1>3, <1>4, <1>5, <1>6, <1>7, <1>8, <1>9, <1>10, <1>11, <1>12
     DEF Next, Execute

(* Every step keeps the moves that were dealt with.                        *)
LEMMA MovesStep == CInv /\ [Next]_vars => MovesKept'
<1> SUFFICES ASSUME CInv, [Next]_vars PROVE MovesKept'
  OBVIOUS
<1> USE DEF database, history, memory
<1>a. /\ MovesKept /\ TasksFit /\ todo \in Seq(Task)
      /\ saved \in Nat /\ game.moves \in Nat /\ row.moves \in Nat
      /\ game.seats \in Seq(Player) /\ game \in Game
  BY DEF CInv, RecoveryTypeOK, Game, Row
<1>b. ASSUME NEW step, Next1(step), step # "save", todo' = Tail(todo),
             UNCHANGED <<live, saved, born>>, game'.moves = game.moves, row' = row,
             "save" \notin failed' => "save" \notin failed
      PROVE  MovesKept'
  BY <1>a, <1>b, TaskTaken DEF MovesKept
<1>c. ASSUME NEW step, Next1(step), step \notin Ends
      PROVE  live /\ born /\ saved =< game.moves
  BY <1>a, <1>c, TaskTaken DEF TasksFit, MovesKept
<1>d. ASSUME BotsLast(todo'), SavesFirst(todo'), UNCHANGED <<saved, failed, row>>, born',
             saved =< game'.moves
      PROVE  MovesKept'
  BY <1>a, <1>d DEF MovesKept
<1>e. << >> \in Seq(Task) /\ BotsLast(<< >>) /\ SavesFirst(<< >>)
  <2>1. Len(<< >>) = 0
    OBVIOUS
  <2> QED
    BY <2>1 DEF BotsLast, SavesFirst
<1>f. "save" # "unlist" /\ "save" # "list" /\ "save" # "stats" /\ "save" # "profile" /\ "save" # "drop"
  OBVIOUS
<1>1. CASE SaveRow
  <2>1. live /\ born /\ saved =< game.moves /\ BotsLast(Tail(todo)) /\ Tail(todo) \in Seq(Task)
    BY <1>1, <1>c, TaskTaken DEF SaveRow, Ends
  <2>2. CASE todo' = Tail(todo) /\ row' = row /\ Fails("save")
    <3>1. "save" \in failed'
      BY <2>2 DEF Fails
    <3> QED
      BY <1>1, <1>a, <2>1, <2>2, <3>1 DEF SaveRow, MovesKept
  <2>3. CASE todo' = ListTasks \o Tail(todo) /\ row' = Snapshot(game)
    <3>1. BotsLast(todo')
      BY <1>a, <2>1, <2>3, ListTasksOnly, TasksAhead
    <3>2. row'.moves = game.moves
      BY <2>3 DEF Snapshot
    <3>3. game' = game /\ saved' = saved /\ born' = born /\ live' = live
      BY <1>1 DEF SaveRow
    <3> QED
      BY <1>a, <2>1, <3>1, <3>2, <3>3 DEF MovesKept
  <2> QED
    BY <1>1, <2>2, <2>3 DEF SaveRow, ListTasks
<1>2. CASE UnlistPlayers \/ ListPlayer \/ SaveStats
  BY <1>2, <1>b DEF UnlistPlayers, ListPlayer, SaveStats, Works, Fails
<1>3. CASE TakeSeat
  <2>1. game'.moves = game.moves
    BY <1>3, <1>a DEF TakeSeat, Game
  <2> QED
    BY <1>3, <1>b, <2>1 DEF TakeSeat
<1>4. CASE StartNewRound
  <2>1. game'.moves = game.moves
    BY <1>4, <1>a DEF StartNewRound, Game
  <2> QED
    BY <1>4, <1>b, <2>1 DEF StartNewRound
<1>5. CASE Answer \/ StopPlaying \/ AnswerRemoved
  BY <1>5, <1>b DEF Answer, StopPlaying, AnswerRemoved
<1>6. CASE SaveProfile
  <2>1. CASE todo' = Tail(todo)
    BY <1>6, <1>b, <2>1 DEF SaveProfile, Works, Fails
  <2>2. CASE todo' = <<DoFor("stats", Head(todo).for)>> \o Tail(todo)
    <3>1. /\ Head(todo).for \in Player /\ Tail(todo) \in Seq(Task) /\ BotsLast(Tail(todo))
          /\ SavesFirst(todo) => SavesFirst(Tail(todo))
      BY <1>6, TaskTaken DEF SaveProfile
    <3>2. /\ <<DoFor("stats", Head(todo).for)>> \in Seq(Task)
          /\ \A t \in Range(<<DoFor("stats", Head(todo).for)>>) : t.do = "stats"
      BY <3>1, OneTask DEF DoFor, Task, Steps
    <3>3. BotsLast(todo') /\ (SavesFirst(todo) => SavesFirst(todo'))
      BY <2>2, <3>1, <3>2, TasksAhead
    <3>4. "save" \notin failed' => "save" \notin failed
      BY <1>6 DEF SaveProfile, Works, Fails
    <3> QED
      BY <1>6, <1>a, <3>3, <3>4 DEF SaveProfile, MovesKept
  <2> QED
    BY <1>6, <2>1, <2>2 DEF SaveProfile
<1>7. CASE DeleteRow
  <2>1. Head(todo) \in Range(todo) /\ Head(todo).do = "drop" /\ BotsLast(Tail(todo))
        /\ Tail(todo) \in Seq(Task) /\ Range(Tail(todo)) \subseteq Range(todo)
    BY <1>7, TaskTaken DEF DeleteRow
  <2>2. saved = 0 /\ ~live
    BY <1>a, <2>1 DEF TasksFit
  <2>3. SavesFirst(Tail(todo))
    BY <1>a, <2>1, <2>2, NothingToDealWith DEF TasksFit, Ends
  <2>4. row'.moves = row.moves \/ row'.moves = 0
    BY <1>7 DEF DeleteRow, NoRow
  <2>5. row' = row \/ row' = NoRow
    BY <1>7 DEF DeleteRow
  <2> QED
    BY <1>7, <1>a, <2>1, <2>2, <2>3, <2>4, <2>5 DEF DeleteRow, MovesKept
<1>8. CASE Handled
  <2>1. live /\ born
    BY <1>8, <1>c DEF Handled, Ends
  <2>2. /\ BotsLast(Tail(todo)) /\ todo # << >> /\ Head(todo).do = "handled"
    BY <1>8, TaskTaken DEF Handled
  <2>3. ~SavesFirst(todo)
    <3>1. 1 \in 1..Len(todo) /\ todo[1].do = "handled"
      BY <1>a, <2>2, LenProperties, HeadTailProperties
    <3> QED
      BY <3>1 DEF SavesFirst
  <2> QED
    BY <1>8, <1>a, <2>1, <2>2, <2>3 DEF Handled, MovesKept
<1>9. CASE PlayBot
  <2>1. live /\ born /\ saved =< game.moves /\ SavesFirst(todo)
    BY <1>9, <1>c, TaskTaken DEF PlayBot, Ends
  <2>2. game'.moves = game.moves + 1
    BY <1>9, <1>a, MoveTyped DEF PlayBot, Phase
  <2>3. saved =< game'.moves
    BY <1>a, <2>1, <2>2
  <2> QED
    BY <1>9, <1>a, <1>d, <2>1, <2>3 DEF PlayBot, MovesKept
<1>10. ASSUME NEW p \in Human, NEW bots \in BotSeqs, HandleCreateGame(p, bots)
      PROVE  MovesKept'
  <2>1. BotsLast(todo') /\ SavesFirst(todo')
    BY <1>10, CreateTasksOnly, NothingToDealWith DEF HandleCreateGame
  <2>2. game'.moves = 0 /\ saved = 0
    BY <1>10, <1>a DEF HandleCreateGame, NewGame, MovesKept
  <2> QED
    BY <1>10, <1>a, <1>d, <2>1, <2>2 DEF HandleCreateGame
<1>11. ASSUME NEW p \in Human, HandleJoinByCode(p) PROVE MovesKept'
  <2>1. BotsLast(todo') /\ SavesFirst(todo')
    BY <1>11, AnsweredTasksOnly, NothingToDealWith DEF HandleJoinByCode
  <2> QED
    BY <1>11, <1>a, <1>d, <2>1 DEF HandleJoinByCode, MovesKept
<1>12. ASSUME NEW p \in Human, HandleLeaveGame(p) PROVE MovesKept'
  <2>1. game'.moves = game.moves
    BY <1>12, <1>a DEF HandleLeaveGame, Game
  <2> QED
    BY <1>12, <1>a, <2>1 DEF HandleLeaveGame, MovesKept
<1>13. ASSUME NEW p \in Human, HandleGameAction(p) PROVE MovesKept'
  <2>1. BotsLast(todo') /\ SavesFirst(todo')
    BY <1>13, ActionTasksOnly DEF HandleGameAction
  <2>2. PICK turn \in 0..Len(game.seats) - 1 :
           game' = AfterMove(game.phase, turn) \/ game' = AfterMove("ROUND_ENDED", turn)
    BY <1>13 DEF HandleGameAction
  <2>3. game.phase \in Phase /\ "ROUND_ENDED" \in Phase
    BY <1>a DEF Game, Phase
  <2>4. game'.moves = game.moves + 1
    BY <1>a, <2>2, <2>3, MoveTyped
  <2> QED
    BY <1>13, <1>a, <1>d, <2>1, <2>4 DEF HandleGameAction, MovesKept, Idle
<1>14. CASE HandleStartGame
  <2>1. game'.moves = game.moves
    BY <1>14, <1>a DEF HandleStartGame, Game
  <2> QED
    BY <1>14, <1>a, <1>d, <2>1, StartTasksOnly DEF HandleStartGame, MovesKept
<1>15. CASE HandleCleanupStaleLobbies
  <2>1. BotsLast(todo') /\ SavesFirst(todo')
    BY <1>15, RemoveTasksOnly, NothingToDealWith DEF HandleCleanupStaleLobbies, Ends
  <2> QED
    BY <1>15, <1>a, <2>1 DEF HandleCleanupStaleLobbies, MovesKept
<1>16. CASE Crash
  <2>1. "save" \notin failed' => "save" \notin failed
    BY <1>16 DEF Crash
  <2> QED
    BY <1>16, <1>a, <1>e, <2>1 DEF Crash, MovesKept
<1>17. CASE Restart
  <2>1. ~live /\ todo' = << >>
    BY <1>17, <1>a DEF Restart, TasksFit
  <2>2. live' => game'.moves = row.moves /\ born
    <3> SUFFICES ASSUME live' PROVE game'.moves = row.moves /\ born
      OBVIOUS
    <3>1. IsActive(row) /\ game' = FromRow(row)
      BY <1>17, <2>1 DEF Restart, Load, LoadFails
    <3>2. row # NoRow
      BY <3>1 DEF IsActive, NoRow
    <3> QED
      BY <1>a, <3>1, <3>2 DEF MovesKept, FromRow
  <2>3. saved' =< row.moves /\ (~born => saved' = 0)
    BY <1>17, <1>a DEF Restart, MovesKept
  <2>4. ~born => ~live'
    BY <2>2
  <2> QED
    BY <1>17, <1>a, <1>e, <2>1, <2>2, <2>3, <2>4 DEF Restart, MovesKept
<1>18. CASE UNCHANGED vars
  BY <1>18, <1>a DEF vars, MovesKept
<1> QED
  BY <1>1, <1>2, <1>3, <1>4, <1>5, <1>6, <1>7, <1>8, <1>9, <1>10, <1>11, <1>12, <1>13,
     <1>14, <1>15, <1>16, <1>17, <1>18 DEF Next, Execute

(* What holds of every reachable state, between any two statements and     *)
(* after any crash.                                                        *)
THEOREM RecoveryInvariance == Spec => []CInv
<1>1. CInv /\ [Next]_vars => CInv'
  BY RecoveryTypeStep, TasksStep, StatsStep, MovesStep DEF CInv
<1> QED
  BY RecoveryInit, <1>1, PTL DEF Spec

(* The types of WhotRecovery's variables.                                  *)
THEOREM RecoveryTypeCorrect == Spec => []RecoveryTypeOK
<1>1. CInv => RecoveryTypeOK
  BY DEF CInv
<1> QED
  BY RecoveryInvariance, <1>1, PTL

(* No crash undoes a human's move that was dealt with.                     *)
THEOREM MovesAreKept == Spec => []HumanMovesSurvive
<1>1. CInv => HumanMovesSurvive
  BY DEF CInv, MovesKept, HumanMovesSurvive
<1> QED
  BY RecoveryInvariance, <1>1, PTL

(* Whoever has statistics has a name on the leaderboard.                   *)
THEOREM LeaderboardIsNamed == Spec => []RankedAreNamed
<1>1. CInv => RankedAreNamed
  <2> SUFFICES ASSUME CInv, NEW p \in ranked
               PROVE  [player |-> p, named |-> p \in profiled].named
    BY DEF RankedAreNamed, Leaderboard
  <2>1. p \in profiled
    BY DEF CInv, StatsOfKnown
  <2> QED
    BY <2>1
<1> QED
  BY RecoveryInvariance, <1>1, PTL
=============================================================================
