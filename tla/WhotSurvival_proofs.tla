------------------------ MODULE WhotSurvival_proofs -------------------------
(***************************************************************************)
(* What the rest of a handler, todo, owes to memory and to the database:   *)
(* whatever is due is done in the order that keeps a crash harmless.       *)
(***************************************************************************)
EXTENDS WhotRecovery_proofs

USE RecoveryAssumption

\* A task of this kind comes before the i-th.
DoneBefore(s, step, i) == \E j \in 1..(i - 1) : s[j].do = step

SaveDue(s) == \E j \in 1..Len(s) : s[j].do = "save"

\* A new round is to be dealt, and saved after it.
RoundDue(s) ==
    \E i, j \in 1..Len(s) : i < j /\ s[i].do = "newRound" /\ s[j].do = "save"

\* The row is deleted before the removal is answered.
DropsFirst(s) == \A i \in 1..Len(s) : s[i].do = "removed" => DoneBefore(s, "drop", i)

(* Nothing happens before the game is created.                             *)
BornFirst == ~born => todo = << >> /\ ~removed /\ joined = {}

(* A removed game is out of memory and out of the database.                *)
RemovedKept ==
    "drop" \notin failed =>
        /\ DropsFirst(todo) \/ row = NoRow
        /\ removed => row = NoRow /\ ~live

(* An ended round is followed by the next, and that one is saved.          *)
RoundsGoOn ==
    /\ row.status = "active" => row.phase # "ROUND_ENDED"
    /\ (live /\ game.phase = "ROUND_ENDED") => RoundDue(todo)
    /\ (live /\ "save" \notin failed) => row.status = "active" \/ SaveDue(todo)

\* Before the i-th task player p is seated, before anybody else is, and saved.
ToSeat(s, p, i) ==
    \E k, j \in 1..(i - 1) :
        /\ k < j
        /\ s[k].do = "seat" /\ s[k].for = p
        /\ s[j].do = "save"
        /\ \A m \in 1..(k - 1) : s[m].do # "seat"

\* Whoever is about to be answered has a seat or gets one, and it is saved.
AnswersDueIn(s, g, r, f) ==
    \A i \in 1..Len(s) : s[i].do = "answer" =>
        \/ ToSeat(s, s[i].for, i) /\ Len(g.seats) < g.limit
        \/ /\ s[i].for \in ToSet(g.seats)
           /\ \/ "save" \in f
              \/ s[i].for \in ToSet(r.seats)
              \/ DoneBefore(s, "save", i)

(* Whoever has joined has a seat, in memory and in the database.           *)
JoinedKept ==
    /\ live => joined \subseteq ToSet(game.seats)
    /\ "save" \notin failed => joined \subseteq ToSet(row.seats)
    /\ (\E t \in Range(todo) : t.do = "drop") => joined = {}
    /\ AnswersDueIn(todo, game, row, failed)

SInv == BornFirst /\ RemovedKept /\ RoundsGoOn /\ JoinedKept

-----------------------------------------------------------------------------

(* What is due when the first task is taken off.                           *)
LEMMA DueLater ==
    ASSUME NEW s \in Seq(Task), s # << >>
    PROVE  /\ (DropsFirst(s) /\ Head(s).do # "drop") => DropsFirst(Tail(s))
           /\ (DropsFirst(s) => Head(s).do # "removed")
           /\ (SaveDue(s) /\ Head(s).do # "save") => SaveDue(Tail(s))
           /\ (RoundDue(s) /\ Head(s).do # "newRound") => RoundDue(Tail(s))
           /\ RoundDue(s) => SaveDue(s)
<1> DEFINE n == Len(s)
           r == Tail(s)
<1>1. /\ n \in Nat \ {0} /\ r \in Seq(Task) /\ Len(r) = n - 1
      /\ Head(s) = s[1] /\ \A i \in 1..(n - 1) : r[i] = s[i + 1]
  BY HeadTailProperties, LenProperties
<1> HIDE DEF r
<1>2. \A k \in 1..n : k # 1 => k - 1 \in 1..(n - 1) /\ r[k - 1] = s[k]
  <2> SUFFICES ASSUME NEW k \in 1..n, k # 1
               PROVE  k - 1 \in 1..(n - 1) /\ r[k - 1] = s[k]
    OBVIOUS
  <2>1. k - 1 \in 1..(n - 1) /\ (k - 1) + 1 = k
    BY <1>1
  <2> QED
    BY <1>1, <2>1
<1>3. ASSUME DropsFirst(s), Head(s).do # "drop" PROVE DropsFirst(r)
  <2> SUFFICES ASSUME NEW i \in 1..(n - 1), r[i].do = "removed"
               PROVE  \E j \in 1..(i - 1) : r[j].do = "drop"
    BY <1>1 DEF DropsFirst, DoneBefore
  <2>1. i + 1 \in 1..n /\ s[i + 1].do = "removed"
    BY <1>1
  <2>2. PICK k \in 1..(i + 1 - 1) : s[k].do = "drop"
    BY <1>3, <2>1 DEF DropsFirst, DoneBefore
  <2>3. k \in 1..n /\ k # 1 /\ k - 1 \in 1..(i - 1)
    BY <1>1, <1>3, <2>2
  <2> QED
    BY <1>2, <2>2, <2>3
<1>4. ASSUME DropsFirst(s) PROVE Head(s).do # "removed"
  BY <1>1, <1>4 DEF DropsFirst, DoneBefore
<1>5. ASSUME SaveDue(s), Head(s).do # "save" PROVE SaveDue(r)
  <2>1. PICK k \in 1..n : s[k].do = "save"
    BY <1>5 DEF SaveDue
  <2> QED
    BY <1>1, <1>2, <1>5, <2>1 DEF SaveDue
<1>6. ASSUME RoundDue(s), Head(s).do # "newRound" PROVE RoundDue(r)
  <2>1. PICK i \in 1..n : \E j \in 1..n : i < j /\ s[i].do = "newRound" /\ s[j].do = "save"
    BY <1>6 DEF RoundDue
  <2>2. PICK j \in 1..n : i < j /\ s[i].do = "newRound" /\ s[j].do = "save"
    BY <2>1
  <2>3. i # 1 /\ j # 1 /\ i - 1 < j - 1
    BY <1>1, <1>6, <2>2
  <2>4. /\ i - 1 \in 1..Len(r) /\ r[i - 1].do = "newRound"
        /\ j - 1 \in 1..Len(r) /\ r[j - 1].do = "save"
    BY <1>1, <1>2, <2>2, <2>3
  <2> QED
    BY <2>3, <2>4 DEF RoundDue
<1>7. RoundDue(s) => SaveDue(s)
  BY DEF RoundDue, SaveDue
<1> QED
  BY <1>3, <1>4, <1>5, <1>6, <1>7 DEF r

(* What is due when other tasks come first.                                *)
LEMMA DueAfter ==
    ASSUME NEW a \in Seq(Task), NEW s \in Seq(Task)
    PROVE  /\ SaveDue(s) => SaveDue(a \o s)
           /\ RoundDue(s) => RoundDue(a \o s)
<1> DEFINE c == a \o s
           m == Len(a)
<1>1. /\ c \in Seq(Task) /\ m \in Nat /\ Len(s) \in Nat /\ Len(c) = m + Len(s)
      /\ \A i \in 1..(m + Len(s)) : c[i] = IF i <= m THEN a[i] ELSE s[i - m]
  BY ConcatProperties, LenProperties
<1> HIDE DEF c, m
<1>2. \A k \in 1..Len(s) : k + m \in 1..Len(c) /\ c[k + m] = s[k]
  <2> SUFFICES ASSUME NEW k \in 1..Len(s)
               PROVE  k + m \in 1..Len(c) /\ c[k + m] = s[k]
    OBVIOUS
  <2>1. k + m \in 1..(m + Len(s)) /\ ~(k + m <= m) /\ (k + m) - m = k
    BY <1>1
  <2> QED
    BY <1>1, <2>1
<1>3. ASSUME SaveDue(s) PROVE SaveDue(c)
  BY <1>2, <1>3 DEF SaveDue
<1>4. ASSUME RoundDue(s) PROVE RoundDue(c)
  <2>1. PICK i \in 1..Len(s) : \E j \in 1..Len(s) : i < j /\ s[i].do = "newRound" /\ s[j].do = "save"
    BY <1>4 DEF RoundDue
  <2>2. PICK j \in 1..Len(s) : i < j /\ s[i].do = "newRound" /\ s[j].do = "save"
    BY <2>1
  <2>3. i + m < j + m
    BY <1>1, <2>2
  <2> QED
    BY <1>2, <2>2, <2>3 DEF RoundDue
<1> QED
  BY <1>3, <1>4 DEF c

(* Tasks without the answer to a removal owe none.                         *)
LEMMA NothingRemoved ==
    ASSUME NEW s \in Seq(Task), \A t \in Range(s) : t.do # "removed"
    PROVE  DropsFirst(s)
BY RangeEquality DEF DropsFirst

(* What nothing owes.                                                      *)
LEMMA NothingDue == << >> \in Seq(Task) /\ DropsFirst(<< >>) /\ ~SaveDue(<< >>) /\ ~RoundDue(<< >>)
<1>1. Len(<< >>) = 0
  OBVIOUS
<1> QED
  BY <1>1 DEF DropsFirst, SaveDue, RoundDue

(* What the handlers owe when they start.                                  *)
LEMMA HandlersOwe ==
    /\ \A ends \in BOOLEAN : SaveDue(ActionTasks(ends))
    /\ RoundDue(ActionTasks(TRUE))
    /\ SaveDue(<<Do("save"), Do("play")>>)
    /\ DropsFirst(<<Do("unlist"), Do("drop"), Do("removed")>>)
<1>1. \A step : Do(step).do = step
  BY DEF Do
<1>2. SaveDue(ActionTasks(TRUE)) /\ SaveDue(ActionTasks(FALSE)) /\ RoundDue(ActionTasks(TRUE))
  BY <1>1 DEF ActionTasks, SaveDue, RoundDue
<1>3. SaveDue(<<Do("save"), Do("play")>>)
  BY <1>1 DEF SaveDue
<1>4. DropsFirst(<<Do("unlist"), Do("drop"), Do("removed")>>)
  BY <1>1 DEF DropsFirst, DoneBefore
<1> QED
  BY <1>2, <1>3, <1>4

(* A creation saves first of all.                                          *)
LEMMA CreationOwes ==
    ASSUME NEW p \in Human, NEW bots \in BotSeqs, NEW tasks,
           tasks = <<Do("save")>> \o JoinTasks(p)
                     \o BotTasks(bots) \o (IF bots = << >> THEN << >> ELSE <<Do("save")>>)
                     \o <<DoFor("answer", p)>>
    PROVE  SaveDue(tasks)
<1>1. /\ Do("save") \in Task /\ DoFor("answer", p) \in Task /\ Do("save").do = "save"
  BY DEF Do, DoFor, Task, Steps, Player
<1> DEFINE a == <<Do("save")>>
           b == JoinTasks(p)
           c == BotTasks(bots)
           d == IF bots = << >> THEN << >> ELSE <<Do("save")>>
           e == <<DoFor("answer", p)>>
           Owes(s) == s \in Seq(Task) /\ s # << >> /\ s[1].do = "save"
<1>2. Owes(a) /\ e \in Seq(Task) /\ b \in Seq(Task) /\ d \in Seq(Task)
  BY <1>1, OneTask, JoinTasksOnly, EmptySeq DEF Player
<1>3. bots \in Seq(Player)
  BY DEF BotSeqs, Player
<1>4. c \in Seq(Task)
  BY <1>3, SeatsListed DEF BotTasks, Steps
<1> HIDE DEF a, b, c, d, e
<1>5. ASSUME NEW s \in Seq(Task), NEW u \in Seq(Task), Owes(s) PROVE Owes(s \o u)
  <2>1. s \o u \in Seq(Task) /\ Len(s) \in Nat \ {0} /\ Len(u) \in Nat
        /\ Len(s \o u) = Len(s) + Len(u)
        /\ \A i \in 1..(Len(s) + Len(u)) : (s \o u)[i] = IF i <= Len(s) THEN s[i] ELSE u[i - Len(s)]
    BY <1>5, ConcatProperties, LenProperties, EmptySeq
  <2>2. 1 \in 1..(Len(s) + Len(u)) /\ 1 <= Len(s)
    BY <2>1
  <2>3. (s \o u)[1] = s[1]
    BY <2>1, <2>2
  <2>4. Len(s \o u) # 0
    BY <2>1
  <2>5. s \o u # << >>
    BY <2>4
  <2> QED
    BY <1>5, <2>1, <2>3, <2>5
<1>6. Owes(a \o b)
  BY <1>2, <1>5
<1>7. Owes(a \o b \o c)
  BY <1>4, <1>5, <1>6
<1>8. Owes(a \o b \o c \o d)
  BY <1>2, <1>5, <1>7
<1>9. Owes(a \o b \o c \o d \o e)
  BY <1>2, <1>5, <1>8
<1>10. Owes(tasks)
  BY <1>9 DEF a, b, c, d, e
<1>11. 1 \in 1..Len(tasks)
  BY <1>10, LenProperties, EmptySeq
<1> QED
  BY <1>10, <1>11 DEF SaveDue

-----------------------------------------------------------------------------

(* What a step finds when it takes off the first task.                     *)
LEMMA TaskOwed ==
    ASSUME CInv, NEW step, Next1(step)
    PROVE  /\ step \notin Ends => live
           /\ step \in {"drop", "removed"} => ~live
           /\ born \/ ~live
           /\ (DropsFirst(todo) /\ step # "drop") => DropsFirst(Tail(todo))
           /\ DropsFirst(todo) => step # "removed"
           /\ (SaveDue(todo) /\ step # "save") => SaveDue(Tail(todo))
           /\ (RoundDue(todo) /\ step # "newRound") => RoundDue(Tail(todo))
           /\ RoundDue(todo) => SaveDue(todo)
           /\ RoundDue(Tail(todo)) => SaveDue(Tail(todo))
<1>1. /\ todo \in Seq(Task) /\ todo # << >> /\ Head(todo).do = step
      /\ Head(todo) \in Range(todo) /\ Tail(todo) \in Seq(Task)
  BY TaskTaken
<1>2. TasksFit /\ MovesKept
  BY DEF CInv
<1>3. /\ step \notin Ends => live
      /\ step \in {"drop", "removed"} => ~live
      /\ born \/ ~live
  BY <1>1, <1>2 DEF TasksFit, MovesKept
<1>4. RoundDue(Tail(todo)) => SaveDue(Tail(todo))
  BY DEF RoundDue, SaveDue
<1> QED
  BY <1>1, <1>3, <1>4, DueLater

(* Nothing happens before the creation.                                    *)
LEMMA BornStep == CInv /\ BornFirst /\ [Next]_vars => BornFirst'
<1> SUFFICES ASSUME CInv, BornFirst, [Next]_vars PROVE BornFirst'
  OBVIOUS
<1> USE DEF database, history, memory
<1>1. CASE born
  <2>1. born'
    BY <1>1 DEF Next, Execute, SaveRow, UnlistPlayers, ListPlayer, SaveProfile, SaveStats,
         DeleteRow, TakeSeat, Answer, StartNewRound, Handled, PlayBot, StopPlaying,
         AnswerRemoved, HandleCreateGame, HandleJoinByCode, HandleLeaveGame,
         HandleGameAction, HandleStartGame, HandleCleanupStaleLobbies, Crash, Restart, vars
  <2> QED
    BY <2>1 DEF BornFirst
<1>2. CASE ~born
  <2>1. ~live /\ todo = << >> /\ ~removed /\ joined = {}
    BY <1>2 DEF CInv, MovesKept, BornFirst
  <2>2. ~Execute
    BY <2>1 DEF Execute, SaveRow, UnlistPlayers, ListPlayer, SaveProfile, SaveStats,
         DeleteRow, TakeSeat, Answer, StartNewRound, Handled, PlayBot, StopPlaying,
         AnswerRemoved, Next1
  <2>3. CASE Restart
    <3>1. joined' = joined \/ joined' = joined \cap ToSet(row.seats)
      BY <2>3 DEF Restart
    <3> QED
      BY <2>1, <2>3, <3>1 DEF Restart, BornFirst
  <2>4. CASE Crash \/ UNCHANGED vars
    BY <2>1, <2>4 DEF Crash, vars, BornFirst
  <2>5. ASSUME NEW p \in Human, NEW bots \in BotSeqs, HandleCreateGame(p, bots)
        PROVE  BornFirst'
    BY <2>5 DEF HandleCreateGame, BornFirst
  <2>6. /\ ~HandleStartGame /\ ~HandleCleanupStaleLobbies
        /\ \A p \in Human : ~HandleJoinByCode(p) /\ ~HandleLeaveGame(p) /\ ~HandleGameAction(p)
    BY <2>1 DEF HandleStartGame, HandleCleanupStaleLobbies, HandleJoinByCode,
         HandleLeaveGame, HandleGameAction
  <2> QED
    BY <2>2, <2>3, <2>4, <2>5, <2>6 DEF Next
<1> QED
  BY <1>1, <1>2

(* A removed game stays removed.                                           *)
LEMMA RemovedStep == CInv /\ BornFirst /\ RemovedKept /\ [Next]_vars => RemovedKept'
<1> SUFFICES ASSUME CInv, BornFirst, RemovedKept, [Next]_vars, "drop" \notin failed'
             PROVE  /\ DropsFirst(todo') \/ row' = NoRow
                    /\ removed' => row' = NoRow /\ ~live'
  BY DEF RemovedKept
<1> USE DEF database, history, memory
<1>a. /\ "drop" \notin failed => /\ DropsFirst(todo) \/ row = NoRow
                                 /\ removed => row = NoRow /\ ~live
      /\ TasksFit /\ todo \in Seq(Task)
  BY DEF RemovedKept, CInv, RecoveryTypeOK
<1>b. ASSUME NEW step, Next1(step), step # "drop", todo' = Tail(todo),
             UNCHANGED <<live, removed, row>>, "drop" \notin failed
      PROVE  /\ DropsFirst(todo') \/ row' = NoRow
             /\ removed' => row' = NoRow /\ ~live'
  BY <1>a, <1>b, TaskOwed
<1>c. "drop" # "unlist" /\ "drop" # "list" /\ "drop" # "stats" /\ "drop" # "profile" /\ "drop" # "save"
  OBVIOUS
<1>d. ASSUME live, UNCHANGED <<live, removed>>, "drop" \notin failed,
             todo' \in Seq(Task), \A t \in Range(todo') : t.do # "removed"
      PROVE  /\ DropsFirst(todo') \/ row' = NoRow
             /\ removed' => row' = NoRow /\ ~live'
  BY <1>a, <1>d, NothingRemoved
<1>1. CASE SaveRow
  <2>1. "drop" \notin failed /\ live
    BY <1>1, TaskOwed DEF SaveRow, Works, Fails, Ends
  <2>2. /\ Tail(todo) \in Seq(Task) /\ Range(Tail(todo)) \subseteq Range(todo)
    BY <1>1, TaskTaken DEF SaveRow
  <2>3. \A t \in Range(Tail(todo)) : t.do # "removed"
    BY <1>a, <2>1, <2>2 DEF TasksFit
  <2>4. CASE todo' = Tail(todo)
    BY <1>1, <1>d, <2>1, <2>2, <2>3, <2>4 DEF SaveRow
  <2>5. CASE todo' = ListTasks \o Tail(todo)
    <3>1. game.seats \in Seq(Player)
      BY DEF CInv, RecoveryTypeOK, Game
    <3>2. /\ ListTasks \in Seq(Task)
          /\ \A t \in Range(ListTasks) : t.do \in {"unlist", "list"}
      BY <3>1, ListTasksOnly
    <3>3. todo' \in Seq(Task) /\ Range(todo') = Range(ListTasks) \cup Range(Tail(todo))
      BY <2>2, <2>5, <3>2, TasksAhead
    <3> QED
      BY <1>1, <1>d, <2>1, <2>3, <3>2, <3>3 DEF SaveRow
  <2> QED
    BY <1>1, <2>4, <2>5 DEF SaveRow, ListTasks
<1>2. CASE UnlistPlayers \/ ListPlayer \/ SaveStats
  BY <1>2, <1>b DEF UnlistPlayers, ListPlayer, SaveStats, Works, Fails
<1>3. CASE TakeSeat \/ Answer \/ StartNewRound \/ Handled \/ StopPlaying
  BY <1>3, <1>b DEF TakeSeat, Answer, StartNewRound, Handled, StopPlaying
<1>4. CASE SaveProfile
  <2>1. "drop" \notin failed /\ live
    BY <1>4, TaskOwed DEF SaveProfile, Works, Fails, Ends
  <2>2. CASE todo' = Tail(todo)
    BY <1>4, <1>b, <2>1, <2>2 DEF SaveProfile
  <2>3. CASE todo' = <<DoFor("stats", Head(todo).for)>> \o Tail(todo)
    <3>1. /\ Head(todo).for \in Player /\ Tail(todo) \in Seq(Task)
          /\ Range(Tail(todo)) \subseteq Range(todo)
      BY <1>4, TaskTaken DEF SaveProfile
    <3>2. /\ <<DoFor("stats", Head(todo).for)>> \in Seq(Task)
          /\ \A t \in Range(<<DoFor("stats", Head(todo).for)>>) : t.do = "stats"
      BY <3>1, OneTask DEF DoFor, Task, Steps
    <3>3. /\ todo' \in Seq(Task)
          /\ Range(todo') = Range(<<DoFor("stats", Head(todo).for)>>) \cup Range(Tail(todo))
      BY <2>3, <3>1, <3>2, TasksAhead
    <3>4. \A t \in Range(Tail(todo)) : t.do # "removed"
      BY <1>a, <2>1, <3>1 DEF TasksFit
    <3> QED
      BY <1>4, <1>d, <2>1, <3>2, <3>3, <3>4 DEF SaveProfile
  <2> QED
    BY <1>4, <2>2, <2>3 DEF SaveProfile
<1>5. CASE DeleteRow
  <2>1. ~live
    BY <1>5, TaskOwed DEF DeleteRow
  <2>2. row' = NoRow
    BY <1>5 DEF DeleteRow, Fails
  <2> QED
    BY <1>5, <2>1, <2>2 DEF DeleteRow
<1>6. CASE AnswerRemoved
  <2>1. ~live /\ (DropsFirst(todo) => FALSE)
    BY <1>6, TaskOwed DEF AnswerRemoved
  <2> QED
    BY <1>6, <1>a, <2>1 DEF AnswerRemoved
<1>7. CASE PlayBot \/ \E p \in Human : HandleLeaveGame(p)
  BY <1>7, <1>a DEF PlayBot, HandleLeaveGame
<1>8. ASSUME NEW p \in Human, NEW bots \in BotSeqs, HandleCreateGame(p, bots)
      PROVE  DropsFirst(todo') /\ ~removed'
  <2>1. todo' \in Seq(Task) /\ \A t \in Range(todo') : t.do # "removed"
    BY <1>8, CreateTasksOnly DEF HandleCreateGame
  <2> QED
    BY <1>8, <2>1, NothingRemoved DEF HandleCreateGame, BornFirst
<1>9. ASSUME NEW p \in Human, HandleJoinByCode(p)
      PROVE  DropsFirst(todo') /\ ~removed'
  <2>1. todo' \in Seq(Task) /\ \A t \in Range(todo') : t.do # "removed"
    BY <1>9, AnsweredTasksOnly DEF HandleJoinByCode
  <2> QED
    BY <1>9, <1>a, <2>1, NothingRemoved DEF HandleJoinByCode
<1>10. ASSUME NEW p \in Human, HandleGameAction(p)
      PROVE  DropsFirst(todo') /\ ~removed'
  <2>1. todo' \in Seq(Task) /\ \A t \in Range(todo') : t.do # "removed"
    BY <1>10, ActionTasksOnly DEF HandleGameAction
  <2> QED
    BY <1>10, <1>a, <2>1, NothingRemoved DEF HandleGameAction
<1>11. CASE HandleStartGame
  <2>1. todo' \in Seq(Task) /\ \A t \in Range(todo') : t.do # "removed"
    BY <1>11, StartTasksOnly DEF HandleStartGame
  <2> QED
    BY <1>11, <1>a, <2>1, NothingRemoved DEF HandleStartGame
<1>12. CASE HandleCleanupStaleLobbies
  BY <1>12, <1>a, HandlersOwe DEF HandleCleanupStaleLobbies
<1>13. CASE Crash
  <2>1. "drop" \notin failed
    BY <1>13 DEF Crash
  <2> QED
    BY <1>13, <1>a, <2>1, NothingDue DEF Crash
<1>14. CASE Restart
  <2>1. ~live /\ todo' = << >> /\ "drop" \notin failed /\ row' = row /\ removed' = removed
    BY <1>14, <1>a DEF Restart, TasksFit
  <2>2. row = NoRow => live' = live
    BY <1>14 DEF Restart, Load, LoadFails, IsActive, NoRow
  <2> QED
    BY <1>a, <2>1, <2>2, NothingDue
<1>15. CASE UNCHANGED vars
  BY <1>15, <1>a DEF vars
<1> QED
  BY <1>1, <1>2, <1>3, <1>4, <1>5, <1>6, <1>7, <1>8, <1>9, <1>10, <1>11, <1>12, <1>13,
     <1>14, <1>15 DEF Next, Execute

(* An ended round is followed by the next.                                 *)
LEMMA RoundsStep == CInv /\ RoundsGoOn /\ [Next]_vars => RoundsGoOn'
<1> SUFFICES ASSUME CInv, RoundsGoOn, [Next]_vars PROVE RoundsGoOn'
  OBVIOUS
<1> USE DEF database, history, memory
<1>a. /\ RoundsGoOn /\ TasksFit /\ todo \in Seq(Task) /\ game \in Game /\ row \in Row
      /\ game.seats \in Seq(Player) /\ game.phase \in Phase
  BY DEF CInv, RecoveryTypeOK, Game
<1>b. ASSUME NEW step, Next1(step), step \notin {"save", "newRound"}, todo' = Tail(todo),
             UNCHANGED <<live, row>>, game'.phase = game.phase,
             "save" \notin failed' => "save" \notin failed
      PROVE  RoundsGoOn'
  BY <1>a, <1>b, TaskOwed DEF RoundsGoOn
<1>c. /\ "save" # "unlist" /\ "save" # "list" /\ "save" # "stats" /\ "save" # "profile"
      /\ "save" # "drop" /\ "IN_PROGRESS" # "ROUND_ENDED" /\ "LOBBY" # "ROUND_ENDED"
  OBVIOUS
<1>d. (todo = << >> /\ live) =>
         game.phase # "ROUND_ENDED" /\ ("save" \notin failed => row.status = "active")
  BY NothingDue DEF RoundsGoOn
<1>e. ASSUME SaveDue(todo'), game'.phase # "ROUND_ENDED" \/ RoundDue(todo'), row' = row
      PROVE  RoundsGoOn'
  BY <1>a, <1>e DEF RoundsGoOn
<1>1. CASE SaveRow
  <2>1. CASE row' = row /\ todo' = Tail(todo) /\ Fails("save")
    <3>1. "save" \in failed'
      BY <2>1 DEF Fails
    <3>2. RoundDue(todo) => RoundDue(Tail(todo))
      BY <1>1, TaskOwed DEF SaveRow
    <3> QED
      BY <1>1, <1>a, <2>1, <3>1, <3>2 DEF SaveRow, RoundsGoOn
  <2>2. CASE row' = Snapshot(game) /\ todo' = ListTasks \o Tail(todo)
    <3>1. Tail(todo) \in Seq(Task) /\ ListTasks \in Seq(Task)
      BY <1>1, <1>a, TaskTaken, ListTasksOnly DEF SaveRow
    <3>2. RoundDue(todo) => RoundDue(todo') /\ SaveDue(todo')
      <4>1. /\ RoundDue(todo) => RoundDue(Tail(todo))
            /\ RoundDue(Tail(todo)) => SaveDue(Tail(todo))
        BY <1>1, TaskOwed DEF SaveRow
      <4>2. /\ RoundDue(Tail(todo)) => RoundDue(todo')
            /\ SaveDue(Tail(todo)) => SaveDue(todo')
        BY <2>2, <3>1, DueAfter
      <4> QED
        BY <4>1, <4>2
    <3>3. /\ row'.phase = game.phase
          /\ row'.status = IF game.phase = "ROUND_ENDED" THEN "round_ended" ELSE "active"
      BY <2>2 DEF Snapshot
    <3>4. live' = live /\ game' = game
      BY <1>1 DEF SaveRow
    <3> QED
      BY <1>a, <3>2, <3>3, <3>4 DEF RoundsGoOn
  <2> QED
    BY <1>1, <2>1, <2>2 DEF SaveRow, ListTasks
<1>2. CASE UnlistPlayers \/ ListPlayer \/ SaveStats
  BY <1>2, <1>b, <1>c DEF UnlistPlayers, ListPlayer, SaveStats, Works, Fails
<1>3. CASE Answer \/ Handled \/ StopPlaying \/ AnswerRemoved
  BY <1>3, <1>b DEF Answer, Handled, StopPlaying, AnswerRemoved
<1>4. CASE TakeSeat
  <2>1. game'.phase = game.phase
    BY <1>4, <1>a DEF TakeSeat, Game
  <2> QED
    BY <1>4, <1>b, <2>1 DEF TakeSeat
<1>5. CASE StartNewRound
  <2>1. game'.phase = "IN_PROGRESS"
    BY <1>5, <1>a DEF StartNewRound, Game
  <2>2. SaveDue(todo) => SaveDue(todo')
    BY <1>5, TaskOwed DEF StartNewRound
  <2> QED
    BY <1>5, <1>a, <2>1, <2>2 DEF StartNewRound, RoundsGoOn
<1>6. CASE SaveProfile
  <2>1. CASE todo' = Tail(todo)
    BY <1>6, <1>b, <1>c, <2>1 DEF SaveProfile, Works, Fails
  <2>2. CASE todo' = <<DoFor("stats", Head(todo).for)>> \o Tail(todo)
    <3>1. /\ Head(todo).for \in Player /\ Tail(todo) \in Seq(Task)
          /\ SaveDue(todo) => SaveDue(Tail(todo))
          /\ RoundDue(todo) => RoundDue(Tail(todo))
      BY <1>6, TaskTaken, TaskOwed DEF SaveProfile
    <3>2. <<DoFor("stats", Head(todo).for)>> \in Seq(Task)
      BY <3>1, OneTask DEF DoFor, Task, Steps
    <3>3. /\ SaveDue(todo) => SaveDue(todo')
          /\ RoundDue(todo) => RoundDue(todo')
      BY <2>2, <3>1, <3>2, DueAfter
    <3>4. "save" \notin failed' => "save" \notin failed
      BY <1>6, <1>c DEF SaveProfile, Works, Fails
    <3> QED
      BY <1>6, <1>a, <3>3, <3>4 DEF SaveProfile, RoundsGoOn
  <2> QED
    BY <1>6, <2>1, <2>2 DEF SaveProfile
<1>7. CASE DeleteRow
  <2>1. ~live
    BY <1>7, TaskOwed DEF DeleteRow
  <2>2. row' = row \/ row' = NoRow
    BY <1>7 DEF DeleteRow
  <2> QED
    BY <1>7, <1>a, <2>1, <2>2 DEF DeleteRow, RoundsGoOn, NoRow
<1>8. CASE PlayBot
  <2>1. PICK turn \in 0..Len(game.seats) - 1 : game' = AfterMove("IN_PROGRESS", turn)
    BY <1>8 DEF PlayBot
  <2>2. game'.phase = "IN_PROGRESS"
    BY <1>a, <2>1 DEF AfterMove, Game
  <2> QED
    BY <1>8, <1>a, <1>c, <2>2 DEF PlayBot, RoundsGoOn
<1>9. ASSUME NEW p \in Human, NEW bots \in BotSeqs, HandleCreateGame(p, bots)
      PROVE  RoundsGoOn'
  <2>1. SaveDue(todo') /\ game'.phase = "LOBBY" /\ row' = row
    BY <1>9, CreationOwes DEF HandleCreateGame, NewGame
  <2> QED
    BY <1>c, <1>e, <2>1
<1>10. ASSUME NEW p \in Human, HandleJoinByCode(p) PROVE RoundsGoOn'
  BY <1>10, <1>a, <1>d DEF HandleJoinByCode, Idle, RoundsGoOn
<1>11. ASSUME NEW p \in Human, HandleLeaveGame(p) PROVE RoundsGoOn'
  <2>1. game'.phase = game.phase
    BY <1>11, <1>a DEF HandleLeaveGame, Game
  <2> QED
    BY <1>11, <1>a, <2>1 DEF HandleLeaveGame, RoundsGoOn
<1>12. ASSUME NEW p \in Human, HandleGameAction(p) PROVE RoundsGoOn'
  <2>1. game.phase # "ROUND_ENDED" /\ row' = row
    BY <1>12, <1>d DEF HandleGameAction, Idle
  <2>2. PICK turn \in 0..Len(game.seats) - 1 :
           \/ game' = AfterMove(game.phase, turn) /\ todo' = ActionTasks(FALSE)
           \/ game' = AfterMove("ROUND_ENDED", turn) /\ todo' = ActionTasks(TRUE)
    BY <1>12 DEF HandleGameAction
  <2>3. \A phase \in Phase : AfterMove(phase, turn).phase = phase
    BY <1>a DEF AfterMove, Game
  <2>4. SaveDue(todo') /\ (game'.phase # "ROUND_ENDED" \/ RoundDue(todo'))
    BY <1>a, <2>1, <2>2, <2>3, HandlersOwe
  <2> QED
    BY <1>e, <2>1, <2>4
<1>13. CASE HandleStartGame
  <2>1. game'.phase = "IN_PROGRESS"
    BY <1>13, <1>a DEF HandleStartGame, Game
  <2> QED
    BY <1>13, <1>c, <1>e, <2>1, HandlersOwe DEF HandleStartGame
<1>14. CASE HandleCleanupStaleLobbies \/ Crash
  BY <1>14, <1>a DEF HandleCleanupStaleLobbies, Crash, RoundsGoOn
<1>15. CASE Restart
  <2>1. ~live /\ row' = row
    BY <1>15, <1>a DEF Restart, TasksFit
  <2>2. live' => row.status = "active" /\ game'.phase = row.phase
    <3> SUFFICES ASSUME live' PROVE row.status = "active" /\ game'.phase = row.phase
      OBVIOUS
    <3>1. IsActive(row) /\ game' = FromRow(row)
      BY <1>15, <2>1 DEF Restart, Load, LoadFails
    <3> QED
      BY <1>a, <3>1 DEF IsActive, FromRow, Row
  <2> QED
    BY <1>a, <2>1, <2>2 DEF RoundsGoOn
<1>16. CASE UNCHANGED vars
  BY <1>16, <1>a DEF vars, RoundsGoOn
<1> QED
  BY <1>1, <1>2, <1>3, <1>4, <1>5, <1>6, <1>7, <1>8, <1>9, <1>10, <1>11, <1>12, <1>13,
     <1>14, <1>15, <1>16 DEF Next, Execute

-----------------------------------------------------------------------------

(* What comes before an answer when the first task is taken off.           *)
LEMMA AnswerLater ==
    ASSUME NEW s \in Seq(Task), s # << >>, NEW i \in 1..Len(Tail(s)), NEW p
    PROVE  /\ i + 1 \in 1..Len(s) /\ Tail(s)[i] = s[i + 1]
           /\ (DoneBefore(s, "save", i + 1) /\ Head(s).do # "save")
                 => DoneBefore(Tail(s), "save", i)
           /\ (ToSeat(s, p, i + 1) /\ Head(s).do # "seat") => ToSeat(Tail(s), p, i)
           /\ (ToSeat(s, p, i + 1) /\ Head(s).do = "seat")
                 => Head(s).for = p /\ DoneBefore(Tail(s), "save", i)
<1> DEFINE n == Len(s)
           r == Tail(s)
<1>1. /\ n \in Nat \ {0} /\ r \in Seq(Task) /\ Len(r) = n - 1
      /\ Head(s) = s[1] /\ \A k \in 1..(n - 1) : r[k] = s[k + 1]
  BY HeadTailProperties, LenProperties
<1> HIDE DEF r
<1>2. i \in 1..(n - 1) /\ i + 1 \in 1..n /\ r[i] = s[i + 1]
  BY <1>1 DEF r
<1>3. \A k \in 1..i : k # 1 => k - 1 \in 1..(i - 1) /\ r[k - 1] = s[k]
  <2> SUFFICES ASSUME NEW k \in 1..i, k # 1
               PROVE  k - 1 \in 1..(i - 1) /\ r[k - 1] = s[k]
    OBVIOUS
  <2>1. k - 1 \in 1..(n - 1) /\ k - 1 \in 1..(i - 1) /\ (k - 1) + 1 = k
    BY <1>1, <1>2
  <2> QED
    BY <1>1, <2>1
<1>4. ASSUME DoneBefore(s, "save", i + 1), Head(s).do # "save"
      PROVE  DoneBefore(r, "save", i)
  <2>1. PICK k \in 1..i : s[k].do = "save"
    BY <1>2, <1>4 DEF DoneBefore
  <2> QED
    BY <1>1, <1>3, <1>4, <2>1 DEF DoneBefore
<1>5. ASSUME ToSeat(s, p, i + 1)
      PROVE  /\ Head(s).do # "seat" => ToSeat(r, p, i)
             /\ Head(s).do = "seat" => Head(s).for = p /\ DoneBefore(r, "save", i)
  <2>1. (i + 1) - 1 = i
    BY <1>2
  <2>2. PICK k \in 1..i : \E j \in 1..i :
           /\ k < j /\ s[k].do = "seat" /\ s[k].for = p /\ s[j].do = "save"
           /\ \A m \in 1..(k - 1) : s[m].do # "seat"
    BY <1>5, <2>1 DEF ToSeat
  <2>3. PICK j \in 1..i :
           /\ k < j /\ s[k].do = "seat" /\ s[k].for = p /\ s[j].do = "save"
           /\ \A m \in 1..(k - 1) : s[m].do # "seat"
    BY <2>2
  <2>4. j # 1 /\ j - 1 \in 1..(i - 1) /\ r[j - 1].do = "save"
    BY <1>2, <1>3, <2>3
  <2>5. CASE k = 1
    BY <1>1, <2>3, <2>4, <2>5 DEF DoneBefore
  <2>6. CASE k # 1
    <3>1. k - 1 \in 1..(i - 1) /\ r[k - 1].do = "seat" /\ r[k - 1].for = p /\ k - 1 < j - 1
      BY <1>2, <1>3, <2>3, <2>6
    <3>2. Head(s).do # "seat"
      BY <1>1, <2>3, <2>6
    <3>3. ASSUME NEW m \in 1..(k - 1 - 1) PROVE r[m].do # "seat"
      <4>1. m \in 1..(n - 1) /\ m + 1 \in 1..(k - 1)
        BY <1>2
      <4> QED
        BY <1>1, <2>3, <4>1
    <3> QED
      BY <2>4, <3>1, <3>2, <3>3 DEF ToSeat
  <2> QED
    BY <2>5, <2>6
<1> QED
  BY <1>2, <1>4, <1>5 DEF r

(* What comes before an answer when other tasks come first.                *)
LEMMA AnswerBehind ==
    ASSUME NEW a \in Seq(Task), NEW s \in Seq(Task),
           \A t \in Range(a) : t.do \notin {"answer", "seat"},
           NEW i \in 1..Len(a \o s), (a \o s)[i].do = "answer", NEW p
    PROVE  /\ i - Len(a) \in 1..Len(s) /\ (a \o s)[i] = s[i - Len(a)]
           /\ DoneBefore(s, "save", i - Len(a)) => DoneBefore(a \o s, "save", i)
           /\ ToSeat(s, p, i - Len(a)) => ToSeat(a \o s, p, i)
<1> DEFINE c == a \o s
           m == Len(a)
<1>1. /\ c \in Seq(Task) /\ m \in Nat /\ Len(s) \in Nat /\ Len(c) = m + Len(s)
      /\ \A k \in 1..(m + Len(s)) : c[k] = IF k <= m THEN a[k] ELSE s[k - m]
  BY ConcatProperties, LenProperties
<1>2. \A k \in 1..m : a[k].do \notin {"answer", "seat"}
  BY RangeEquality
<1>3. i \in 1..Len(c) /\ c[i].do = "answer"
  OBVIOUS
<1> HIDE DEF c, m
<1>4. i > m /\ c[i] = s[i - m] /\ i - m \in 1..Len(s)
  BY <1>1, <1>2, <1>3
<1>5. \A k \in 1..(i - m - 1) : k + m \in 1..(i - 1) /\ c[k + m] = s[k]
  <2> SUFFICES ASSUME NEW k \in 1..(i - m - 1)
               PROVE  k + m \in 1..(i - 1) /\ c[k + m] = s[k]
    OBVIOUS
  <2>1. /\ k + m \in 1..(m + Len(s)) /\ ~(k + m <= m) /\ (k + m) - m = k
        /\ k + m \in 1..(i - 1)
    BY <1>1, <1>4
  <2> QED
    BY <1>1, <2>1
<1>6. ASSUME DoneBefore(s, "save", i - m) PROVE DoneBefore(c, "save", i)
  BY <1>5, <1>6 DEF DoneBefore
<1>7. ASSUME ToSeat(s, p, i - m) PROVE ToSeat(c, p, i)
  <2>1. PICK k \in 1..(i - m - 1) : \E j \in 1..(i - m - 1) :
           /\ k < j /\ s[k].do = "seat" /\ s[k].for = p /\ s[j].do = "save"
           /\ \A l \in 1..(k - 1) : s[l].do # "seat"
    BY <1>7 DEF ToSeat
  <2>2. PICK j \in 1..(i - m - 1) :
           /\ k < j /\ s[k].do = "seat" /\ s[k].for = p /\ s[j].do = "save"
           /\ \A l \in 1..(k - 1) : s[l].do # "seat"
    BY <2>1
  <2>3. /\ k + m \in 1..(i - 1) /\ c[k + m] = s[k]
        /\ j + m \in 1..(i - 1) /\ c[j + m] = s[j]
    BY <1>5
  <2>4. k + m < j + m
    BY <1>1, <2>2
  <2>5. ASSUME NEW l \in 1..(k + m - 1) PROVE c[l].do # "seat"
    <3>1. l \in 1..(m + Len(s))
      BY <1>1, <1>4
    <3>2. CASE l <= m
      BY <1>1, <1>2, <3>1, <3>2
    <3>3. CASE ~(l <= m)
      <4>1. l - m \in 1..(k - 1)
        BY <1>1, <3>3
      <4> QED
        BY <1>1, <2>2, <3>1, <3>3, <4>1
    <3> QED
      BY <3>2, <3>3
  <2>6. /\ k + m < j + m /\ c[k + m].do = "seat" /\ c[k + m].for = p /\ c[j + m].do = "save"
        /\ \A l \in 1..(k + m - 1) : c[l].do # "seat"
    BY <2>2, <2>3, <2>4, <2>5
  <2>7. PICK u \in 1..(i - 1) : u = k + m
    BY <2>3
  <2>8. PICK w \in 1..(i - 1) : w = j + m
    BY <2>3
  <2>9. u < w
    BY <2>4, <2>7, <2>8
  <2>10. c[u].do = "seat" /\ c[u].for = p /\ c[w].do = "save"
    BY <2>6, <2>7, <2>8
  <2>11. \A l \in 1..(u - 1) : c[l].do # "seat"
    BY <1>1, <2>5, <2>7
  <2> QED
    BY <2>9, <2>10, <2>11 DEF ToSeat
<1> QED
  BY <1>4, <1>6, <1>7 DEF c, m

(* Neither a seat nor a save is taken off: the same is due.                *)
LEMMA AnswersStillDue ==
    ASSUME NEW s \in Seq(Task), s # << >>, Head(s).do \notin {"seat", "save"},
           NEW g, NEW r, NEW f, AnswersDueIn(s, g, r, f),
           NEW h, h.seats = g.seats, h.limit = g.limit, NEW e, "save" \in f => "save" \in e
    PROVE  AnswersDueIn(Tail(s), h, r, e)
<1> SUFFICES ASSUME NEW i \in 1..Len(Tail(s)), Tail(s)[i].do = "answer"
             PROVE  \/ ToSeat(Tail(s), Tail(s)[i].for, i) /\ Len(h.seats) < h.limit
                    \/ /\ Tail(s)[i].for \in ToSet(h.seats)
                       /\ \/ "save" \in e
                          \/ Tail(s)[i].for \in ToSet(r.seats)
                          \/ DoneBefore(Tail(s), "save", i)
  BY DEF AnswersDueIn
<1> DEFINE p == Tail(s)[i].for
<1>1. /\ i + 1 \in 1..Len(s) /\ Tail(s)[i] = s[i + 1]
      /\ DoneBefore(s, "save", i + 1) => DoneBefore(Tail(s), "save", i)
      /\ ToSeat(s, p, i + 1) => ToSeat(Tail(s), p, i)
  BY AnswerLater
<1>2. \/ ToSeat(s, p, i + 1) /\ Len(g.seats) < g.limit
      \/ /\ p \in ToSet(g.seats)
         /\ \/ "save" \in f
            \/ p \in ToSet(r.seats)
            \/ DoneBefore(s, "save", i + 1)
  BY <1>1 DEF AnswersDueIn
<1> QED
  BY <1>1, <1>2

(* Statements that come first change nothing of what is due.               *)
LEMMA AnswersDueAfter ==
    ASSUME NEW a \in Seq(Task), NEW s \in Seq(Task),
           \A t \in Range(a) : t.do \notin {"answer", "seat"},
           NEW g, NEW r, NEW f, AnswersDueIn(s, g, r, f)
    PROVE  AnswersDueIn(a \o s, g, r, f)
<1> DEFINE c == a \o s
<1> SUFFICES ASSUME NEW i \in 1..Len(c), c[i].do = "answer"
             PROVE  \/ ToSeat(c, c[i].for, i) /\ Len(g.seats) < g.limit
                    \/ /\ c[i].for \in ToSet(g.seats)
                       /\ \/ "save" \in f
                          \/ c[i].for \in ToSet(r.seats)
                          \/ DoneBefore(c, "save", i)
  BY DEF AnswersDueIn
<1> DEFINE p == c[i].for
           k == i - Len(a)
<1>1. /\ k \in 1..Len(s) /\ c[i] = s[k]
      /\ DoneBefore(s, "save", k) => DoneBefore(c, "save", i)
      /\ ToSeat(s, p, k) => ToSeat(c, p, i)
  BY AnswerBehind
<1> HIDE DEF c, k
<1>2. \/ ToSeat(s, p, k) /\ Len(g.seats) < g.limit
      \/ /\ p \in ToSet(g.seats)
         /\ \/ "save" \in f
            \/ p \in ToSet(r.seats)
            \/ DoneBefore(s, "save", k)
  BY <1>1 DEF AnswersDueIn
<1> QED
  BY <1>1, <1>2

(* Tasks without an answer owe none.                                       *)
LEMMA NobodyAnswered ==
    ASSUME NEW s \in Seq(Task), \A t \in Range(s) : t.do # "answer", NEW g, NEW r, NEW f
    PROVE  AnswersDueIn(s, g, r, f)
BY RangeEquality DEF AnswersDueIn

(* Whoever sits down is added.                                             *)
LEMMA SeatAdded ==
    ASSUME NEW s \in Seq(Player), NEW p \in Player
    PROVE  ToSet(Append(s, p)) = ToSet(s) \cup {p}
<1> DEFINE c == Append(s, p)
           n == Len(s)
<1>1. /\ n \in Nat /\ c \in Seq(Player) /\ Len(c) = n + 1
      /\ \A i \in 1..n : c[i] = s[i]
      /\ c[n + 1] = p
  BY AppendProperties, LenProperties
<1>2. DOMAIN c = 1..(n + 1) /\ DOMAIN s = 1..n
  BY <1>1, LenProperties
<1> HIDE DEF c, n
<1>3. 1..(n + 1) = (1..n) \cup {n + 1}
  BY <1>1
<1>4. ToSet(c) = {c[i] : i \in (1..n) \cup {n + 1}} /\ ToSet(s) = {s[i] : i \in 1..n}
  BY <1>2, <1>3 DEF ToSet
<1>5. ToSet(c) = ToSet(s) \cup {p}
  BY <1>1, <1>4
<1> QED
  BY <1>5 DEF c

(* Whoever does not leave keeps his seat.                                  *)
LEMMA OthersStay ==
    ASSUME NEW s \in Seq(Player), NEW i \in 1..Len(s)
    PROVE  ToSet(s) \ {s[i]} \subseteq ToSet(RemoveAt(s, i))
<1>1. Len(s) \in Nat /\ DOMAIN s = 1..Len(s)
  BY LenProperties
<1>a. /\ i \in Int /\ Len(s) - (i + 1) + 1 = Len(s) - i
      /\ ~(i + 1 <= Len(s)) => Len(s) - i = 0
  <2>1. ASSUME NEW n \in Nat, NEW k \in 1..n
        PROVE  /\ k \in Int /\ n - (k + 1) + 1 = n - k
               /\ ~(k + 1 <= n) => n - k = 0
    OBVIOUS
  <2> QED
    BY <1>1, <2>1
<1> DEFINE a == SubSeq(s, 1, i - 1)
           b == SubSeq(s, i + 1, Len(s))
<1>2. a \in Seq(Player) /\ Len(a) = i - 1 /\ \A k \in 1..(i - 1) : a[k] = s[k]
  BY <1>1, SubSeqProperties
<1>3. b \in Seq(Player) /\ Len(b) = Len(s) - i /\ \A k \in 1..(Len(s) - i) : b[k] = s[i + k]
  <2>1. i + 1 \in Int /\ Len(s) \in Int /\ \A k \in (i + 1)..Len(s) : s[k] \in Player
    BY <1>1, ElementOfSeq
  <2>2. /\ b \in Seq(Player)
        /\ Len(b) = IF i + 1 <= Len(s) THEN Len(s) - (i + 1) + 1 ELSE 0
        /\ \A k \in 1..(Len(s) - (i + 1) + 1) : b[k] = s[(i + 1) + k - 1]
    BY <1>1, <2>1, SubSeqProperties
  <2>4. Len(b) = Len(s) - i
    BY <1>a, <2>2
  <2>5. \A k \in 1..(Len(s) - i) : b[k] = s[i + k]
    <3> SUFFICES ASSUME NEW k \in 1..(Len(s) - i) PROVE b[k] = s[i + k]
      OBVIOUS
    <3>1. (i + 1) + k - 1 = i + k /\ k \in 1..(Len(s) - (i + 1) + 1)
      BY <1>1
    <3> QED
      BY <2>2, <3>1
  <2> QED
    BY <2>2, <2>4, <2>5
<1>4. RemoveAt(s, i) = a \o b
  BY DEF RemoveAt
<1> HIDE DEF a, b
<1>5. Range(a \o b) = Range(a) \cup Range(b)
  BY <1>2, <1>3, RangeConcatenation
<1>6. ASSUME NEW k \in 1..Len(s), s[k] # s[i] PROVE s[k] \in Range(a \o b)
  <2>1. CASE k < i
    <3>1. k \in 1..Len(a) /\ a[k] = s[k]
      BY <1>1, <1>2, <2>1
    <3> QED
      BY <1>2, <1>5, <3>1, RangeEquality
  <2>2. CASE k > i
    <3>1. k - i \in 1..Len(b) /\ i + (k - i) = k
      BY <1>1, <1>3, <2>2
    <3>2. b[k - i] = s[k]
      BY <1>3, <3>1
    <3> QED
      BY <1>3, <1>5, <3>1, <3>2, RangeEquality
  <2> QED
    BY <1>1, <1>6, <2>1, <2>2
<1>7. ToSet(RemoveAt(s, i)) = Range(a \o b)
  BY <1>4 DEF ToSet, Range
<1> QED
  BY <1>1, <1>6, <1>7 DEF ToSet

(* The first of the tasks gives a seat, if there is one.                   *)
LEMMA AnswersDueSeated ==
    ASSUME NEW s \in Seq(Task), s # << >>, Head(s).do = "seat",
           NEW g, NEW r, NEW f, AnswersDueIn(s, g, r, f), NEW h, h.limit = g.limit,
           \/ ToSet(h.seats) = ToSet(g.seats) \cup {Head(s).for}
           \/ ~(Len(g.seats) < g.limit) /\ h.seats = g.seats
    PROVE  AnswersDueIn(Tail(s), h, r, f)
<1> SUFFICES ASSUME NEW i \in 1..Len(Tail(s)), Tail(s)[i].do = "answer"
             PROVE  /\ Tail(s)[i].for \in ToSet(h.seats)
                    /\ \/ "save" \in f
                       \/ Tail(s)[i].for \in ToSet(r.seats)
                       \/ DoneBefore(Tail(s), "save", i)
  BY DEF AnswersDueIn
<1> DEFINE p == Tail(s)[i].for
<1>1. /\ i + 1 \in 1..Len(s) /\ Tail(s)[i] = s[i + 1]
      /\ DoneBefore(s, "save", i + 1) => DoneBefore(Tail(s), "save", i)
      /\ ToSeat(s, p, i + 1) => Head(s).for = p /\ DoneBefore(Tail(s), "save", i)
  BY AnswerLater
<1>2. \/ ToSeat(s, p, i + 1) /\ Len(g.seats) < g.limit
      \/ /\ p \in ToSet(g.seats)
         /\ \/ "save" \in f
            \/ p \in ToSet(r.seats)
            \/ DoneBefore(s, "save", i + 1)
  BY <1>1 DEF AnswersDueIn
<1> QED
  BY <1>1, <1>2

(* The first of the tasks saves the seats, or fails to.                    *)
LEMMA AnswersDueSaved ==
    ASSUME NEW s \in Seq(Task), s # << >>, Head(s).do = "save",
           NEW g, NEW r, NEW f, AnswersDueIn(s, g, r, f), NEW q, NEW e,
           "save" \in e \/ q.seats = g.seats
    PROVE  AnswersDueIn(Tail(s), g, q, e)
<1> SUFFICES ASSUME NEW i \in 1..Len(Tail(s)), Tail(s)[i].do = "answer"
             PROVE  \/ ToSeat(Tail(s), Tail(s)[i].for, i) /\ Len(g.seats) < g.limit
                    \/ Tail(s)[i].for \in ToSet(g.seats)
  BY DEF AnswersDueIn
<1> DEFINE p == Tail(s)[i].for
<1>1. /\ i + 1 \in 1..Len(s) /\ Tail(s)[i] = s[i + 1]
      /\ ToSeat(s, p, i + 1) => ToSeat(Tail(s), p, i)
  BY AnswerLater
<1>2. \/ ToSeat(s, p, i + 1) /\ Len(g.seats) < g.limit
      \/ p \in ToSet(g.seats)
  BY <1>1 DEF AnswersDueIn
<1> QED
  BY <1>1, <1>2

\* From the k-th task on a player is seated and saved, then answered.
SeatsAt(s, p, k) ==
    /\ Len(s) >= k + 2
    /\ s[k].do = "seat" /\ s[k].for = p /\ s[k + 2].do = "save"
    /\ \A i \in 1..(k - 1) : s[i].do # "seat"
    /\ \A i \in 1..Len(s) : s[i].do = "answer" => i > k + 2 /\ s[i].for = p

(* More tasks may follow.                                                  *)
LEMMA SeatsBefore ==
    ASSUME NEW s \in Seq(Task), NEW p, NEW k \in Nat \ {0}, SeatsAt(s, p, k),
           NEW b \in Seq(Task), \A t \in Range(b) : t.do = "answer" => t.for = p
    PROVE  s \o b \in Seq(Task) /\ SeatsAt(s \o b, p, k)
<1> DEFINE c == s \o b
           n == Len(s)
<1>1. /\ c \in Seq(Task) /\ n \in Nat /\ Len(b) \in Nat /\ Len(c) = n + Len(b)
      /\ \A i \in 1..(n + Len(b)) : c[i] = IF i <= n THEN s[i] ELSE b[i - n]
  BY ConcatProperties, LenProperties
<1>2. \A i \in 1..Len(b) : b[i].do = "answer" => b[i].for = p
  BY RangeEquality
<1>3. n >= k + 2
  BY DEF SeatsAt
<1> HIDE DEF c
<1>4. \A i \in 1..n : i \in 1..Len(c) /\ c[i] = s[i]
  BY <1>1
<1> HIDE DEF n
<1>5. /\ k \in 1..n /\ k + 2 \in 1..n /\ \A i \in 1..(k - 1) : i \in 1..n
  BY <1>1, <1>3
<1>6. /\ c[k] = s[k] /\ c[k + 2] = s[k + 2] /\ \A i \in 1..(k - 1) : c[i] = s[i]
  BY <1>4, <1>5
<1>7. ASSUME NEW i \in 1..Len(c), c[i].do = "answer" PROVE i > k + 2 /\ c[i].for = p
  <2>1. CASE i <= n
    <3>1. i \in 1..n /\ c[i] = s[i]
      BY <1>1, <1>4, <2>1
    <3> QED
      BY <1>7, <3>1 DEF SeatsAt, n
  <2>2. CASE ~(i <= n)
    <3>1. i - n \in 1..Len(b) /\ c[i] = b[i - n]
      BY <1>1, <2>2
    <3>2. i > k + 2
      BY <1>1, <1>3, <2>2
    <3> QED
      BY <1>2, <1>7, <3>1, <3>2
  <2> QED
    BY <2>1, <2>2
<1>8. Len(c) >= k + 2
  BY <1>1, <1>3
<1>9. /\ s[k].do = "seat" /\ s[k].for = p /\ s[k + 2].do = "save"
      /\ \A i \in 1..(k - 1) : s[i].do # "seat"
  BY DEF SeatsAt
<1>10. SeatsAt(c, p, k)
  BY <1>6, <1>7, <1>8, <1>9 DEF SeatsAt
<1> QED
  BY <1>1, <1>10 DEF c

(* Then whoever is answered has been seated and saved.                     *)
LEMMA SeatsAnswered ==
    ASSUME NEW s \in Seq(Task), NEW p, NEW k \in Nat \ {0}, SeatsAt(s, p, k),
           NEW g, NEW r, NEW f, Len(g.seats) < g.limit
    PROVE  AnswersDueIn(s, g, r, f)
<1> SUFFICES ASSUME NEW i \in 1..Len(s), s[i].do = "answer"
             PROVE  ToSeat(s, s[i].for, i)
  BY DEF AnswersDueIn
<1>1. i > k + 2 /\ s[i].for = p
  BY DEF SeatsAt
<1>2. k \in 1..(i - 1) /\ k + 2 \in 1..(i - 1) /\ k < k + 2
  BY <1>1, LenProperties
<1> QED
  BY <1>1, <1>2 DEF SeatsAt, ToSeat

(* A join by code.                                                         *)
LEMMA JoinSeats ==
    ASSUME NEW p \in Human
    PROVE  SeatsAt(JoinTasks(p) \o <<DoFor("answer", p)>>, p, 1)
<1> DEFINE e == <<DoFor("answer", p)>>
<1>1. JoinTasks(p) \in Seq(Task)
  BY JoinTasksOnly DEF Player
<1>2. e \in Seq(Task) /\ \A t \in Range(e) : t.for = p
  BY OneTask DEF DoFor, Task, Steps, Player
<1>3. SeatsAt(JoinTasks(p), p, 1)
  BY DEF JoinTasks, SeatsAt, Do, DoFor
<1> HIDE DEF e
<1>4. SeatsAt(JoinTasks(p) \o e, p, 1)
  BY <1>1, <1>2, <1>3, SeatsBefore
<1> QED
  BY <1>4 DEF e

(* A creation: the creator's seat comes before the bots'.                  *)
LEMMA CreationSeats ==
    ASSUME NEW p \in Human, NEW bots \in BotSeqs, NEW tasks,
           tasks = <<Do("save")>> \o JoinTasks(p)
                     \o BotTasks(bots) \o (IF bots = << >> THEN << >> ELSE <<Do("save")>>)
                     \o <<DoFor("answer", p)>>
    PROVE  SeatsAt(tasks, p, 2)
<1> DEFINE a == <<Do("save")>>
           b == JoinTasks(p)
           c == BotTasks(bots)
           d == IF bots = << >> THEN << >> ELSE <<Do("save")>>
           e == <<DoFor("answer", p)>>
           Answers(s) == s \in Seq(Task) /\ \A t \in Range(s) : t.do = "answer" => t.for = p
<1>1. Do("save") \in Task /\ Do("save").do = "save" /\ DoFor("answer", p) \in Task
      /\ DoFor("answer", p).for = p
  BY DEF Do, DoFor, Task, Steps, Player
<1>2. bots \in Seq(Player)
  BY DEF BotSeqs, Player
<1>3. Answers(c)
  BY <1>2, SeatsListed DEF BotTasks, Steps
<1>4. Answers(d)
  BY <1>1, OneTask, EmptySeq DEF Range
<1>5. Answers(e)
  BY <1>1, OneTask
<1>6. a \o b \in Seq(Task) /\ SeatsAt(a \o b, p, 2)
  <2>1. a \in Seq(Task) /\ b \in Seq(Task)
    BY <1>1, OneTask, JoinTasksOnly DEF Player
  <2>2. /\ Len(a) = 1 /\ a[1] = Do("save") /\ Len(b) = 3
        /\ b[1] = DoFor("seat", p) /\ b[2] = DoFor("profile", p) /\ b[3] = Do("save")
    BY DEF JoinTasks
  <2> HIDE DEF a, b
  <2>3. /\ a \o b \in Seq(Task) /\ Len(a \o b) = 4
        /\ \A i \in 1..4 : (a \o b)[i] = IF i <= 1 THEN a[i] ELSE b[i - 1]
    <3>1. /\ a \o b \in Seq(Task) /\ Len(a \o b) = Len(a) + Len(b)
          /\ \A i \in 1..(Len(a) + Len(b)) :
                (a \o b)[i] = IF i <= Len(a) THEN a[i] ELSE b[i - Len(a)]
      BY <2>1, ConcatProperties
    <3>2. Len(a) + Len(b) = 4
      BY <2>2
    <3> QED
      BY <2>2, <3>1, <3>2
  <2>4. /\ (a \o b)[1] = Do("save") /\ (a \o b)[2] = DoFor("seat", p)
        /\ (a \o b)[3] = DoFor("profile", p) /\ (a \o b)[4] = Do("save")
    BY <2>2, <2>3
  <2>5. SeatsAt(a \o b, p, 2)
    BY <2>3, <2>4 DEF SeatsAt, Do, DoFor
  <2> QED
    BY <2>3, <2>5
<1>7. ASSUME NEW s \in Seq(Task), SeatsAt(s, p, 2), NEW u, Answers(u)
      PROVE  s \o u \in Seq(Task) /\ SeatsAt(s \o u, p, 2)
  BY <1>7, SeatsBefore
<1> HIDE DEF a, b, c, d, e, Answers
<1>8. a \o b \o c \in Seq(Task) /\ SeatsAt(a \o b \o c, p, 2)
  BY <1>3, <1>6, <1>7
<1>9. a \o b \o c \o d \in Seq(Task) /\ SeatsAt(a \o b \o c \o d, p, 2)
  BY <1>4, <1>7, <1>8
<1>10. SeatsAt(a \o b \o c \o d \o e, p, 2)
  BY <1>5, <1>7, <1>9
<1> QED
  BY <1>10 DEF a, b, c, d, e

-----------------------------------------------------------------------------

(* Whoever has joined keeps his seat.                                      *)
LEMMA JoinedStep ==
    CInv /\ BornFirst /\ JoinedKept /\ [Next]_vars => JoinedKept'
<1> SUFFICES ASSUME CInv, BornFirst, JoinedKept, [Next]_vars PROVE JoinedKept'
  OBVIOUS
<1> USE DEF database, history, memory
<1>a. /\ JoinedKept /\ TasksFit /\ todo \in Seq(Task) /\ game \in Game /\ row \in Row
      /\ game.seats \in Seq(Player) /\ AnswersDueIn(todo, game, row, failed)
  BY DEF CInv, RecoveryTypeOK, Game, JoinedKept
<1>b. ASSUME NEW step, Next1(step), step \notin {"save", "seat"}, todo' = Tail(todo),
             UNCHANGED <<live, row, joined>>,
             game'.seats = game.seats, game'.limit = game.limit,
             "save" \in failed' <=> "save" \in failed
      PROVE  JoinedKept'
  <2>1. /\ todo # << >> /\ Head(todo).do = step /\ Range(todo') \subseteq Range(todo)
    BY <1>b, TaskTaken
  <2>2. AnswersDueIn(todo', game', row', failed')
    BY <1>a, <1>b, <2>1, AnswersStillDue
  <2> QED
    BY <1>a, <1>b, <2>1, <2>2 DEF JoinedKept
<1>c. /\ "save" # "unlist" /\ "save" # "list" /\ "save" # "stats" /\ "save" # "profile"
      /\ "save" # "drop"
  OBVIOUS
<1>d. ASSUME todo' \in Seq(Task), \A t \in Range(todo') : t.do \notin {"answer", "drop"},
             UNCHANGED <<live, row, joined, failed>>, game'.seats = game.seats
      PROVE  JoinedKept'
  BY <1>a, <1>d, NobodyAnswered DEF JoinedKept
<1>1. CASE SaveRow
  <2>1. /\ live /\ todo # << >> /\ Head(todo).do = "save"
        /\ Tail(todo) \in Seq(Task) /\ Range(Tail(todo)) \subseteq Range(todo)
    BY <1>1, TaskTaken, TaskOwed DEF SaveRow, Ends
  <2>2. live' = live /\ game' = game /\ joined' = joined
    BY <1>1 DEF SaveRow
  <2>3. CASE row' = row /\ todo' = Tail(todo) /\ Fails("save")
    <3>1. "save" \in failed'
      BY <2>3 DEF Fails
    <3>2. AnswersDueIn(todo', game', row', failed')
      BY <1>a, <2>1, <2>2, <2>3, <3>1, AnswersDueSaved
    <3> QED
      BY <1>a, <2>1, <2>2, <2>3, <3>1, <3>2 DEF JoinedKept
  <2>4. CASE row' = Snapshot(game) /\ todo' = ListTasks \o Tail(todo)
    <3>1. row'.seats = game.seats
      BY <2>4 DEF Snapshot
    <3>2. AnswersDueIn(Tail(todo), game, row', failed')
      BY <1>a, <2>1, <3>1, AnswersDueSaved
    <3>3. /\ ListTasks \in Seq(Task)
          /\ \A t \in Range(ListTasks) : t.do \in {"unlist", "list"}
      BY <1>a, ListTasksOnly
    <3>4. AnswersDueIn(todo', game, row', failed')
      BY <2>1, <2>4, <3>2, <3>3, AnswersDueAfter
    <3>5. Range(todo') = Range(ListTasks) \cup Range(Tail(todo))
      BY <2>1, <2>4, <3>3, TasksAhead
    <3> QED
      BY <1>a, <2>1, <2>2, <3>1, <3>3, <3>4, <3>5 DEF JoinedKept
  <2> QED
    BY <1>1, <2>3, <2>4 DEF SaveRow, ListTasks
<1>2. CASE UnlistPlayers \/ ListPlayer \/ SaveStats
  BY <1>2, <1>b, <1>c DEF UnlistPlayers, ListPlayer, SaveStats, Works, Fails
<1>3. CASE Handled \/ StopPlaying \/ AnswerRemoved
  BY <1>3, <1>b DEF Handled, StopPlaying, AnswerRemoved
<1>4. CASE SaveProfile
  <2>1. "save" \in failed' <=> "save" \in failed
    BY <1>4, <1>c DEF SaveProfile, Works, Fails
  <2>2. CASE todo' = Tail(todo)
    BY <1>4, <1>b, <2>1, <2>2 DEF SaveProfile
  <2>3. CASE todo' = <<DoFor("stats", Head(todo).for)>> \o Tail(todo)
    <3>1. /\ todo # << >> /\ Head(todo).do = "profile" /\ Head(todo).for \in Player
          /\ Tail(todo) \in Seq(Task) /\ Range(Tail(todo)) \subseteq Range(todo)
      BY <1>4, TaskTaken DEF SaveProfile
    <3>2. /\ <<DoFor("stats", Head(todo).for)>> \in Seq(Task)
          /\ \A t \in Range(<<DoFor("stats", Head(todo).for)>>) : t.do = "stats"
      BY <3>1, OneTask DEF DoFor, Task, Steps
    <3>3. UNCHANGED <<live, game, row, joined>>
      BY <1>4 DEF SaveProfile
    <3>4. AnswersDueIn(Tail(todo), game', row', failed')
      BY <1>a, <2>1, <3>1, <3>3, AnswersStillDue
    <3>5. AnswersDueIn(todo', game', row', failed')
      BY <2>3, <3>1, <3>2, <3>4, AnswersDueAfter
    <3>6. Range(todo') = Range(<<DoFor("stats", Head(todo).for)>>) \cup Range(Tail(todo))
      BY <2>3, <3>1, <3>2, TasksAhead
    <3> QED
      BY <1>a, <2>1, <3>1, <3>2, <3>3, <3>5, <3>6 DEF JoinedKept
  <2> QED
    BY <1>4, <2>2, <2>3 DEF SaveProfile
<1>5. CASE DeleteRow
  <2>1. /\ ~live /\ Head(todo) \in Range(todo) /\ Head(todo).do = "drop"
        /\ Tail(todo) \in Seq(Task) /\ Range(Tail(todo)) \subseteq Range(todo)
    BY <1>5, TaskTaken, TaskOwed DEF DeleteRow
  <2>2. joined = {} /\ \A t \in Range(Tail(todo)) : t.do # "answer"
    BY <1>a, <2>1 DEF JoinedKept, TasksFit, Ends
  <2>3. AnswersDueIn(todo', game', row', failed')
    BY <1>5, <2>1, <2>2, NobodyAnswered DEF DeleteRow
  <2> QED
    BY <1>5, <2>2, <2>3 DEF DeleteRow, JoinedKept
<1>6. CASE TakeSeat
  <2>1. /\ live /\ todo # << >> /\ Head(todo).do = "seat" /\ Head(todo).for \in Player
        /\ todo' = Tail(todo) /\ Range(Tail(todo)) \subseteq Range(todo)
    BY <1>6, TaskTaken, TaskOwed DEF TakeSeat, Ends
  <2>2. ToSet(Append(game.seats, Head(todo).for)) = ToSet(game.seats) \cup {Head(todo).for}
    BY <1>a, <2>1, SeatAdded
  <2>3. /\ game'.limit = game.limit
        /\ IF Len(game.seats) < game.limit
              THEN game'.seats = Append(game.seats, Head(todo).for)
              ELSE game'.seats = game.seats
    BY <1>6, <1>a DEF TakeSeat, Game
  <2>4. /\ \/ ToSet(game'.seats) = ToSet(game.seats) \cup {Head(todo).for}
           \/ ~(Len(game.seats) < game.limit) /\ game'.seats = game.seats
        /\ ToSet(game.seats) \subseteq ToSet(game'.seats)
    BY <2>2, <2>3
  <2>5. AnswersDueIn(todo', game', row, failed)
    BY <1>a, <2>1, <2>3, <2>4, AnswersDueSeated
  <2> QED
    BY <1>6, <1>a, <2>1, <2>4, <2>5 DEF TakeSeat, JoinedKept
<1>7. CASE StartNewRound
  <2>1. game'.seats = game.seats /\ game'.limit = game.limit
    BY <1>7, <1>a DEF StartNewRound, Game
  <2> QED
    BY <1>7, <1>b, <2>1 DEF StartNewRound
<1>8. CASE Answer
  <2>1. /\ live /\ todo # << >> /\ Head(todo).do = "answer"
        /\ Range(Tail(todo)) \subseteq Range(todo) /\ Head(todo) \in Range(todo)
    BY <1>8, TaskTaken, TaskOwed DEF Answer, Ends
  <2>2. 1 \in 1..Len(todo) /\ todo[1] = Head(todo)
    BY <1>a, <2>1, LenProperties, HeadTailProperties
  <2>3. ~ToSeat(todo, todo[1].for, 1) /\ ~DoneBefore(todo, "save", 1)
    BY DEF ToSeat, DoneBefore
  <2>4. /\ Head(todo).for \in ToSet(game.seats)
        /\ "save" \in failed \/ Head(todo).for \in ToSet(row.seats)
    BY <1>a, <2>1, <2>2, <2>3 DEF AnswersDueIn
  <2>5. AnswersDueIn(Tail(todo), game, row, failed)
    BY <1>a, <2>1, AnswersStillDue
  <2>6. \A t \in Range(Tail(todo)) : t.do # "drop"
    BY <1>a, <2>1 DEF TasksFit
  <2> QED
    BY <1>8, <1>a, <2>4, <2>5, <2>6 DEF Answer, JoinedKept
<1>9. CASE PlayBot
  <2>1. PICK turn \in 0..Len(game.seats) - 1 : game' = AfterMove("IN_PROGRESS", turn)
    BY <1>9 DEF PlayBot
  <2>2. game'.seats = game.seats /\ game'.limit = game.limit
    BY <1>a, <2>1 DEF AfterMove, Game
  <2>3. AnswersDueIn(todo, game', row, failed)
    BY <1>a, <2>2 DEF AnswersDueIn
  <2> QED
    BY <1>9, <1>a, <2>2, <2>3 DEF PlayBot, JoinedKept
<1>10. ASSUME NEW p \in Human, NEW bots \in BotSeqs, HandleCreateGame(p, bots)
      PROVE  JoinedKept'
  <2>1. /\ todo' \in Seq(Task) /\ \A t \in Range(todo') : t.do # "drop"
    BY <1>10, CreateTasksOnly DEF HandleCreateGame
  <2>2. joined' = {}
    BY <1>10 DEF HandleCreateGame, BornFirst
  <2>3. Len(game'.seats) < game'.limit
    <3>1. bots \in Seq(Player)
      BY DEF BotSeqs, Player
    <3>2. Len(bots) \in Nat /\ Len(bots) < MaxPlayers
      BY <1>10, <3>1, LenProperties DEF HandleCreateGame
    <3>3. game'.seats = << >> /\ game'.limit = MaxPlayers
      BY <1>10 DEF HandleCreateGame, NewGame
    <3>4. Len(<< >>) = 0
      OBVIOUS
    <3> QED
      BY <3>2, <3>3, <3>4
  <2>4. SeatsAt(todo', p, 2)
    BY <1>10, CreationSeats DEF HandleCreateGame
  <2>5. AnswersDueIn(todo', game', row', failed')
    BY <2>1, <2>3, <2>4, SeatsAnswered
  <2> QED
    BY <2>1, <2>2, <2>5 DEF JoinedKept
<1>11. ASSUME NEW p \in Human, HandleJoinByCode(p) PROVE JoinedKept'
  <2>1. todo' \in Seq(Task) /\ \A t \in Range(todo') : t.do # "drop"
    BY <1>11, AnsweredTasksOnly DEF HandleJoinByCode
  <2>2. SeatsAt(todo', p, 1)
    BY <1>11, JoinSeats DEF HandleJoinByCode
  <2>3. AnswersDueIn(todo', game, row, failed)
    <3>1. Len(game.seats) < game.limit /\ 1 \in Nat \ {0}
      BY <1>11 DEF HandleJoinByCode
    <3> QED
      BY <2>1, <2>2, <3>1, SeatsAnswered
  <2> QED
    BY <1>11, <1>a, <2>1, <2>3 DEF HandleJoinByCode, JoinedKept
<1>12. ASSUME NEW p \in Human, HandleLeaveGame(p) PROVE JoinedKept'
  <2>1. PICK i \in 1..Len(game.seats) :
           game.seats[i] = p /\ game' = [game EXCEPT !.seats = RemoveAt(@, i)]
    BY <1>12 DEF HandleLeaveGame
  <2>2. game'.seats = RemoveAt(game.seats, i)
    BY <1>a, <2>1 DEF Game
  <2>3. ToSet(game.seats) \ {p} \subseteq ToSet(game'.seats)
    BY <1>a, <2>1, <2>2, OthersStay
  <2>4. /\ todo = << >> /\ todo' = << >> /\ joined' = joined \ {p}
        /\ UNCHANGED <<live, row, failed>>
    BY <1>12 DEF HandleLeaveGame, Idle
  <2>5. << >> \in Seq(Task) /\ Range(<< >>) = {}
    BY NothingDue DEF Range
  <2>6. AnswersDueIn(todo', game', row', failed')
    BY <2>4, <2>5, NobodyAnswered
  <2> QED
    BY <1>a, <2>3, <2>4, <2>5, <2>6 DEF JoinedKept
<1>13. ASSUME NEW p \in Human, HandleGameAction(p) PROVE JoinedKept'
  <2>1. todo' \in Seq(Task) /\ \A t \in Range(todo') : t.do \notin {"answer", "drop"}
    BY <1>13, ActionTasksOnly DEF HandleGameAction
  <2>2. game'.seats = game.seats
    <3>1. PICK turn \in 0..Len(game.seats) - 1 :
             game' = AfterMove(game.phase, turn) \/ game' = AfterMove("ROUND_ENDED", turn)
      BY <1>13 DEF HandleGameAction
    <3> QED
      BY <1>a, <3>1 DEF AfterMove, Game
  <2> QED
    BY <1>13, <1>d, <2>1, <2>2 DEF HandleGameAction
<1>14. CASE HandleStartGame
  <2>1. todo' \in Seq(Task) /\ \A t \in Range(todo') : t.do \notin {"answer", "drop"}
    BY <1>14, StartTasksOnly DEF HandleStartGame
  <2>2. game'.seats = game.seats
    BY <1>14, <1>a DEF HandleStartGame, Game
  <2> QED
    BY <1>14, <1>d, <2>1, <2>2 DEF HandleStartGame
<1>15. CASE HandleCleanupStaleLobbies
  <2>1. todo' \in Seq(Task) /\ \A t \in Range(todo') : t.do # "answer"
    BY <1>15, RemoveTasksOnly DEF HandleCleanupStaleLobbies, Ends
  <2>2. AnswersDueIn(todo', game', row', failed')
    BY <2>1, NobodyAnswered
  <2> QED
    BY <1>15, <2>2 DEF HandleCleanupStaleLobbies, JoinedKept
<1>e. /\ << >> \in Seq(Task) /\ Range(<< >>) = {}
      /\ \A g, r, f : AnswersDueIn(<< >>, g, r, f)
  <2>1. << >> \in Seq(Task) /\ Range(<< >>) = {}
    BY NothingDue DEF Range
  <2> QED
    BY <2>1, NobodyAnswered
<1>16. CASE Crash
  <2>1. "save" \notin failed' => "save" \notin failed
    BY <1>16 DEF Crash
  <2> QED
    BY <1>16, <1>a, <1>e, <2>1 DEF Crash, JoinedKept
<1>17. CASE Restart
  <2>1. ~live /\ todo' = << >> /\ row' = row /\ failed' = failed
    BY <1>17, <1>a DEF Restart, TasksFit
  <2>2. live' => game'.seats = row.seats
    <3> SUFFICES ASSUME live' PROVE game'.seats = row.seats
      OBVIOUS
    <3>1. game' = FromRow(row)
      BY <1>17, <2>1 DEF Restart, Load, LoadFails
    <3> QED
      BY <3>1 DEF FromRow
  <2>3. joined' \subseteq ToSet(row.seats)
    BY <1>17, <1>a DEF Restart, JoinedKept
  <2> QED
    BY <1>e, <2>1, <2>2, <2>3 DEF JoinedKept
<1>18. CASE UNCHANGED vars
  BY <1>18, <1>a DEF vars, JoinedKept
<1> QED
  BY <1>1, <1>2, <1>3, <1>4, <1>5, <1>6, <1>7, <1>8, <1>9, <1>10, <1>11, <1>12, <1>13,
     <1>14, <1>15, <1>16, <1>17, <1>18 DEF Next, Execute

-----------------------------------------------------------------------------

(* What is owed holds at the start.                                        *)
LEMMA OwedInit == Init => SInv
<1> SUFFICES ASSUME Init PROVE SInv
  OBVIOUS
<1>1. BornFirst /\ RemovedKept /\ RoundsGoOn
  BY NothingDue DEF Init, NoRow, BornFirst, RemovedKept, RoundsGoOn
<1>2. << >> \in Seq(Task) /\ Range(<< >>) = {} /\ todo = << >> /\ joined = {}
  BY NothingDue DEF Init, Range
<1>3. JoinedKept
  BY <1>2, NobodyAnswered DEF JoinedKept
<1> QED
  BY <1>1, <1>3 DEF SInv

(* What is owed, in every reachable state.                                 *)
THEOREM OwedInvariance == Spec => [](CInv /\ SInv)
<1>1. CInv /\ SInv /\ [Next]_vars => (CInv /\ SInv)'
  BY RecoveryTypeStep, TasksStep, StatsStep, MovesStep, BornStep, RemovedStep, RoundsStep,
     JoinedStep
     DEF CInv, SInv
<1>2. Init => CInv /\ SInv
  BY RecoveryInit, OwedInit
<1> QED
  BY <1>1, <1>2, PTL DEF Spec

(* Whenever no handler runs, also after a restart, the game is in the      *)
(* lobby or in a round: no crash leaves it between two rounds.             *)
THEOREM IdleGamesGoOn == Spec => []PlayableWhenIdle
<1>1. CInv /\ SInv => PlayableWhenIdle
  BY NothingDue DEF CInv, RecoveryTypeOK, Game, Phase, SInv, RoundsGoOn, Idle, PlayableWhenIdle
<1> QED
  BY OwedInvariance, <1>1, PTL

(* Only a crash inside a handler can lose a game that was saved.           *)
THEOREM IdleGamesAreReadBack == Spec => []LostOnlyInsideHandlers
<1>1. CInv /\ SInv => LostOnlyInsideHandlers
  BY NothingDue DEF SInv, RoundsGoOn, Idle, IsActive, LostOnlyInsideHandlers
<1> QED
  BY OwedInvariance, <1>1, PTL

(* A removal that was answered is not undone by a restart.                 *)
THEOREM RemovalsArePermanent == Spec => []RemovedStaysRemoved
<1>1. CInv /\ SInv => RemovedStaysRemoved
  BY DEF SInv, RemovedKept, RemovedStaysRemoved
<1> QED
  BY OwedInvariance, <1>1, PTL

(* Whoever was told that he has joined is in the database: no crash takes  *)
(* his seat, unless a save failed.                                         *)
THEOREM SeatsSurviveCrashes == Spec => []JoinedSurvives
<1>1. CInv /\ SInv => JoinedSurvives
  BY DEF SInv, JoinedKept, JoinedSurvives
<1> QED
  BY OwedInvariance, <1>1, PTL

-----------------------------------------------------------------------------
(* The table game_players.                                                 *)

Listing == {"unlist", "list", "drop"}

Due(s, step) == \E t \in Range(s) : t.do = step

ToList(s) == {t.for : t \in {t \in Range(s) : t.do = "list"}}

\* The statements about game_players come before all else, the DELETE first.
ListsFirst(s) ==
    \A j \in 1..Len(s) : s[j].do \in Listing =>
        /\ \A i \in 1..(j - 1) : s[i].do \in Listing
        /\ s[j].do = "unlist" => j = 1

(* What is listed and what is to be listed are the seats of the row: after *)
(* the DELETE only unless something failed, but before it in any case, as  *)
(* the DELETE mends what failed before.                                    *)
ListedKept ==
    /\ ListsFirst(todo)
    /\ (~Due(todo, "drop") /\ Due(todo, "unlist")) => ToList(todo) = ToSet(row.seats)
    /\ (~Due(todo, "drop") /\ ~Due(todo, "unlist") /\ failed \cap Listing = {}) =>
           row = NoRow \/ listed \cup ToList(todo) = ToSet(row.seats)

(* What is to be listed when the first task is taken off.                  *)
LEMMA ListedLater ==
    ASSUME NEW s \in Seq(Task), s # << >>, ListsFirst(s)
    PROVE  /\ ListsFirst(Tail(s))
           /\ ~Due(Tail(s), "unlist")
           /\ Head(s).do \notin Listing => \A t \in Range(s) : t.do \notin Listing
           /\ Head(s).do # "unlist" => ~Due(s, "unlist")
           /\ \A step : step # Head(s).do => (Due(s, step) <=> Due(Tail(s), step))
           /\ Head(s).do = "list" => ToList(s) = ToList(Tail(s)) \cup {Head(s).for}
           /\ Head(s).do # "list" => ToList(s) = ToList(Tail(s))
<1> DEFINE n == Len(s)
           r == Tail(s)
<1>1. /\ n \in Nat \ {0} /\ r \in Seq(Task) /\ Len(r) = n - 1
      /\ Head(s) = s[1] /\ \A i \in 1..(n - 1) : r[i] = s[i + 1]
  BY HeadTailProperties, LenProperties
<1>2. Range(s) = {s[i] : i \in 1..n} /\ Range(r) = {r[i] : i \in 1..(n - 1)}
  <2>1. Range(s) = {s[i] : i \in 1..n}
    BY RangeEquality
  <2>2. Range(r) = {r[i] : i \in 1..Len(r)}
    BY <1>1, RangeEquality
  <2> QED
    BY <1>1, <2>1, <2>2
<1> HIDE DEF r
<1>3. ASSUME NEW k \in 1..n, k # 1
      PROVE  k - 1 \in 1..(n - 1) /\ r[k - 1] = s[k]
  <2>1. k - 1 \in 1..(n - 1) /\ (k - 1) + 1 = k
    BY <1>1, <1>3
  <2> QED
    BY <1>1, <2>1
<1>4. Range(s) = {Head(s)} \cup Range(r)
  <2>1. ASSUME NEW t \in Range(s) PROVE t = Head(s) \/ t \in Range(r)
    BY <1>1, <1>2, <1>3
  <2>2. Head(s) \in Range(s)
    BY <1>1, <1>2
  <2>3. ASSUME NEW t \in Range(r) PROVE t \in Range(s)
    <3>1. PICK i \in 1..(n - 1) : t = r[i]
      BY <1>2
    <3>2. i + 1 \in 1..n /\ t = s[i + 1]
      BY <1>1, <3>1
    <3> QED
      BY <1>2, <3>2
  <2> QED
    BY <2>1, <2>2, <2>3
<1>5. ListsFirst(r) /\ ~Due(r, "unlist")
  <2>1. ASSUME NEW j \in 1..(n - 1), r[j].do \in Listing
        PROVE  (\A i \in 1..(j - 1) : r[i].do \in Listing) /\ r[j].do # "unlist"
    <3>1. j + 1 \in 1..n /\ r[j] = s[j + 1] /\ j + 1 # 1
      BY <1>1
    <3>2. /\ \A i \in 1..((j + 1) - 1) : s[i].do \in Listing
          /\ s[j + 1].do # "unlist"
      BY <2>1, <3>1 DEF ListsFirst
    <3>3. \A i \in 1..(j - 1) : i + 1 \in 1..((j + 1) - 1) /\ i \in 1..(n - 1)
      BY <1>1
    <3> QED
      BY <1>1, <3>1, <3>2, <3>3
  <2>2. ListsFirst(r)
    BY <1>1, <2>1 DEF ListsFirst
  <2>3. ~Due(r, "unlist")
    BY <1>2, <2>1 DEF Due, Listing
  <2> QED
    BY <2>2, <2>3
<1>6. Head(s).do \notin Listing => \A t \in Range(s) : t.do \notin Listing
  <2>1. ASSUME NEW k \in 1..n, s[k].do \in Listing PROVE s[1].do \in Listing
    <3>1. CASE k = 1
      BY <2>1, <3>1
    <3>2. CASE k # 1
      <4>1. 1 \in 1..(k - 1)
        BY <1>1, <3>2
      <4> QED
        BY <2>1, <4>1 DEF ListsFirst
    <3> QED
      BY <3>1, <3>2
  <2> QED
    BY <1>1, <1>2, <2>1
<1>7. Head(s).do # "unlist" => ~Due(s, "unlist")
  BY <1>4, <1>5 DEF Due
<1>8. \A step : step # Head(s).do => (Due(s, step) <=> Due(r, step))
  BY <1>4 DEF Due
<1>9. /\ Head(s).do = "list" => ToList(s) = ToList(r) \cup {Head(s).for}
      /\ Head(s).do # "list" => ToList(s) = ToList(r)
  BY <1>4 DEF ToList
<1> QED
  BY <1>5, <1>6, <1>7, <1>8, <1>9 DEF r

(* Tasks with no such statement list nobody.                               *)
LEMMA NobodyToList ==
    ASSUME NEW s \in Seq(Task), \A t \in Range(s) : t.do \notin Listing
    PROVE  ListsFirst(s) /\ ToList(s) = {} /\ ~Due(s, "unlist") /\ ~Due(s, "drop")
<1>1. \A i \in 1..Len(s) : s[i].do \notin Listing
  BY RangeEquality
<1> QED
  BY <1>1 DEF ListsFirst, ToList, Due, Listing

(* A save lists the seats.                                                 *)
LEMMA SaveLists ==
    ASSUME game.seats \in Seq(Player), NEW r \in Seq(Task),
           \A t \in Range(r) : t.do \notin Listing
    PROVE  /\ ListTasks \o r \in Seq(Task)
           /\ ListsFirst(ListTasks \o r)
           /\ ToList(ListTasks \o r) = ToSet(game.seats)
           /\ Due(ListTasks \o r, "unlist") /\ ~Due(ListTasks \o r, "drop")
<1> DEFINE a == <<Do("unlist")>>
           b == [i \in 1..Len(game.seats) |-> DoFor("list", game.seats[i])]
           n == Len(game.seats)
<1>0. n \in Nat
  BY LenProperties
<1>1. a \in Seq(Task) /\ Len(a) = 1 /\ a[1].do = "unlist" /\ Range(a) = {Do("unlist")}
  BY OneTask DEF Do, Task, Steps
<1>2. /\ b \in Seq(Task) /\ Len(b) = n
      /\ \A i \in 1..n : b[i].do = "list" /\ b[i].for = game.seats[i]
  <2>1. b \in Seq(Task)
    BY SeatsListed DEF Steps
  <2>2. Len(b) = n
    BY <1>0
  <2> QED
    BY <2>1, <2>2 DEF DoFor
<1>3. ListTasks \o r = (a \o b) \o r
  BY DEF ListTasks
<1>4. Range(b) = {b[i] : i \in 1..n} /\ Len(r) \in Nat
  <2>1. Range(b) = {b[i] : i \in 1..Len(b)}
    BY <1>2, RangeEquality
  <2>2. Len(r) \in Nat
    BY LenProperties
  <2> QED
    BY <1>2, <2>1, <2>2
<1>5. ToSet(game.seats) = {game.seats[i] : i \in 1..n}
  <2>1. DOMAIN game.seats = 1..n
    BY LenProperties
  <2> QED
    BY <2>1 DEF ToSet
<1>6. Do("unlist").do = "unlist"
  BY DEF Do
<1> HIDE DEF a, b, n
<1>7. /\ a \o b \in Seq(Task) /\ Range(a \o b) = Range(a) \cup Range(b) /\ Len(a \o b) = 1 + n
      /\ \A i \in 1..(1 + n) : (a \o b)[i] = IF i <= 1 THEN a[i] ELSE b[i - 1]
  <2>0. a \in Seq(Task) /\ b \in Seq(Task)
    BY <1>1, <1>2
  <2>1. /\ a \o b \in Seq(Task) /\ Len(a \o b) = Len(a) + Len(b)
        /\ \A i \in 1..(Len(a) + Len(b)) :
              (a \o b)[i] = IF i <= Len(a) THEN a[i] ELSE b[i - Len(a)]
    BY <2>0, ConcatProperties
  <2>2. Range(a \o b) = Range(a) \cup Range(b)
    BY <2>0, RangeConcatenation
  <2> QED
    BY <1>1, <1>2, <2>1, <2>2
<1> DEFINE c == (a \o b) \o r
<1>8. /\ c \in Seq(Task) /\ Range(c) = Range(a) \cup Range(b) \cup Range(r)
      /\ Len(c) = (1 + n) + Len(r)
      /\ \A i \in 1..((1 + n) + Len(r)) :
            c[i] = IF i <= 1 + n THEN (a \o b)[i] ELSE r[i - (1 + n)]
  <2> DEFINE ab == a \o b
  <2>0. ab \in Seq(Task) /\ Len(ab) = 1 + n
    BY <1>7
  <2> HIDE DEF ab
  <2>1. /\ ab \o r \in Seq(Task) /\ Len(ab \o r) = Len(ab) + Len(r)
        /\ \A i \in 1..(Len(ab) + Len(r)) :
              (ab \o r)[i] = IF i <= Len(ab) THEN ab[i] ELSE r[i - Len(ab)]
    BY <2>0, ConcatProperties
  <2>2. Range(ab \o r) = Range(ab) \cup Range(r)
    BY <2>0, RangeConcatenation
  <2> QED
    BY <1>7, <2>0, <2>1, <2>2 DEF ab
<1> HIDE DEF c
<1>9. \A i \in 1..Len(r) : r[i].do \notin Listing
  BY RangeEquality
<1>10. c[1].do = "unlist"
  <2>1. 1 \in 1..(1 + n) /\ 1 \in 1..((1 + n) + Len(r)) /\ 1 <= 1 + n
    BY <1>0, <1>4
  <2> QED
    <3>1. (a \o b)[1] = a[1]
      BY <1>7, <2>1
    <3>2. c[1] = (a \o b)[1]
      BY <1>8, <2>1
    <3> QED
      BY <1>1, <3>1, <3>2
<1>11. ASSUME NEW i \in 1..Len(c), i # 1
       PROVE  IF i <= 1 + n THEN c[i].do = "list" ELSE c[i].do \notin Listing
  <2>1. CASE i <= 1 + n
    <3>1. i \in 1..(1 + n) /\ i - 1 \in 1..n /\ ~(i <= 1)
      BY <1>0, <1>11, <2>1
    <3>2. c[i] = b[i - 1]
      BY <1>7, <1>8, <2>1, <3>1
    <3> QED
      BY <1>2, <2>1, <3>1, <3>2
  <2>2. CASE ~(i <= 1 + n)
    <3>1. i - (1 + n) \in 1..Len(r)
      BY <1>0, <1>4, <1>8, <2>2
    <3> QED
      BY <1>8, <1>9, <2>2, <3>1
  <2> QED
    BY <2>1, <2>2
<1>12. ListsFirst(c)
  <2> SUFFICES ASSUME NEW j \in 1..Len(c), c[j].do \in Listing
               PROVE  /\ \A i \in 1..(j - 1) : c[i].do \in Listing
                      /\ c[j].do = "unlist" => j = 1
    BY DEF ListsFirst
  <2>1. j = 1 \/ j <= 1 + n
    BY <1>11
  <2>2. ASSUME NEW i \in 1..(j - 1) PROVE c[i].do \in Listing
    <3>1. i \in 1..Len(c) /\ (i = 1 \/ i <= 1 + n)
      BY <1>0, <1>4, <1>8, <2>1
    <3> QED
      BY <1>10, <1>11, <3>1 DEF Listing
  <2>3. j # 1 => c[j].do # "unlist"
    BY <1>11 DEF Listing
  <2> QED
    BY <2>2, <2>3
<1>13. ToList(c) = {game.seats[i] : i \in 1..n}
  <2>1. ToList(c) = {t.for : t \in Range(b)}
    BY <1>1, <1>2, <1>4, <1>6, <1>8 DEF ToList, Listing
  <2>2. \A t \in Range(b) : \E i \in 1..n : t = b[i]
    BY <1>4
  <2>3. \A i \in 1..n : b[i] \in Range(b) /\ b[i].for = game.seats[i]
    BY <1>2, <1>4
  <2>4. ASSUME NEW t \in Range(b) PROVE t.for \in {game.seats[i] : i \in 1..n}
    <3>1. PICK i \in 1..n : t = b[i]
      BY <2>2
    <3> QED
      BY <2>3, <3>1
  <2>5. ASSUME NEW i \in 1..n PROVE game.seats[i] \in {t.for : t \in Range(b)}
    BY <2>3
  <2>6. {t.for : t \in Range(b)} \subseteq {game.seats[i] : i \in 1..n}
    BY <2>4
  <2>7. {game.seats[i] : i \in 1..n} \subseteq {t.for : t \in Range(b)}
    BY <2>5
  <2> QED
    BY <2>1, <2>6, <2>7
<1>14. Due(c, "unlist") /\ ~Due(c, "drop")
  BY <1>1, <1>2, <1>4, <1>6, <1>8 DEF Due, Listing
<1> QED
  BY <1>3, <1>5, <1>8, <1>12, <1>13, <1>14 DEF c

(* Steps among other tasks, with no statement about the two tables.        *)
LEMMA NothingListedStep ==
    ASSUME ListedKept, todo \in Seq(Task), todo' \in Seq(Task),
           \A t \in Range(todo) : t.do \notin Listing,
           \A t \in Range(todo') : t.do \notin Listing,
           row' = row, listed' = listed,
           failed' \cap Listing = {} => failed \cap Listing = {}
    PROVE  ListedKept'
<1>1. ToList(todo) = {} /\ ~Due(todo, "unlist") /\ ~Due(todo, "drop")
  BY NobodyToList
<1>2. ListsFirst(todo') /\ ToList(todo') = {} /\ ~Due(todo', "unlist") /\ ~Due(todo', "drop")
  BY NobodyToList
<1> QED
  BY <1>1, <1>2 DEF ListedKept

LEMMA ListedInit == Init => ListedKept
<1> SUFFICES ASSUME Init PROVE ListedKept
  OBVIOUS
<1>1. todo = << >> /\ Range(<< >>) = {} /\ row = NoRow
  BY DEF Init, Range
<1> QED
  BY <1>1, NothingDue, NobodyToList DEF ListedKept

(* Every step keeps the list with the row.                                 *)
LEMMA ListedStep == CInv /\ CInv' /\ ListedKept /\ [Next]_vars => ListedKept'
<1> SUFFICES ASSUME CInv, CInv', ListedKept, [Next]_vars PROVE ListedKept'
  OBVIOUS
<1> USE DEF database, history, memory
<1>a. todo \in Seq(Task) /\ todo' \in Seq(Task) /\ game.seats \in Seq(Player) /\ TasksFit
  BY DEF CInv, RecoveryTypeOK, Game
<1>b. Range(<< >>) = {} /\ << >> \in Seq(Task)
  BY NothingDue DEF Range
<1>c. todo = << >> => \A t \in Range(todo) : t.do \notin Listing
  BY <1>b
<1>d. ASSUME NEW step, Next1(step), step \notin Listing, todo' = Tail(todo),
             row' = row, listed' = listed,
             failed' \cap Listing = {} => failed \cap Listing = {}
      PROVE  ListedKept'
  <2>1. \A t \in Range(todo) : t.do \notin Listing
    BY <1>a, <1>d, TaskTaken, ListedLater DEF ListedKept
  <2>2. Range(todo') \subseteq Range(todo)
    BY <1>d, TaskTaken
  <2> QED
    BY <1>a, <1>d, <2>1, <2>2, NothingListedStep
<1>e. ASSUME todo = << >>, \A t \in Range(todo') : t.do \notin Listing,
             row' = row, listed' = listed, failed' = failed
      PROVE  ListedKept'
  BY <1>a, <1>c, <1>e, NothingListedStep
<1>f. ASSUME UNCHANGED <<todo, row, listed, failed>> PROVE ListedKept'
  BY <1>f DEF ListedKept
<1>g. \A step \in {"save", "profile", "stats"} :
         /\ Works({step}) \/ Fails(step) \/ Works({}) =>
               (failed' \cap Listing = {} => failed \cap Listing = {})
  BY DEF Works, Fails, Listing
<1>1. CASE SaveRow
  <2>1. CASE row' = row /\ todo' = Tail(todo) /\ Fails("save")
    BY <1>1, <1>d, <1>g, <2>1 DEF SaveRow, Listing
  <2>2. CASE row' = Snapshot(game) /\ todo' = ListTasks \o Tail(todo)
    <3>1. \A t \in Range(todo) : t.do \notin Listing
      BY <1>1, <1>a, TaskTaken, ListedLater DEF ListedKept, SaveRow, Listing
    <3>2. Tail(todo) \in Seq(Task) /\ Range(Tail(todo)) \subseteq Range(todo)
      BY <1>1, TaskTaken DEF SaveRow
    <3>3. /\ ListsFirst(todo') /\ ToList(todo') = ToSet(game.seats)
          /\ Due(todo', "unlist")
      BY <1>a, <2>2, <3>1, <3>2, SaveLists
    <3>4. row'.seats = game.seats
      BY <2>2 DEF Snapshot
    <3> QED
      BY <3>3, <3>4 DEF ListedKept
  <2> QED
    BY <1>1, <2>1, <2>2 DEF SaveRow, ListTasks
<1>2. CASE UnlistPlayers
  <2>1. /\ todo # << >> /\ Head(todo).do = "unlist" /\ todo' = Tail(todo)
        /\ row' = row
    BY <1>2, TaskTaken DEF UnlistPlayers
  <2>2. /\ ListsFirst(todo') /\ ~Due(todo', "unlist")
        /\ Due(todo, "drop") <=> Due(todo', "drop")
        /\ ToList(todo) = ToList(todo')
    BY <1>a, <2>1, ListedLater DEF ListedKept
  <2>3. Due(todo, "unlist")
    BY <1>2, TaskTaken DEF UnlistPlayers, Due
  <2>4. listed' = {} \/ failed' \cap Listing # {}
    BY <1>2 DEF UnlistPlayers, Fails, Listing
  <2> QED
    BY <2>1, <2>2, <2>3, <2>4 DEF ListedKept
<1>3. CASE ListPlayer
  <2>1. /\ todo # << >> /\ Head(todo).do = "list" /\ todo' = Tail(todo)
        /\ row' = row
    BY <1>3, TaskTaken DEF ListPlayer
  <2>2. /\ ListsFirst(todo') /\ ~Due(todo', "unlist") /\ ~Due(todo, "unlist")
        /\ Due(todo, "drop") <=> Due(todo', "drop")
        /\ ToList(todo) = ToList(todo') \cup {Head(todo).for}
    BY <1>a, <2>1, ListedLater DEF ListedKept
  <2>3. \/ listed' = listed \cup {Head(todo).for} /\ failed' = failed
        \/ failed' \cap Listing # {}
    BY <1>3 DEF ListPlayer, Works, Fails, Listing
  <2>4. listed' = listed \cup {Head(todo).for} =>
          listed' \cup ToList(todo') = listed \cup ToList(todo)
    BY <2>2
  <2> QED
    BY <2>1, <2>2, <2>3, <2>4 DEF ListedKept
<1>4. CASE SaveProfile
  <2>0. /\ failed' \cap Listing = {} => failed \cap Listing = {}
        /\ row' = row /\ listed' = listed
    BY <1>4, <1>g DEF SaveProfile
  <2>1. /\ \A t \in Range(todo) : t.do \notin Listing
    BY <1>4, <1>a, TaskTaken, ListedLater DEF ListedKept, SaveProfile, Listing
  <2>2. CASE todo' = Tail(todo)
    BY <1>4, <1>d, <2>0, <2>2 DEF SaveProfile, Listing
  <2>3. CASE todo' = <<DoFor("stats", Head(todo).for)>> \o Tail(todo)
    <3>1. /\ Head(todo).for \in Player /\ Tail(todo) \in Seq(Task)
          /\ Range(Tail(todo)) \subseteq Range(todo)
      BY <1>4, TaskTaken DEF SaveProfile
    <3>2. /\ <<DoFor("stats", Head(todo).for)>> \in Seq(Task)
          /\ \A t \in Range(<<DoFor("stats", Head(todo).for)>>) : t.do = "stats"
      BY <3>1, OneTask DEF DoFor, Task, Steps
    <3>3. Range(todo') = Range(<<DoFor("stats", Head(todo).for)>>) \cup Range(Tail(todo))
      BY <2>3, <3>1, <3>2, TasksAhead
    <3>4. \A t \in Range(todo') : t.do \notin Listing
      BY <2>1, <3>1, <3>2, <3>3 DEF Listing
    <3> QED
      BY <1>a, <2>0, <2>1, <3>4, NothingListedStep
  <2> QED
    BY <1>4, <2>2, <2>3 DEF SaveProfile
<1>5. CASE SaveStats
  BY <1>5, <1>d, <1>g DEF SaveStats, Listing
<1>6. CASE DeleteRow
  <2>1. /\ todo # << >> /\ Head(todo).do = "drop" /\ todo' = Tail(todo)
    BY <1>6, TaskTaken DEF DeleteRow
  <2>2. ListsFirst(todo') /\ ~Due(todo', "unlist")
    BY <1>a, <2>1, ListedLater DEF ListedKept
  <2>3. row' = NoRow \/ failed' \cap Listing # {}
    BY <1>6 DEF DeleteRow, Fails, Listing
  <2> QED
    BY <2>2, <2>3 DEF ListedKept
<1>7. CASE TakeSeat \/ Answer \/ StartNewRound
  BY <1>7, <1>d DEF TakeSeat, Answer, StartNewRound, Listing
<1>8. CASE Handled \/ StopPlaying \/ AnswerRemoved
  BY <1>8, <1>d DEF Handled, StopPlaying, AnswerRemoved, Listing
<1>9. CASE PlayBot
  BY <1>9, <1>f DEF PlayBot
<1>10. ASSUME NEW p \in Human, NEW bots \in BotSeqs, HandleCreateGame(p, bots)
       PROVE  ListedKept'
  <2>1. \A t \in Range(todo') : t.do \in {"seat", "profile", "save", "answer"}
    BY <1>10, CreateTasksOnly DEF HandleCreateGame
  <2> QED
    BY <1>10, <1>e, <2>1 DEF HandleCreateGame, Idle, Listing
<1>11. ASSUME NEW p \in Human, HandleJoinByCode(p) PROVE ListedKept'
  <2>1. \A t \in Range(todo') : t.do \in {"seat", "profile", "save", "answer"}
    BY <1>11, AnsweredTasksOnly DEF HandleJoinByCode
  <2> QED
    BY <1>11, <1>e, <2>1 DEF HandleJoinByCode, Idle, Listing
<1>12. ASSUME NEW p \in Human, HandleLeaveGame(p) PROVE ListedKept'
  BY <1>12, <1>f DEF HandleLeaveGame
<1>13. ASSUME NEW p \in Human, HandleGameAction(p) PROVE ListedKept'
  <2>1. \A t \in Range(todo') : t.do \in {"save", "newRound", "handled", "play"}
    BY <1>13, ActionTasksOnly DEF HandleGameAction
  <2> QED
    BY <1>13, <1>e, <2>1 DEF HandleGameAction, Idle, Listing
<1>14. CASE HandleStartGame
  <2>1. \A t \in Range(todo') : t.do \in {"save", "play"}
    BY <1>14, StartTasksOnly DEF HandleStartGame
  <2> QED
    BY <1>14, <1>e, <2>1 DEF HandleStartGame, Idle, Listing
<1>15. CASE HandleCleanupStaleLobbies
  <2>1. todo' = <<Do("unlist"), Do("drop"), Do("removed")>>
    BY <1>15 DEF HandleCleanupStaleLobbies
  <2>2. \A step : Do(step).do = step
    BY DEF Do
  <2>3. ListsFirst(todo')
    BY <2>1, <2>2 DEF ListsFirst, Listing
  <2>4. Due(todo', "drop")
    BY <2>1, <2>2 DEF Due, Range
  <2> QED
    BY <2>3, <2>4 DEF ListedKept
<1>16. CASE Crash
  <2>1. /\ todo' = << >> /\ row' = row /\ listed' = listed
        /\ failed' = IF \/ Next1("unlist") \/ Next1("list") \/ Next1("drop")
                       THEN failed \cup {"list"} ELSE failed
    BY <1>16 DEF Crash
  <2>2. ListsFirst(todo') /\ ~Due(todo', "unlist") /\ ToList(todo') = {}
    BY <1>b, <2>1, NobodyToList
  <2>3. CASE \A t \in Range(todo) : t.do \notin Listing
    <3>1. failed' \cap Listing = {} => failed \cap Listing = {}
      BY <2>1
    <3>2. \A t \in Range(todo') : t.do \notin Listing
      BY <1>b, <2>1
    <3> QED
      BY <1>a, <2>1, <2>3, <3>1, <3>2, NothingListedStep
  <2>4. CASE ~\A t \in Range(todo) : t.do \notin Listing
    <3>1. todo # << >> /\ Head(todo).do \in Listing
      BY <1>a, <1>c, <2>4, ListedLater DEF ListedKept
    <3>2. "list" \in failed'
      BY <2>1, <3>1 DEF Next1, Listing
    <3> QED
      BY <2>2, <3>2 DEF ListedKept, Listing
  <2> QED
    BY <2>3, <2>4
<1>17. CASE Restart
  BY <1>17, <1>f DEF Restart
<1>18. CASE UNCHANGED vars
  BY <1>18, <1>f DEF vars
<1> QED
  BY <1>1, <1>2, <1>3, <1>4, <1>5, <1>6, <1>7, <1>8, <1>9, <1>10, <1>11, <1>12, <1>13,
     <1>14, <1>15, <1>16, <1>17, <1>18 DEF Next, Execute

(* Whenever no handler runs, a player's games are found under exactly his  *)
(* name: for any number of seats, saves and crashes, unless one of the     *)
(* statements failed, or was due when the process died, and no later save  *)
(* has mended it.                                                          *)
THEOREM GamesAreFound == Spec => []ListedWhenIdle
<1>1. CInv /\ CInv' /\ ListedKept /\ [Next]_vars => ListedKept'
  BY ListedStep
<1>2. ListedKept => ListedWhenIdle
  <2> SUFFICES ASSUME ListedKept, todo = << >>, failed \cap {"unlist", "list", "drop"} = {},
                      NEW p \in Player
               PROVE  FoundBy(p) <=> p \in ToSet(row.seats)
    BY DEF ListedWhenIdle
  <2>1. Range(<< >>) = {}
    BY DEF Range
  <2>2. ToList(todo) = {} /\ ~Due(todo, "unlist") /\ ~Due(todo, "drop")
    BY <2>1, NothingDue, NobodyToList
  <2>3. row = NoRow \/ listed = ToSet(row.seats)
    BY <2>2 DEF ListedKept, Listing
  <2>4. ToSet(NoRow.seats) = {}
    BY DEF NoRow, ToSet
  <2> QED
    BY <2>3, <2>4 DEF FoundBy
<1> QED
  BY ListedInit, <1>1, <1>2, RecoveryInvariance, PTL DEF Spec
=============================================================================
