-------------------------- MODULE WhotRounds_proofs -------------------------
(***************************************************************************)
(* The rounds of a game: who wins one, what the books say of it, what an   *)
(* attack costs, and which cards a deal can bring back; for every set of   *)
(* players, every part of the standard deck and every configuration.       *)
(***************************************************************************)
EXTENDS WhotEngine_proofs, WellFoundedInduction

-----------------------------------------------------------------------------
(* What is in play.                                                        *)

InPlay == deck \cup discard \cup UNION {hand[p] : p \in Player}

(* Every card in play is an object of a deck that was dealt.               *)
MadeByDeals == \A c \in InPlay : c.gen \in 1..round /\ c \in NewDeck(c.gen)

(* Before the first deal nothing is in play, and nothing is owed.          *)
NothingBeforeDeal ==
    phase \in {"LOBBY", "STARTING"} =>
        /\ pickCount = 0 /\ deck = {} /\ discard = {}
        /\ \A p \in Player : hand[p] = {}

HandsFinite == \A p \in Player : IsFiniteSet(hand[p])

(* joinGame checks the limit before it adds a player.                      *)
SeatsFit == Len(seats) =< MaxPlayers

(* Every seat is dealt a card: the configuration deals at least one round, *)
(* from a deck that has a card for everybody at a full table.              *)
EveryoneIsDealtTo == StartingCards > 0 /\ Cardinality(DeckCards) >= MaxPlayers

(* The second inductive invariant, beside IInv.  CallCardIsNotDealt needs  *)
(* MadeByDeals, by which the cards of the first round are objects of one   *)
(* deck, and NothingBeforeDeal, by which its hands hold nothing else;      *)
(* OneWinner needs SeatsFit for the deal to reach every seat; HandsFinite  *)
(* and NothingBeforeDeal are what AttackIsPaid takes from a state.         *)
RoundInv ==
    /\ IInv
    /\ NothingBeforeDeal
    /\ HandsFinite
    /\ MadeByDeals
    /\ CallCardIsNotDealt
    /\ SeatsFit
    /\ EveryoneIsDealtTo => OneWinner

(* Two objects of one deck with one face are Whots or the same object.     *)
LEMMA OneObjectPerFace ==
    ASSUME NEW g \in Nat, NEW c \in NewDeck(g), NEW d \in NewDeck(g),
           SameFace(c, d), c.value # 20
    PROVE  c = d
<1>1. \A x \in StandardDeck :
         /\ x \in [suit : Suit, value : CardValue, copy : Nat]
         /\ x.value = 20 \/ x.copy = 1
  BY DEF StandardDeck, CircleCards, TriangleCards, CrossCards, BlockCards,
         StarCards, WhotCards, Suited, Suit, CardValue, WHOT_CARDS_COUNT
<1>2. PICK x \in DeckCards :
        c = [suit |-> x.suit, value |-> x.value, copy |-> x.copy, gen |-> g]
  BY DEF NewDeck
<1>3. PICK y \in DeckCards :
        d = [suit |-> y.suit, value |-> y.value, copy |-> y.copy, gen |-> g]
  BY DEF NewDeck
<1>4. x \in StandardDeck /\ y \in StandardDeck
  BY EngineAssumption DEF EngineAssumption
<1>5. x.copy = 1 /\ y.copy = 1
  BY <1>1, <1>2, <1>3, <1>4 DEF SameFace
<1> QED
  BY <1>2, <1>3, <1>5 DEF SameFace

(* A new deck is as large as its template.                                 *)
LEMMA NewDeckSize ==
    ASSUME NEW g \in Nat
    PROVE  Cardinality(NewDeck(g)) = Cardinality(DeckCards)
<1> DEFINE make(d) == [suit |-> d.suit, value |-> d.value, copy |-> d.copy, gen |-> g]
           f == [d \in DeckCards |-> make(d)]
<1>1. StandardDeck \subseteq [suit : Suit, value : CardValue, copy : Nat]
  BY DEF StandardDeck, CircleCards, TriangleCards, CrossCards, BlockCards,
         StarCards, WhotCards, Suited, Suit, CardValue, WHOT_CARDS_COUNT
<1>2. DeckCards \subseteq [suit : Suit, value : CardValue, copy : Nat]
  BY <1>1, EngineAssumption DEF EngineAssumption
<1>3. f \in Surjection(DeckCards, NewDeck(g))
  BY DEF NewDeck, Surjection
<1>4. ASSUME NEW a \in DeckCards, NEW b \in DeckCards, make(a) = make(b)
      PROVE  a = b
  <2>1. a.suit = b.suit /\ a.value = b.value /\ a.copy = b.copy
    BY <1>4
  <2> QED
    BY <2>1, <1>2
<1>5. f \in Injection(DeckCards, NewDeck(g))
  <2>1. f \in [DeckCards -> NewDeck(g)]
    BY DEF NewDeck
  <2> QED
    BY <2>1, <1>4 DEF Injection, IsInjective
<1> HIDE DEF f
<1> QED
  BY <1>3, <1>5, FS_Surjection, EngineAssumption DEF EngineAssumption

(* A seat has one owner.                                                   *)
LEMMA SeatFound ==
    ASSUME seats \in Seq(Player), OneSeatEach, NEW i \in 1..Len(seats)
    PROVE  SeatOf(seats[i]) = i
BY DEF SeatOf, OneSeatEach

(* Sharing at least as many cards as there are seats leaves nobody out.    *)
LEMMA EverySeatHasAShare ==
    ASSUME seats \in Seq(Player), OneSeatEach, SeatsFit, EveryoneIsDealtTo,
           NEW p \in Seated
    PROVE  DealShare[p] >= 1 /\ DealShare[p] \in Nat
<1> DEFINE n == Len(seats)
           total == AtMost(StartingCards * n, Cardinality(DeckCards))
<1>1. PICK i \in 1..n : seats[i] = p
  BY DEF Seated
<1>2. SeatOf(p) = i /\ p \in Player
  BY <1>1, SeatFound
<1>3. n \in Nat /\ i >= 1 /\ i =< n /\ i \in Nat
  OBVIOUS
<1>4. Cardinality(DeckCards) \in Nat /\ MaxPlayers \in Nat /\ StartingCards \in Nat
  BY EngineAssumption, FS_CardinalityType DEF EngineAssumption
<1>5. StartingCards * n \in Nat /\ StartingCards * n >= n
  <2>1. \A a \in Nat, b \in Nat : a > 0 => a * b \in Nat /\ a * b >= b
    OBVIOUS
  <2> QED
    BY <2>1, <1>3, <1>4 DEF EveryoneIsDealtTo
<1>6. total \in Nat /\ total >= n
  BY <1>3, <1>4, <1>5 DEF AtMost, SeatsFit, EveryoneIsDealtTo
<1>7. DealShare[p] = (total + n - i) \div n
  BY <1>1, <1>2 DEF DealShare
<1> HIDE DEF n, total
<1>8. \A t \in Nat, a \in Nat, b \in Nat :
        1 =< b /\ b =< a /\ t >= a => (t + a - b) \div a \in Nat /\ (t + a - b) \div a >= 1
  OBVIOUS
<1> QED
  BY <1>3, <1>6, <1>7, <1>8

(* Whoever plays is in a round: there is a card to play on.                *)
LEMMA PlayersAreInARound ==
    ASSUME BooksOpen, TypeOK, NEW p \in Player, NEW c \in hand[p], PlayCard(p, c)
    PROVE  phase = "IN_PROGRESS"
BY DEF PlayCard, Accepting, CanPlayCard, BooksOpen

(* The invariant holds initially, and every step keeps each part of it.    *)
LEMMA RoundInit == Init => RoundInv
<1> SUFFICES ASSUME Init PROVE RoundInv
  OBVIOUS
<1>1. IInv
  BY InvInit
<1>2. NothingBeforeDeal /\ MadeByDeals
  BY DEF Init, NothingBeforeDeal, MadeByDeals, InPlay
<1>3. HandsFinite
  BY FS_EmptySet DEF Init, HandsFinite
<1>4. CallCardIsNotDealt /\ OneWinner
  BY DEF Init, CallCardIsNotDealt, OneWinner
<1>5. SeatsFit
  BY EngineAssumption DEF Init, SeatsFit, EngineAssumption
<1> QED
  BY <1>1, <1>2, <1>3, <1>4, <1>5 DEF RoundInv

LEMMA SeatsFitStep == RoundInv /\ [Next]_vars => SeatsFit'
<1> SUFFICES ASSUME RoundInv, [Next]_vars PROVE SeatsFit'
  OBVIOUS
<1> USE DEF RoundInv, SeatsFit
<1>0. seats \in Seq(Player) /\ Len(seats) \in Nat /\ MaxPlayers \in Nat
  BY EngineAssumption DEF IInv, TypeOK, EngineAssumption
<1>1. ASSUME NEW p \in Player, AddPlayer(p) PROVE SeatsFit'
  BY <1>0, <1>1 DEF AddPlayer, MayJoin
<1>2. ASSUME NEW p \in Player, RemovePlayer(p) PROVE SeatsFit'
  <2>1. PICK i \in 1..Len(seats) : seats' = Without(seats, i)
    BY <1>2 DEF RemovePlayer
  <2>2. Len(seats') = Len(seats) - 1
    BY <1>0, <2>1, SeatsWithout
  <2> QED
    BY <1>0, <2>2
<1>3. CASE UNCHANGED seats
  BY <1>3
<1> QED
  BY <1>1, <1>2, <1>3
     DEF Next, StartNewRound, StartGame, PlayCard, DrawCard, Declare, ChooseSuit, vars

(* Every step keeps hands finite, cards made by deals and the table empty  *)
(* before the first deal.                                                  *)
LEMMA CardsStep ==
    RoundInv /\ [Next]_vars => HandsFinite' /\ MadeByDeals' /\ NothingBeforeDeal'
<1> SUFFICES ASSUME RoundInv, [Next]_vars
             PROVE  HandsFinite' /\ MadeByDeals' /\ NothingBeforeDeal'
  OBVIOUS
<1> USE DEF RoundInv, HandsFinite, MadeByDeals, NothingBeforeDeal, InPlay
<1>0. /\ hand \in [Player -> SUBSET CardObject] /\ round \in Nat
      /\ IsFiniteSet(deck) /\ IsFiniteSet(discard) /\ TypeOK
  BY DEF IInv, TypeOK, PilesFinite
<1>1. CASE StartNewRound
  <2>1. PICK got \in [Player -> SUBSET NewDeck(round + 1)] :
          /\ hand' = [p \in Player |-> hand[p] \cup got[p]]
          /\ deck' \subseteq NewDeck(round + 1) \ AllOf(got)
    BY <1>0, <1>1, DealMoves
  <2>2. round' = round + 1 /\ phase' = "IN_PROGRESS" /\ discard' = {}
    BY <1>1 DEF StartNewRound
  <2>3. ASSUME NEW p \in Player PROVE IsFiniteSet(hand'[p])
    <3>1. IsFiniteSet(got[p])
      BY <1>0, <2>1, NewDeckFinite, FS_Subset
    <3>2. IsFiniteSet(hand[p] \cup got[p])
      BY <3>1, FS_Union
    <3> QED
      BY <2>1, <3>2
  <2>4. \A c \in NewDeck(round + 1) : c.gen = round + 1
    BY <1>0, NewDeckType
  <2>5. ASSUME NEW c \in InPlay' PROVE c \in InPlay \/ c \in NewDeck(round + 1)
    BY <2>1, <2>2
  <2>6. MadeByDeals'
    <3>1. ASSUME NEW c \in InPlay' PROVE c.gen \in 1..round' /\ c \in NewDeck(c.gen)
      <4>1. CASE c \in InPlay
        BY <4>1, <1>0, <2>2
      <4>2. CASE c \in NewDeck(round + 1)
        BY <4>2, <1>0, <2>2, <2>4
      <4> QED
        BY <4>1, <4>2, <2>5
    <3> QED
      BY <3>1
  <2> QED
    BY <2>2, <2>3, <2>6
<1>2. ASSUME NEW p \in Player, RemovePlayer(p)
      PROVE  HandsFinite' /\ MadeByDeals' /\ NothingBeforeDeal'
  <2>1. /\ hand' = [hand EXCEPT ![p] = {}]
        /\ UNCHANGED <<deck, discard, round, phase, pickCount>>
    BY <1>2 DEF RemovePlayer, table
  <2>2. \A q \in Player : hand'[q] = {} \/ hand'[q] = hand[q]
    BY <2>1, <1>0
  <2> QED
    BY <2>1, <2>2, FS_EmptySet
<1>3. ASSUME NEW p \in Player, StartGame(p)
      PROVE  HandsFinite' /\ MadeByDeals' /\ NothingBeforeDeal'
  BY <1>3 DEF StartGame, MayStart
<1>4. ASSUME NEW p \in Player, NEW c \in hand[p], PlayCard(p, c)
      PROVE  HandsFinite' /\ MadeByDeals' /\ NothingBeforeDeal'
  <2>1. PICK fresh \in SUBSET discard :
        \E got \in [Player -> SUBSET deck], more \in [Player -> SUBSET fresh] :
           CardPlayed(c, fresh, got, more)
    BY <1>4, <1>0, PutDownMoves DEF PlayCard, IInv
  <2>2. PICK got \in [Player -> SUBSET deck], more \in [Player -> SUBSET fresh] :
           CardPlayed(c, fresh, got, more)
    BY <2>1
  <2>3. \A q \in Player : hand'[q] = (hand[q] \ {c}) \cup got[q] \cup more[q]
    BY <2>2 DEF CardPlayed
  <2>4. ASSUME NEW q \in Player PROVE IsFiniteSet(hand'[q])
    <3>1. IsFiniteSet(got[q])
      BY <1>0, FS_Subset
    <3>2. IsFiniteSet(more[q])
      BY <1>0, FS_Subset
    <3>3. IsFiniteSet(hand[q] \ {c})
      BY FS_RemoveElement
    <3>4. IsFiniteSet((hand[q] \ {c}) \cup got[q])
      BY <3>1, <3>3, FS_Union
    <3>5. IsFiniteSet(((hand[q] \ {c}) \cup got[q]) \cup more[q])
      BY <3>2, <3>4, FS_Union
    <3> QED
      BY <2>3, <3>5
  <2>5. round' = round /\ phase = "IN_PROGRESS" /\ phase' \in {phase, "ROUND_ENDED"}
    BY <1>0, <1>4, PlayersAreInARound DEF PlayCard, EndRound, IInv
  <2>6. InPlay' \subseteq InPlay
    BY <2>2, <2>3 DEF CardPlayed
  <2> QED
    BY <2>4, <2>5, <2>6
<1>5. ASSUME NEW p \in Player, DrawCard(p)
      PROVE  HandsFinite' /\ MadeByDeals' /\ NothingBeforeDeal'
  <2>1. PICK drawn \in SUBSET (deck \cup discard) :
          /\ hand' = [hand EXCEPT ![p] = @ \cup drawn]
          /\ \/ /\ drawn \subseteq deck /\ deck' = deck \ drawn
                /\ discard' = discard
             \/ /\ deck = {} /\ discard' = {}
                /\ deck' \subseteq discard \ drawn
    BY <1>5, <1>0, DrawMoves
  <2>2. UNCHANGED <<round, phase>> /\ pickCount' = 0
    BY <1>5 DEF DrawCard
  <2>3. \A q \in Player : hand'[q] = IF q = p THEN hand[q] \cup drawn ELSE hand[q]
    BY <2>1, <1>0
  <2>4. IsFiniteSet(drawn)
    BY <1>0, FS_Union, FS_Subset
  <2>5. IsFiniteSet(hand[p] \cup drawn)
    BY <2>4, FS_Union
  <2>6. InPlay' \subseteq InPlay
    BY <2>1, <2>3
  <2>7. NothingBeforeDeal'
    BY <2>1, <2>2, <2>3
  <2> QED
    BY <2>2, <2>3, <2>5, <2>6, <2>7
<1>6. CASE UNCHANGED <<piles, pickCount, round, phase>>
  BY <1>6 DEF piles
<1> QED
  BY <1>1, <1>2, <1>3, <1>4, <1>5, <1>6
     DEF Next, AddPlayer, Declare, ChooseSuit, vars, table

(* In round one, no step leaves the face to match in a hand or the deck.   *)
LEMMA CallCardGoneStep == RoundInv /\ [Next]_vars => CallCardIsNotDealt'
<1> SUFFICES ASSUME RoundInv, [Next]_vars,
                    round' = 1, callCard' # NoCard, callCard'.value # 20,
                    NEW d \in deck' \cup UNION {hand'[p] : p \in Player}
             PROVE  ~SameFace(d, callCard')
  BY DEF CallCardIsNotDealt
<1> USE DEF RoundInv
<1>0. /\ hand \in [Player -> SUBSET CardObject] /\ round \in Nat
      /\ OneOwner /\ PilesFinite /\ TypeOK /\ BooksOpen
  BY DEF IInv, TypeOK
<1>1. CASE StartNewRound
  <2>1. /\ round = 0 /\ 1 \in Nat
        /\ \E got \in Handouts(NewDeck(1), DealShare) :
              LET rest == NewDeck(1) \ AllOf(got)
              IN  /\ hand' = [p \in Player |-> hand[p] \cup got[p]]
                  /\ \/ rest = {} /\ deck' = {} /\ callCard' = NoCard
                     \/ \E c \in rest : deck' = rest \ {c} /\ callCard' = Face(c)
    BY <1>0, <1>1 DEF StartNewRound
  <2>2. PICK got \in Handouts(NewDeck(1), DealShare) :
              LET rest == NewDeck(1) \ AllOf(got)
              IN  /\ hand' = [p \in Player |-> hand[p] \cup got[p]]
                  /\ \/ rest = {} /\ deck' = {} /\ callCard' = NoCard
                     \/ \E c \in rest : deck' = rest \ {c} /\ callCard' = Face(c)
    BY <2>1
  <2>3. PICK c \in NewDeck(1) \ AllOf(got) :
              deck' = (NewDeck(1) \ AllOf(got)) \ {c} /\ callCard' = Face(c)
    BY <2>2
  <2>4. \A p \in Player : hand[p] = {}
    BY <1>0, <1>1, <2>1 DEF StartNewRound, BooksOpen, NothingBeforeDeal
  <2>5. got \in [Player -> SUBSET NewDeck(1)]
    BY HandoutsGive
  <2>6. d \in NewDeck(1) /\ d # c
    BY <2>2, <2>3, <2>4, <2>5 DEF AllOf
  <2>7. c.value # 20
    BY <2>3 DEF Face
  <2>8. ~SameFace(c, d)
    BY <2>1, <2>3, <2>6, <2>7, OneObjectPerFace
  <2> QED
    BY <2>3, <2>8 DEF SameFace, Face
<1>2. ASSUME NEW p \in Player, RemovePlayer(p) PROVE ~SameFace(d, callCard')
  <2>1. hand' = [hand EXCEPT ![p] = {}] /\ UNCHANGED <<deck, callCard, round>>
    BY <1>2 DEF RemovePlayer
  <2>2. d \in deck \cup UNION {hand[q] : q \in Player}
    BY <1>0, <2>1
  <2> QED
    BY <2>1, <2>2 DEF CallCardIsNotDealt
<1>3. ASSUME NEW p \in Player, StartGame(p) PROVE ~SameFace(d, callCard')
  BY <1>3 DEF StartGame
<1>4. ASSUME NEW p \in Player, NEW c \in hand[p], PlayCard(p, c)
      PROVE  ~SameFace(d, callCard')
  <2>1. PICK fresh \in SUBSET discard :
        \E got \in [Player -> SUBSET deck], more \in [Player -> SUBSET fresh] :
           CardPlayed(c, fresh, got, more)
    BY <1>4, <1>0, PutDownMoves DEF PlayCard
  <2>2. PICK got \in [Player -> SUBSET deck], more \in [Player -> SUBSET fresh] :
           CardPlayed(c, fresh, got, more)
    BY <2>1
  <2>3. \A q \in Player : hand'[q] = (hand[q] \ {c}) \cup got[q] \cup more[q]
    BY <2>2 DEF CardPlayed
  <2>4. callCard' = Face(c) /\ round' = round
    BY <1>4 DEF PlayCard, PutDown
  <2>5. c \notin deck \cup discard
    BY <1>0 DEF OneOwner
  <2>6. d \in InPlay /\ c \in InPlay /\ d # c
    BY <2>2, <2>3, <2>5 DEF InPlay, CardPlayed
  <2>7. d \in NewDeck(1) /\ c \in NewDeck(1) /\ 1 \in Nat
    BY <2>4, <2>6 DEF MadeByDeals
  <2>8. c.value # 20
    BY <2>4 DEF Face
  <2>9. ~SameFace(c, d)
    BY <2>6, <2>7, <2>8, OneObjectPerFace
  <2> QED
    BY <2>4, <2>9 DEF SameFace, Face
<1>5. ASSUME NEW p \in Player, DrawCard(p) PROVE ~SameFace(d, callCard')
  <2> DEFINE again == NeedsReshuffle(deck, discard) /\ callCard # NoCard
             pile  == IF again THEN Reshuffled(discard, callCard) ELSE deck
             count == AtMost(CalculateDrawCount(hand[p], callCard, pickCount),
                             Cardinality(pile))
  <2>1. PICK drawn \in kSubset(count, pile) :
          /\ hand' = [hand EXCEPT ![p] = @ \cup drawn]
          /\ deck' = pile \ drawn
    BY <1>5 DEF DrawCard
  <2>2. drawn \subseteq pile
    BY DEF kSubset
  <2>3. UNCHANGED <<callCard, round>>
    BY <1>5 DEF DrawCard
  <2>4. ASSUME NEW e \in pile PROVE ~SameFace(e, callCard)
    <3>1. CASE again
      BY <3>1 DEF Reshuffled
    <3>2. CASE ~again
      BY <3>2, <2>3 DEF CallCardIsNotDealt
    <3> QED
      BY <3>1, <3>2
  <2> HIDE DEF pile
  <2>5. d \in pile \/ \E q \in Player : d \in hand[q]
    BY <1>0, <2>1, <2>2
  <2> QED
    BY <2>3, <2>4, <2>5 DEF CallCardIsNotDealt
<1>6. CASE UNCHANGED <<piles, round>>
  BY <1>6 DEF piles, CallCardIsNotDealt
<1> QED
  BY <1>1, <1>2, <1>3, <1>4, <1>5, <1>6
     DEF Next, AddPlayer, Declare, ChooseSuit, vars

(* Only the one who puts a card down can be left without any.              *)
LEMMA OnlyTheMoverRunsOut ==
    ASSUME TypeOK, PilesFinite, OneOwner,
           NEW p \in Player, NEW c \in hand[p], PutDown(p, c),
           NEW q \in Player, q # p, hand[q] # {}
    PROVE  hand'[q] # {}
<1>1. PICK fresh \in SUBSET discard :
      \E got \in [Player -> SUBSET deck], more \in [Player -> SUBSET fresh] :
         CardPlayed(c, fresh, got, more)
  BY PutDownMoves DEF TypeOK
<1>2. c \notin hand[q]
  BY DEF OneOwner
<1> QED
  BY <1>1, <1>2 DEF CardPlayed

(* Every step leaves a round in progress without anybody out of cards, and *)
(* a round that has ended with one.                                        *)
LEMMA WinnerStep ==
    RoundInv /\ [Next]_vars => (EveryoneIsDealtTo => OneWinner')
<1> SUFFICES ASSUME RoundInv, [Next]_vars, EveryoneIsDealtTo PROVE OneWinner'
  OBVIOUS
<1> USE DEF RoundInv, OneWinner
<1>0. /\ TypeOK /\ PilesFinite /\ OneOwner /\ OneSeatEach /\ BooksOpen
      /\ seats \in Seq(Player) /\ hand \in [Player -> SUBSET CardObject]
      /\ round \in Nat /\ Seated \subseteq Player
  BY DEF IInv, TypeOK, Seated
<1>1. CASE StartNewRound
  <2>1. round' = round + 1 /\ round + 1 \in Nat /\ phase' = "IN_PROGRESS"
        /\ Seated' = Seated
    BY <1>0, <1>1 DEF StartNewRound, Seated
  <2>2. PICK got \in Handouts(NewDeck(round + 1), DealShare) :
          hand' = [p \in Player |-> hand[p] \cup got[p]]
    BY <1>1, <2>1 DEF StartNewRound
  <2>3. ASSUME NEW p \in Seated PROVE hand'[p] # {}
    <3>1. Cardinality(got[p]) = DealShare[p] /\ p \in Player
      BY <1>0, HandoutsGive
    <3>2. DealShare[p] >= 1
      BY <1>0, EverySeatHasAShare
    <3>3. ASSUME got[p] = {} PROVE FALSE
      <4>1. Cardinality(got[p]) = 0
        BY ONLY <3>3, FS_EmptySet
      <4>2. DealShare[p] = 0
        BY ONLY <3>1, <4>1
      <4> QED
        BY ONLY <3>2, <4>2
    <3> QED
      BY <2>2, <3>1, <3>3
  <2> QED
    BY <2>1, <2>3
<1>2. ASSUME NEW p \in Player, RemovePlayer(p) PROVE OneWinner'
  <2>1. Seated' = Seated \ {p}
    BY <1>0, <1>2, SeatsAfterLeaving
  <2>2. hand' = [hand EXCEPT ![p] = {}] /\ phase' = phase
        /\ phase # "ROUND_ENDED"
    BY <1>2 DEF RemovePlayer, Accepting
  <2> QED
    BY <1>0, <2>1, <2>2
<1>3. ASSUME NEW p \in Player, NEW c \in hand[p], PlayCard(p, c) PROVE OneWinner'
  <2>1. phase = "IN_PROGRESS" /\ Seated' = Seated /\ PutDown(p, c)
    BY <1>0, <1>3, PlayersAreInARound DEF PlayCard, Seated
  <2>2. \A q \in Seated : hand[q] # {}
    BY <2>1
  <2>3. \A q \in Seated : q # p => hand'[q] # {}
    BY <1>0, <2>1, <2>2, OnlyTheMoverRunsOut
  <2>4. CASE EndRound
    <3>1. phase' = "ROUND_ENDED" /\ EmptyHanded # {}
      BY <2>4 DEF EndRound
    <3>2. \E q \in Seated : hand'[q] = {}
      BY <3>1 DEF EmptyHanded, Seated
    <3>3. {q \in Seated : hand'[q] = {}} = {p}
      BY <2>3, <3>2
    <3>4. Cardinality({q \in Seated : hand'[q] = {}}) = 1
      BY <3>3, FS_Singleton
    <3> QED
      BY <2>1, <3>1, <3>4
  <2>5. CASE EmptyHanded = {} /\ UNCHANGED phase
    <3>1. \A q \in Seated : hand'[q] # {}
      BY <2>5 DEF EmptyHanded, Seated
    <3> QED
      BY <2>1, <2>5, <3>1
  <2> QED
    BY <1>3, <2>4, <2>5 DEF PlayCard
<1>4. ASSUME NEW p \in Player, DrawCard(p) PROVE OneWinner'
  <2>1. /\ phase' = phase /\ Seated' = Seated /\ phase # "ROUND_ENDED"
    BY <1>4 DEF DrawCard, Seated, Accepting
  <2>2. PICK drawn \in SUBSET (deck \cup discard) :
          hand' = [hand EXCEPT ![p] = @ \cup drawn]
    BY <1>0, <1>4, DrawMoves
  <2>3. \A q \in Player : hand[q] \subseteq hand'[q]
    BY <1>0, <2>2
  <2> QED
    BY <1>0, <2>1, <2>3
<1>5. ASSUME NEW p \in Player, AddPlayer(p) \/ StartGame(p) PROVE OneWinner'
  BY <1>5 DEF AddPlayer, MayJoin, StartGame
<1>6. CASE UNCHANGED <<phase, seats, hand>>
  BY <1>6 DEF Seated
<1> QED
  BY <1>1, <1>2, <1>3, <1>4, <1>5, <1>6 DEF Next, Declare, ChooseSuit, vars, piles

-----------------------------------------------------------------------------

(* RoundInv is an invariant.                                               *)
THEOREM RoundInvariance == Spec => []RoundInv
<1>1. RoundInv /\ [Next]_vars => RoundInv'
  <2> SUFFICES ASSUME RoundInv, [Next]_vars PROVE RoundInv'
    OBVIOUS
  <2>1. IInv'
    BY TypeStep, FiniteStep, OwnerStep, SeatedStep, CallCardStep, BooksStep
       DEF IInv, RoundInv
  <2> QED
    BY <2>1, SeatsFitStep, CardsStep, CallCardGoneStep, WinnerStep DEF RoundInv, EveryoneIsDealtTo
<1> QED
  BY RoundInit, <1>1, PTL DEF Spec

(* In the first round of any game the face to match, unless a Whot's, is   *)
(* in no hand and not in the deck: the faces of a deck's other cards       *)
(* differ, the first call card belongs to no pile, a card played leaves    *)
(* its hand, and a reshuffle leaves out every card of the face to match.   *)
THEOREM CallCardStaysOut == Spec => []CallCardIsNotDealt
<1>1. RoundInv => CallCardIsNotDealt
  BY DEF RoundInv
<1> QED
  BY RoundInvariance, <1>1, PTL

(* A round ends exactly when its first player runs out of cards, and no    *)
(* step leaves two without: where the deal reaches every seat (as with     *)
(* GameConfig's default of 6 cards for at most 8 players from the 54),     *)
(* getWinnerId never has to choose.                                        *)
THEOREM OneWinnerPerRound ==
    ASSUME EveryoneIsDealtTo
    PROVE  Spec => []OneWinner
<1>1. RoundInv => OneWinner
  BY DEF RoundInv
<1> QED
  BY RoundInvariance, <1>1, PTL

(* What a draw under attack does to the hand and the deck.                 *)
LEMMA AttackDraw ==
    ASSUME RoundInv, NEW p \in Player, DrawCard(p), pickCount > 0
    PROVE  /\ IsCurrent(p)
           /\ \/ Cardinality(hand'[p]) = Cardinality(hand[p]) + pickCount
              \/ deck' = {}
<1> DEFINE again == NeedsReshuffle(deck, discard) /\ callCard # NoCard
           pile  == IF again THEN Reshuffled(discard, callCard) ELSE deck
           count == AtMost(CalculateDrawCount(hand[p], callCard, pickCount),
                           Cardinality(pile))
<1>0. /\ hand \in [Player -> SUBSET CardObject] /\ pickCount \in Nat
      /\ IsFiniteSet(deck) /\ IsFiniteSet(discard) /\ IsFiniteSet(hand[p])
      /\ hand[p] \cap (deck \cup discard) = {}
  BY DEF RoundInv, IInv, TypeOK, PilesFinite, HandsFinite, OneOwner
<1>1. PICK drawn \in kSubset(count, pile) :
        /\ hand' = [hand EXCEPT ![p] = @ \cup drawn]
        /\ deck' = pile \ drawn
  BY DEF DrawCard
<1>2. CalculateDrawCount(hand[p], callCard, pickCount) = pickCount
  BY <1>0 DEF DrawCard, MustDrawCard, CalculateDrawCount
<1>3. pile \subseteq deck \/ pile \subseteq discard
  BY DEF Reshuffled
<1> HIDE DEF pile
<1>4. IsFiniteSet(pile) /\ Cardinality(pile) \in Nat
  BY <1>0, <1>3, FS_Subset, FS_CardinalityType
<1>5. drawn \subseteq pile /\ Cardinality(drawn) = count
  BY DEF kSubset
<1>6. CASE pickCount =< Cardinality(pile)
  <2>1. Cardinality(drawn) = pickCount /\ IsFiniteSet(drawn)
    BY <1>2, <1>4, <1>5, <1>6, FS_Subset DEF AtMost
  <2>2. hand[p] \cap drawn = {}
    BY <1>0, <1>3, <1>5
  <2>3. Cardinality(hand[p] \cup drawn)
          = Cardinality(hand[p]) + Cardinality(drawn) - Cardinality({})
    BY <1>0, <2>1, <2>2, FS_Union
  <2>4. Cardinality({}) = 0 /\ Cardinality(hand[p]) \in Nat
    BY <1>0, FS_EmptySet, FS_CardinalityType
  <2>5. hand'[p] = hand[p] \cup drawn
    BY <1>0, <1>1
  <2>6. Cardinality(hand'[p]) = Cardinality(hand[p]) + pickCount
    BY <1>0, <2>1, <2>3, <2>4, <2>5
  <2> QED
    BY <2>6 DEF DrawCard
<1>7. CASE ~(pickCount =< Cardinality(pile))
  <2>1. Cardinality(drawn) = Cardinality(pile)
    BY <1>2, <1>5, <1>7 DEF AtMost
  <2>2. drawn = pile
    BY <1>4, <1>5, <2>1, FS_Subset
  <2> QED
    BY <1>1, <2>2 DEF DrawCard
<1> QED
  BY <1>6, <1>7

(* A pending attack is gone within a round only because the player whose   *)
(* turn it was drew all the cards owed, or all there were.                 *)
THEOREM EveryAttackIsPaid == Spec => AttackIsPaid
<1>1. RoundInv /\ [Next]_vars =>
        [ (pickCount > 0 /\ pickCount' = 0 /\ round' = round) =>
          \E p \in Player :
             /\ IsCurrent(p)
             /\ \/ Cardinality(hand'[p]) = Cardinality(hand[p]) + pickCount
                \/ deck' = {} ]_vars
  <2> SUFFICES ASSUME RoundInv, Next, pickCount > 0, pickCount' = 0, round' = round
               PROVE  \E p \in Player :
                         /\ IsCurrent(p)
                         /\ \/ Cardinality(hand'[p]) = Cardinality(hand[p]) + pickCount
                            \/ deck' = {}
    OBVIOUS
  <2>1. pickCount \in Nat /\ round \in Nat
    BY DEF RoundInv, IInv, TypeOK
  <2>2. CASE \E p \in Player : DrawCard(p)
    BY <2>2, AttackDraw
  <2>3. CASE StartNewRound
    BY <2>1, <2>3 DEF StartNewRound
  <2>4. ASSUME NEW p \in Player, StartGame(p) PROVE FALSE
    BY <2>1, <2>4 DEF StartGame, MayStart, RoundInv, NothingBeforeDeal
  <2>5. ASSUME NEW p \in Player, NEW c \in hand[p], PlayCard(p, c) PROVE FALSE
    <3>1. PickAdded(c) \in Nat
      BY FaceType DEF RoundInv, IInv, TypeOK
    <3> QED
      BY <2>1, <2>5, <3>1 DEF PlayCard
  <2>6. CASE UNCHANGED pickCount
    BY <2>1, <2>6
  <2> QED
    BY <2>2, <2>3, <2>4, <2>5, <2>6
       DEF Next, AddPlayer, RemovePlayer, Declare, ChooseSuit, table
<1> QED
  BY RoundInvariance, <1>1, PTL DEF Spec, AttackIsPaid

-----------------------------------------------------------------------------
(* Sums over a finite set.  Induction is by way of the least element of a  *)
(* set of numbers.                                                         *)

(* A set of numbers with zero and every successor has all of them.         *)
LEMMA NaturalsFromZero ==
    ASSUME NEW S \in SUBSET Nat, 0 \in S, \A n \in S : n + 1 \in S
    PROVE  S = Nat
<1> DEFINE T == Nat \ S
<1> SUFFICES ASSUME T # {} PROVE FALSE
  OBVIOUS
<1>1. \E x \in T : \A y \in T : ~ (<<y, x>> \in OpToRel(<, Nat))
  BY WFMin, NatLessThanWellFounded
<1>2. PICK x \in T : \A y \in T : ~(y < x)
  BY <1>1 DEF OpToRel
<1>3. x \in Nat \ {0}
  OBVIOUS
<1>4. x - 1 \in Nat /\ x - 1 < x /\ (x - 1) + 1 = x
  BY <1>3
<1>5. x - 1 \in S
  BY <1>2, <1>4
<1> QED
  BY <1>4, <1>5

OneOf(s) == CHOOSE x \in s : TRUE

(* What holds of the empty set, and of every set of which it holds without *)
(* one element, holds of all subsets of a finite set.                      *)
LEMMA SubsetsOneByOne ==
    ASSUME NEW B, IsFiniteSet(B), NEW G \in SUBSET SUBSET B, {} \in G,
           \A s \in SUBSET B : s # {} /\ s \ {OneOf(s)} \in G => s \in G
    PROVE  G = SUBSET B
<1> DEFINE S == {n \in Nat : \A s \in SUBSET B : Cardinality(s) = n => s \in G}
<1>1. \A s \in SUBSET B : IsFiniteSet(s) /\ Cardinality(s) \in Nat
  BY FS_Subset, FS_CardinalityType
<1>2. 0 \in S
  BY <1>1, FS_EmptySet
<1>3. ASSUME NEW n \in S PROVE n + 1 \in S
  <2>1. ASSUME NEW s \in SUBSET B, Cardinality(s) = n + 1 PROVE s \in G
    <3>1. s # {} /\ IsFiniteSet(s)
      BY <1>1, <2>1, FS_EmptySet
    <3>2. OneOf(s) \in s
      BY <3>1 DEF OneOf
    <3>3. Cardinality(s \ {OneOf(s)}) = Cardinality(s) - 1
      BY <3>1, <3>2, FS_RemoveElement
    <3>4. s \ {OneOf(s)} \in SUBSET B
      OBVIOUS
    <3>5. Cardinality(s \ {OneOf(s)}) = n
      BY <2>1, <3>3
    <3> QED
      BY <3>1, <3>4, <3>5
  <2> QED
    BY <2>1
<1>4. S = Nat
  <2> HIDE DEF S
  <2>1. S \in SUBSET Nat
    BY DEF S
  <2> QED
    BY <1>2, <1>3, <2>1, NaturalsFromZero
<1> QED
  BY <1>1, <1>4

\* One step of the sum of f, as the fold over a set takes it.
SumStep(f, h, s) == IF s = {} THEN 0 ELSE f[OneOf(s)] + h[s \ {OneOf(s)}]

Sums(f, B) == CHOOSE h : h = [s \in SUBSET B |-> SumStep(f, h, s)]

(* The fold has a value: there is a function that makes these steps.       *)
LEMMA SumsExist ==
    ASSUME NEW B, IsFiniteSet(B), NEW f \in [B -> Nat]
    PROVE  Sums(f, B) = [s \in SUBSET B |-> SumStep(f, Sums(f, B), s)]
<1> DEFINE Right(h, n) ==
              \A s \in SUBSET B : Cardinality(s) =< n => h[s] = SumStep(f, h, s)
           S == {n \in Nat : \E h \in [SUBSET B -> Int] : Right(h, n)}
<1>1. \A s \in SUBSET B : IsFiniteSet(s) /\ Cardinality(s) \in Nat
  BY FS_Subset, FS_CardinalityType
<1>2. \A s \in SUBSET B : s # {} => OneOf(s) \in s
  BY DEF OneOf
<1>3. ASSUME NEW s \in SUBSET B, s # {}
      PROVE  s \ {OneOf(s)} \in SUBSET B /\ Cardinality(s \ {OneOf(s)}) = Cardinality(s) - 1
  BY <1>1, <1>2, <1>3, FS_RemoveElement
<1>4. 0 \in S
  <2> DEFINE h == [s \in SUBSET B |-> 0]
  <2>1. Right(h, 0)
    BY <1>1, FS_EmptySet DEF SumStep
  <2>2. h \in [SUBSET B -> Int]
    OBVIOUS
  <2> HIDE DEF h
  <2> QED
    BY <2>1, <2>2
<1>5. ASSUME NEW n \in S PROVE n + 1 \in S
  <2>1. PICK h \in [SUBSET B -> Int] : Right(h, n)
    OBVIOUS
  <2> DEFINE k == [s \in SUBSET B |->
                      IF Cardinality(s) = n + 1 THEN SumStep(f, h, s) ELSE h[s]]
  <2>2. ASSUME NEW s \in SUBSET B PROVE SumStep(f, h, s) \in Int
    BY <1>2, <1>3 DEF SumStep
  <2>3. k \in [SUBSET B -> Int]
    BY <2>2
  <2>4. ASSUME NEW s \in SUBSET B, Cardinality(s) =< n + 1
        PROVE  k[s] = SumStep(f, h, s) /\ SumStep(f, k, s) = SumStep(f, h, s)
    <3>1. k[s] = SumStep(f, h, s)
      <4>1. CASE Cardinality(s) = n + 1
        BY <4>1
      <4>2. CASE Cardinality(s) # n + 1
        BY <1>1, <2>1, <2>4, <4>2
      <4> QED
        BY <4>1, <4>2
    <3>2. CASE s = {}
      BY <3>1, <3>2 DEF SumStep
    <3>3. CASE s # {}
      <4>1. /\ s \ {OneOf(s)} \in SUBSET B
            /\ Cardinality(s \ {OneOf(s)}) # n + 1
        BY <1>1, <1>3, <2>4, <3>3
      <4>2. k[s \ {OneOf(s)}] = h[s \ {OneOf(s)}]
        BY <4>1
      <4> QED
        BY <3>1, <3>3, <4>2 DEF SumStep
    <3> QED
      BY <3>2, <3>3
  <2> HIDE DEF k
  <2>5. Right(k, n + 1)
    BY <2>4
  <2> QED
    BY <2>3, <2>5
<1>6. S = Nat
  <2> HIDE DEF S
  <2>1. S \in SUBSET Nat
    BY DEF S
  <2> QED
    BY <1>4, <1>5, <2>1, NaturalsFromZero
<1>7. Cardinality(B) \in Nat
  BY FS_CardinalityType
<1>8. PICK h \in [SUBSET B -> Int] : Right(h, Cardinality(B))
  BY <1>6, <1>7
<1>9. \A s \in SUBSET B : Cardinality(s) =< Cardinality(B)
  BY FS_Subset
<1>10. h = [s \in SUBSET B |-> SumStep(f, h, s)]
  BY <1>8, <1>9
<1> QED
  BY <1>10 DEF Sums

(* A sum of naturals is one.                                               *)
LEMMA SumsType ==
    ASSUME NEW B, IsFiniteSet(B), NEW f \in [B -> Nat]
    PROVE  \A s \in SUBSET B : Sums(f, B)[s] \in Nat
<1> DEFINE G == {s \in SUBSET B : Sums(f, B)[s] \in Nat}
<1>1. \A s \in SUBSET B : Sums(f, B)[s] = SumStep(f, Sums(f, B), s)
  BY SumsExist
<1>2. {} \in G
  BY <1>1 DEF SumStep
<1>3. ASSUME NEW s \in SUBSET B, s # {}, s \ {OneOf(s)} \in G PROVE s \in G
  <2>1. OneOf(s) \in s
    BY <1>3 DEF OneOf
  <2> QED
    BY <1>1, <1>3, <2>1 DEF SumStep
<1> HIDE DEF G
<1>4. G = SUBSET B
  <2>1. G \in SUBSET SUBSET B
    BY DEF G
  <2> QED
    BY <1>2, <1>3, <2>1, SubsetsOneByOne
<1> QED
  BY <1>4 DEF G

(* Changing one number changes the sum by as much.                         *)
LEMMA SumsChange ==
    ASSUME NEW B, IsFiniteSet(B), NEW f \in [B -> Nat], NEW g \in [B -> Nat],
           NEW p \in B, \A q \in B : q # p => g[q] = f[q]
    PROVE  Sums(g, B)[B] = Sums(f, B)[B] + g[p] - f[p]
<1> DEFINE more(s) == IF p \in s THEN g[p] - f[p] ELSE 0
           G == {s \in SUBSET B : Sums(g, B)[s] = Sums(f, B)[s] + more(s)}
<1>1. \A s \in SUBSET B : /\ Sums(f, B)[s] = SumStep(f, Sums(f, B), s)
                          /\ Sums(g, B)[s] = SumStep(g, Sums(g, B), s)
  BY SumsExist
<1>2. \A s \in SUBSET B : Sums(f, B)[s] \in Nat /\ Sums(g, B)[s] \in Nat
  BY SumsType
<1>3. {} \in G
  BY <1>1 DEF SumStep
<1>4. ASSUME NEW s \in SUBSET B, s # {}, s \ {OneOf(s)} \in G PROVE s \in G
  <2> DEFINE x == OneOf(s)
             r == s \ {x}
  <2>1. x \in s
    BY <1>4 DEF OneOf
  <2>2. Sums(g, B)[r] = Sums(f, B)[r] + more(r)
    BY <1>4
  <2>3. Sums(f, B)[s] = f[x] + Sums(f, B)[r] /\ Sums(g, B)[s] = g[x] + Sums(g, B)[r]
    BY <1>1, <1>4 DEF SumStep
  <2>4. g[x] \in Nat /\ f[x] \in Nat /\ g[p] \in Nat /\ f[p] \in Nat
        /\ Sums(f, B)[r] \in Nat
    BY <1>2, <2>1
  <2>5. g[x] + more(r) = f[x] + more(s)
    BY <2>1, <2>4
  <2>6. Sums(g, B)[s] = Sums(f, B)[s] + more(s)
    <3>1. more(r) \in Int /\ more(s) \in Int
      BY <2>4
    <3> HIDE DEF more, x, r
    <3> QED
      BY <2>2, <2>3, <2>4, <2>5, <3>1
  <2> QED
    BY <2>6
<1> HIDE DEF G
<1>5. G = SUBSET B
  <2>1. G \in SUBSET SUBSET B
    BY DEF G
  <2> QED
    BY <1>3, <1>4, <2>1, SubsetsOneByOne
<1>6. Sums(g, B)[B] = Sums(f, B)[B] + more(B)
  BY <1>5 DEF G
<1>7. g[p] \in Nat /\ f[p] \in Nat /\ Sums(f, B)[B] \in Nat
  BY <1>2
<1> QED
  BY <1>6, <1>7

(* Nothing adds up to nothing.                                             *)
LEMMA SumsOfZeros ==
    ASSUME NEW B, IsFiniteSet(B), NEW f \in [B -> Nat], \A q \in B : f[q] = 0
    PROVE  Sums(f, B)[B] = 0
<1> DEFINE G == {s \in SUBSET B : Sums(f, B)[s] = 0}
<1>1. \A s \in SUBSET B : Sums(f, B)[s] = SumStep(f, Sums(f, B), s)
  BY SumsExist
<1>2. {} \in G
  BY <1>1 DEF SumStep
<1>3. ASSUME NEW s \in SUBSET B, s # {}, s \ {OneOf(s)} \in G PROVE s \in G
  <2>1. OneOf(s) \in s
    BY <1>3 DEF OneOf
  <2> QED
    BY <1>1, <1>3, <2>1 DEF SumStep
<1> HIDE DEF G
<1>4. G = SUBSET B
  <2>1. G \in SUBSET SUBSET B
    BY DEF G
  <2> QED
    BY <1>2, <1>3, <2>1, SubsetsOneByOne
<1> QED
  BY <1>4 DEF G

-----------------------------------------------------------------------------
(* The books: rounds won and rounds ended.                                 *)

Wins == MapThenSumSet(LAMBDA p : gamesWon[p], Player)

(* Before the first round nobody has won one.                              *)
NoWinsBeforeDeal ==
    phase \in {"LOBBY", "STARTING"} => \A p \in Player : gamesWon[p] = 0

(* The fold of the model is the sum.                                       *)
LEMMA WinsAreASum ==
    /\ Wins = Sums(gamesWon, Player)[Player]
    /\ Wins' = Sums(gamesWon', Player)[Player]
BY DEF Wins, MapThenSumSet, MapThenFoldSet, Sums, SumStep, OneOf

LEMMA WinsKept == gamesWon' = gamesWon => Wins' = Wins
BY WinsAreASum

(* The number of rounds won is one, changes with gamesWon only, and by as  *)
(* much as the one entry that changes.                                     *)
LEMMA WinsType ==
    ASSUME IsFiniteSet(Player), TypeOK
    PROVE  Wins \in Nat
<1>1. gamesWon \in [Player -> Nat]
  BY DEF TypeOK
<1> QED
  BY <1>1, WinsAreASum, SumsType

LEMMA WinsAfter ==
    ASSUME IsFiniteSet(Player), TypeOK, NEW p \in Player, NEW n \in Nat,
           gamesWon' = [gamesWon EXCEPT ![p] = n]
    PROVE  Wins' = Wins + n - gamesWon[p]
<1>1. gamesWon \in [Player -> Nat] /\ gamesWon' \in [Player -> Nat]
  BY DEF TypeOK
<1>2. gamesWon'[p] = n /\ \A q \in Player : q # p => gamesWon'[q] = gamesWon[q]
  BY <1>1
<1>3. Wins' = Sums(gamesWon', Player)[Player]
  BY WinsAreASum
<1>4. Sums(gamesWon', Player)[Player]
        = Sums(gamesWon, Player)[Player] + gamesWon'[p] - gamesWon[p]
  <2> DEFINE f == gamesWon
             g == gamesWon'
  <2>1. f \in [Player -> Nat] /\ g \in [Player -> Nat] /\ \A q \in Player : q # p => g[q] = f[q]
    BY <1>1, <1>2
  <2> HIDE DEF f, g
  <2>2. Sums(g, Player)[Player] = Sums(f, Player)[Player] + g[p] - f[p]
    BY <2>1, SumsChange
  <2> QED
    BY <2>2 DEF f, g
<1> QED
  BY <1>2, <1>3, <1>4, WinsAreASum

LEMMA NoWinsNoSum ==
    ASSUME IsFiniteSet(Player), TypeOK, \A p \in Player : gamesWon[p] = 0
    PROVE  Wins = 0
<1>1. gamesWon \in [Player -> Nat]
  BY DEF TypeOK
<1> QED
  BY <1>1, WinsAreASum, SumsOfZeros

LEMMA WinsInit == IsFiniteSet(Player) /\ Init => NoWinsBeforeDeal /\ WinsAddUp
<1> SUFFICES ASSUME IsFiniteSet(Player), Init PROVE NoWinsBeforeDeal /\ WinsAddUp
  OBVIOUS
<1>1. TypeOK /\ BooksOpen
  BY InvInit DEF IInv
<1>2. NoWinsBeforeDeal
  BY DEF Init, NoWinsBeforeDeal
<1>3. Wins = 0
  BY <1>1, NoWinsNoSum DEF Init
<1>4. RoundsEnded = 0
  BY DEF Init, RoundsEnded
<1> QED
  BY <1>1, <1>2, <1>3, <1>4 DEF WinsAddUp, Wins

LEMMA WinsStep ==
    ASSUME IsFiniteSet(Player), IInv, IInv', NoWinsBeforeDeal, WinsAddUp, [Next]_vars
    PROVE  NoWinsBeforeDeal' /\ WinsAddUp'
<1>0. /\ TypeOK /\ BooksOpen /\ OneSeatEach /\ round \in Nat
      /\ gamesWon \in [Player -> Nat] /\ seats \in Seq(Player)
      /\ Seated \subseteq Player /\ RoundsEnded \in Int
  BY DEF IInv, TypeOK, Seated, RoundsEnded
<1>a. Wins \in Nat
  BY <1>0, WinsType
<1>b. Wins =< RoundsEnded /\ (Seated = Player => Wins = RoundsEnded)
  BY DEF WinsAddUp, Wins
<1> SUFFICES /\ NoWinsBeforeDeal'
             /\ Wins' =< RoundsEnded'
             /\ Seated' = Player => Wins' = RoundsEnded'
  BY DEF WinsAddUp, Wins
<1> DEFINE Goal == /\ NoWinsBeforeDeal'
                   /\ Wins' =< RoundsEnded'
                   /\ Seated' = Player => Wins' = RoundsEnded'
<1> SUFFICES Goal
  OBVIOUS
<1>1. CASE StartNewRound
  <2>1. /\ phase \in {"STARTING", "ROUND_ENDED"} /\ phase' = "IN_PROGRESS"
        /\ round' = round + 1 /\ Seated' = Seated /\ gamesWon' = gamesWon
    BY <1>1 DEF StartNewRound, Seated, tally
  <2>2. RoundsEnded' = RoundsEnded
    BY <1>0, <2>1 DEF RoundsEnded
  <2>3. Wins' = Wins
    BY <2>1, WinsKept
  <2> QED
    BY <1>b, <2>1, <2>2, <2>3 DEF NoWinsBeforeDeal
<1>2. ASSUME NEW p \in Player, AddPlayer(p) PROVE Goal
  <2>1. phase = "LOBBY" /\ UNCHANGED <<phase, gamesWon, round>>
    BY <1>2 DEF AddPlayer, MayJoin, tally
  <2>2. Wins' = Wins /\ RoundsEnded' = RoundsEnded /\ RoundsEnded = 0
    BY <1>0, <2>1, WinsKept DEF RoundsEnded, BooksOpen
  <2>3. Wins = 0
    BY <1>0, <2>1, NoWinsNoSum DEF NoWinsBeforeDeal
  <2> QED
    BY <2>1, <2>2, <2>3 DEF NoWinsBeforeDeal
<1>3. ASSUME NEW p \in Player, RemovePlayer(p) PROVE Goal
  <2>1. /\ gamesWon' = [gamesWon EXCEPT ![p] = 0]
        /\ UNCHANGED <<phase, round>>
    BY <1>3 DEF RemovePlayer
  <2>2. Seated' = Seated \ {p}
    BY <1>0, <1>3, SeatsAfterLeaving
  <2>3. gamesWon[p] \in Nat
    BY <1>0
  <2>4. Wins' = Wins + 0 - gamesWon[p]
    <3>1. 0 \in Nat
      OBVIOUS
    <3> QED
      BY <1>0, <2>1, <3>1, WinsAfter
  <2>5. RoundsEnded' = RoundsEnded
    BY <2>1 DEF RoundsEnded
  <2>6. NoWinsBeforeDeal'
    BY <1>0, <2>1 DEF NoWinsBeforeDeal
  <2> QED
    BY <1>0, <1>a, <1>b, <2>2, <2>3, <2>4, <2>5, <2>6
<1>4. ASSUME NEW p \in Player, NEW c \in hand[p], PlayCard(p, c) PROVE Goal
  <2>1. phase = "IN_PROGRESS" /\ Seated' = Seated /\ round' = round
    BY <1>0, <1>4, PlayersAreInARound DEF PlayCard, Seated
  <2>2. CASE EndRound
    <3>1. PICK s \in EmptyHanded : gamesWon' = [gamesWon EXCEPT ![seats[s]] = @ + 1]
      BY <2>2 DEF EndRound
    <3>2. phase' = "ROUND_ENDED"
      BY <2>2 DEF EndRound
    <3>3. seats[s] \in Player
      BY <1>0 DEF EmptyHanded
    <3>4. PICK q \in Player : q = seats[s]
      BY <3>3
    <3>5. gamesWon[q] \in Nat /\ gamesWon[q] + 1 \in Nat
      BY <1>0
    <3>6. gamesWon' = [gamesWon EXCEPT ![q] = gamesWon[q] + 1]
      BY <3>1, <3>4
    <3>7. Wins' = Wins + (gamesWon[q] + 1) - gamesWon[q]
      BY <1>0, <3>5, <3>6, WinsAfter
    <3>8. RoundsEnded' = RoundsEnded + 1
      BY <1>0, <2>1, <3>2 DEF RoundsEnded
    <3>9. Wins' = Wins + 1
      BY <1>a, <3>5, <3>7
    <3> QED
      BY <1>0, <1>a, <1>b, <2>1, <3>2, <3>8, <3>9 DEF NoWinsBeforeDeal
  <2>3. CASE UNCHANGED <<phase, tally>>
    BY <1>b, <2>1, <2>3, WinsKept DEF tally, RoundsEnded, NoWinsBeforeDeal
  <2> QED
    BY <1>4, <2>2, <2>3 DEF PlayCard
<1>5. ASSUME NEW p \in Player, StartGame(p) PROVE Goal
  <2>1. phase = "LOBBY" /\ phase' = "STARTING" /\ UNCHANGED <<seats, round, gamesWon>>
    BY <1>5 DEF StartGame, MayStart, tally
  <2> QED
    BY <1>b, <2>1, WinsKept DEF RoundsEnded, NoWinsBeforeDeal, Seated
<1>6. CASE UNCHANGED <<phase, seats, tally, round>>
  BY <1>b, <1>6, WinsKept DEF tally, RoundsEnded, NoWinsBeforeDeal, Seated
<1> QED
  BY <1>1, <1>2, <1>3, <1>4, <1>5, <1>6
     DEF Next, DrawCard, Declare, ChooseSuit, vars

(* For finitely many players: no round has two winners on the books, and   *)
(* at a table nobody has left every round that ended has one.              *)
THEOREM EveryRoundHasAWinner ==
    ASSUME IsFiniteSet(Player)
    PROVE  Spec => []WinsAddUp
<1> DEFINE J == NoWinsBeforeDeal /\ WinsAddUp
<1>1. Init => J
  BY WinsInit
<1>2. IInv /\ IInv' /\ J /\ [Next]_vars => J'
  BY WinsStep
<1>3. J => WinsAddUp
  OBVIOUS
<1> HIDE DEF J
<1> QED
  BY <1>1, <1>2, <1>3, Invariance, PTL DEF Spec
=============================================================================
