-------------------------- MODULE WhotEngine_proofs --------------------------
(***************************************************************************)
(* Where the cards are: the types of a game, the custody of its cards and  *)
(* the refinement of CardCustody, for every set of players, every part of  *)
(* the standard deck and every configuration.                              *)
(***************************************************************************)
EXTENDS WhotEngine, FiniteSetTheorems, SequenceTheorems, TLAPS

-----------------------------------------------------------------------------
(* Lemmas about the operators of the model.                                *)

(* A handout gives every player cards of the pile, and none to two.        *)
LEMMA HandoutsGive ==
    ASSUME NEW pile, NEW share, NEW got \in Handouts(pile, share)
    PROVE  /\ got \in [Player -> SUBSET pile]
           /\ \A p, q \in Player : p # q => got[p] \cap got[q] = {}
           /\ \A p \in Player : Cardinality(got[p]) = share[p]
<1>1. got \in [Player -> UNION {kSubset(share[p], pile) : p \in Player}]
  BY DEF Handouts
<1>2. \A p \in Player : kSubset(share[p], pile) \subseteq SUBSET pile
  BY DEF kSubset
<1>3. UNION {kSubset(share[p], pile) : p \in Player} \subseteq SUBSET pile
  BY <1>2
<1>4. got \in [Player -> SUBSET pile]
  BY <1>1, <1>3
<1> QED
  BY <1>4 DEF Handouts

(* The cards of the template are cards, whatever round they are made in.   *)
LEMMA NewDeckType ==
    ASSUME NEW g \in Nat
    PROVE  /\ NewDeck(g) \subseteq CardObject
           /\ \A c \in NewDeck(g) : c.gen = g
<1>1. DeckCards \subseteq [suit : Suit, value : CardValue, copy : Nat]
  <2>1. StandardDeck \subseteq [suit : Suit, value : CardValue, copy : Nat]
    BY DEF StandardDeck, CircleCards, TriangleCards, CrossCards, BlockCards,
           StarCards, WhotCards, Suited, Suit, CardValue, WHOT_CARDS_COUNT
  <2> QED
    BY <2>1, EngineAssumption DEF EngineAssumption
<1> QED
  BY <1>1 DEF NewDeck, CardObject

(* The turn moves from a number to a number.                               *)
LEMMA NextIndexType ==
    ASSUME NEW i \in Nat, seats \in Seq(Player)
    PROVE  NextIndex(i) \in Nat
<1>1. Len(seats) \in Nat
  OBVIOUS
<1>2. \A a \in Nat, b \in Nat \ {0} : a % b \in Nat
  OBVIOUS
<1>3. Len(seats) # 0 => i + 1 + Len(seats) \in Nat /\ i - 1 + Len(seats) \in Nat
  BY <1>1
<1> QED
  BY <1>1, <1>2, <1>3 DEF NextIndex

(* The face of a card is a face.                                           *)
LEMMA FaceType ==
    ASSUME NEW c \in CardObject
    PROVE  Face(c) \in Faces /\ SameFace(c, Face(c)) /\ PickAdded(c) \in Nat
BY DEF CardObject, Faces, Face, SameFace, PickAdded, SpecialAbility, CardValue

(* Whoever gives up a seat, the others keep theirs.                        *)

LEMMA SeatsWithout ==
    ASSUME NEW s \in Seq(Player), NEW i \in 1..Len(s)
    PROVE  /\ Without(s, i) \in Seq(Player)
           /\ Len(Without(s, i)) = Len(s) - 1
           /\ \A j \in 1..(Len(s) - 1) :
                 Without(s, i)[j] = IF j < i THEN s[j] ELSE s[j + 1]
<1> DEFINE a == SubSeq(s, 1, i - 1)
           b == SubSeq(s, i + 1, Len(s))
           n == Len(s)
<1>1. n \in Nat /\ i \in Nat /\ i >= 1 /\ i =< n
  OBVIOUS
<1>2. /\ a \in Seq(Player) /\ Len(a) = i - 1
      /\ \A j \in 1..(i - 1) : a[j] = s[j]
  BY <1>1, SubSeqProperties
<1>3. /\ b \in Seq(Player) /\ Len(b) = n - i
      /\ \A j \in 1..(n - i) : b[j] = s[i + j]
  BY <1>1, SubSeqProperties
<1>4. Without(s, i) = a \o b
  BY DEF Without
<1> HIDE DEF a, b, n
<1>5. /\ a \o b \in Seq(Player) /\ Len(a \o b) = Len(a) + Len(b)
      /\ \A j \in 1..(Len(a) + Len(b)) :
            (a \o b)[j] = IF j =< Len(a) THEN a[j] ELSE b[j - Len(a)]
  BY <1>2, <1>3, ConcatProperties
<1>6. Len(a) + Len(b) = n - 1
  BY <1>1, <1>2, <1>3
<1>7. ASSUME NEW j \in 1..(n - 1)
      PROVE  (a \o b)[j] = IF j < i THEN s[j] ELSE s[j + 1]
  <2>1. CASE j < i
    BY <2>1, <1>1, <1>2, <1>5, <1>6
  <2>2. CASE ~(j < i)
    <3>1. j - (i - 1) \in 1..(n - i) /\ i + (j - (i - 1)) = j + 1
      BY <2>2, <1>1
    <3>2. (a \o b)[j] = b[j - (i - 1)]
      BY <2>2, <1>1, <1>2, <1>5, <1>6
    <3> QED
      BY <3>1, <3>2, <2>2, <1>3
  <2> QED
    BY <2>1, <2>2
<1> QED
  BY <1>4, <1>5, <1>6, <1>7 DEF n

-----------------------------------------------------------------------------
(* The inductive invariant.  OneOwner needs the cards of a new round to be *)
(* new (BornByNow); OnlySeatedHold needs seats to be distinct and, because *)
(* a share of no cards is the empty set only in a finite pile, the piles   *)
(* to be finite; ScoredOncePerRound needs the round count to follow the    *)
(* phase and the scores of the unseated to be zero (BooksOpen).            *)

PilesFinite == IsFiniteSet(deck) /\ IsFiniteSet(discard)

IInv ==
    /\ TypeOK
    /\ PilesFinite
    /\ OneOwner
    /\ BornByNow
    /\ OneSeatEach
    /\ OnlySeatedHold
    /\ CallCardIsDiscarded
    /\ BooksOpen
    /\ ScoredOncePerRound

-----------------------------------------------------------------------------
(* How each action moves cards, without the shares.                        *)

(* A new deck is finite.                                                   *)
LEMMA NewDeckFinite ==
    ASSUME NEW g \in Nat
    PROVE  IsFiniteSet(NewDeck(g))
<1> DEFINE make(d) == [suit |-> d.suit, value |-> d.value, copy |-> d.copy, gen |-> g]
           f == [d \in DeckCards |-> make(d)]
<1>1. f \in Surjection(DeckCards, NewDeck(g))
  BY DEF NewDeck, Surjection
<1> QED
  BY <1>1, FS_Surjection, EngineAssumption DEF EngineAssumption

(* A share of no cards of a finite pile is no card.                        *)
LEMMA NothingShared ==
    ASSUME NEW pile, IsFiniteSet(pile), NEW share,
           NEW got \in Handouts(pile, share), NEW p \in Player, share[p] = 0
    PROVE  got[p] = {}
<1>1. got[p] \in SUBSET pile /\ Cardinality(got[p]) = 0
  BY HandoutsGive
<1>2. IsFiniteSet(got[p])
  BY <1>1, FS_Subset
<1> QED
  BY <1>1, <1>2, FS_EmptySet

(* What playing c does with the cards: c leaves its hand, got are handed   *)
(* out of the deck, fresh is what the discard pile becomes if it is turned *)
(* over, and more are handed out of that.                                  *)
CardPlayed(c, fresh, got, more) ==
    /\ \A q, r \in Player : q # r => got[q] \cap got[r] = {}
    /\ \A q, r \in Player : q # r => more[q] \cap more[r] = {}
    /\ \A q \in Player \ Seated : got[q] = {} /\ more[q] = {}
    /\ hand' = [q \in Player |-> (hand[q] \ {c}) \cup got[q] \cup more[q]]
    /\ deck' = (deck \cup fresh) \ (AllOf(got) \cup AllOf(more))
    /\ \/ discard' = {}
       \/ fresh = {} /\ discard' = discard \cup {c}

(* A general market: one-way moves, from the deck and - if it is turned    *)
(* over - from the discard pile, into the hands of seated players.         *)
LEMMA GeneralMarketMoves ==
    ASSUME PilesFinite,
           NEW p \in Player, NEW c \in hand[p], GeneralMarket(p, c)
    PROVE  \E fresh \in SUBSET discard :
           \E got \in [Player -> SUBSET deck], more \in [Player -> SUBSET fresh] :
              CardPlayed(c, fresh, got, more)
<1> DEFINE n     == Len(seats) - 1
           k     == Cardinality(deck)
           again == n > k
           fresh == IF again THEN Reshuffled(discard \cup {c}, c) ELSE {}
           Place(q) == IF SeatOf(p) < SeatOf(q) THEN SeatOf(q) - 1 ELSE SeatOf(q)
           Served(places) == [q \in Player |->
              IF q \in Seated \ {p} /\ Place(q) \in places THEN 1 ELSE 0]
<1>1. PICK got \in Handouts(deck, Served(1..k)),
           more \in Handouts(fresh, Served(k + 1..k + Cardinality(fresh))) :
        /\ hand' = [q \in Player |-> (hand[q] \ {c}) \cup got[q] \cup more[q]]
        /\ deck' = (deck \cup fresh) \ (AllOf(got) \cup AllOf(more))
        /\ discard' = IF again THEN {} ELSE discard \cup {c}
  BY DEF GeneralMarket
<1>2. \A places : \A q \in Player \ Seated : Served(places)[q] = 0
  OBVIOUS
<1>3. fresh \in SUBSET discard
  BY DEF Reshuffled, SameFace
<1>4. IsFiniteSet(fresh) /\ IsFiniteSet(deck)
  BY <1>3, FS_Subset DEF PilesFinite
<1>5. ~again => fresh = {}
  OBVIOUS
<1> HIDE DEF Served, fresh, again, k
<1>6. /\ got \in [Player -> SUBSET deck]
      /\ \A q, r \in Player : q # r => got[q] \cap got[r] = {}
  BY HandoutsGive
<1>7. /\ more \in [Player -> SUBSET fresh]
      /\ \A q, r \in Player : q # r => more[q] \cap more[r] = {}
  BY HandoutsGive
<1>8. \A q \in Player \ Seated : got[q] = {} /\ more[q] = {}
  BY <1>2, <1>4, NothingShared
<1>9. \/ discard' = {}
      \/ fresh = {} /\ discard' = discard \cup {c}
  BY <1>1, <1>5
<1> QED
  <2> USE <1>3, <1>6, <1>7
  <2>1. WITNESS fresh \in SUBSET discard
  <2>2. WITNESS got \in [Player -> SUBSET deck], more \in [Player -> SUBSET fresh]
  <2> QED
    BY <1>1, <1>8, <1>9 DEF CardPlayed

(* A card put down, with a general market or without.                      *)
LEMMA PutDownMoves ==
    ASSUME PilesFinite, OneOwner, hand \in [Player -> SUBSET CardObject],
           NEW p \in Player, NEW c \in hand[p], PutDown(p, c)
    PROVE  \E fresh \in SUBSET discard :
           \E got \in [Player -> SUBSET deck], more \in [Player -> SUBSET fresh] :
              CardPlayed(c, fresh, got, more)
<1>1. CASE GeneralMarket(p, c)
  BY <1>1, GeneralMarketMoves
<1>2. CASE ~GeneralMarket(p, c)
  <2> DEFINE none == [q \in Player |-> {}]
  <2>1. /\ hand' = [hand EXCEPT ![p] = @ \ {c}]
        /\ discard' = discard \cup {c}
        /\ deck' = deck
    BY <1>2 DEF PutDown
  <2>2. \A q \in Player : q # p => c \notin hand[q]
    BY DEF OneOwner
  <2>3. hand' = [q \in Player |-> (hand[q] \ {c}) \cup none[q] \cup none[q]]
    BY <2>1, <2>2
  <2>4. AllOf(none) = {}
    BY DEF AllOf
  <2>5. /\ {} \in SUBSET discard
        /\ none \in [Player -> SUBSET deck]
        /\ none \in [Player -> SUBSET {}]
    OBVIOUS
  <2>6. deck' = (deck \cup {}) \ (AllOf(none) \cup AllOf(none))
    BY <2>1, <2>4
  <2>7. \A q, r \in Player : q # r => none[q] \cap none[r] = {}
    OBVIOUS
  <2>8. \A q \in Player \ Seated : none[q] = {} /\ none[q] = {}
    OBVIOUS
  <2>9. WITNESS {} \in SUBSET discard
  <2>10. WITNESS none \in [Player -> SUBSET deck], none \in [Player -> SUBSET {}]
  <2> HIDE DEF none
  <2> QED
    BY <2>1, <2>3, <2>5, <2>6, <2>7, <2>8 DEF CardPlayed
<1> QED
  BY <1>1, <1>2

(* A draw: from the deck, or from the discard pile turned over.            *)
LEMMA DrawMoves ==
    ASSUME hand \in [Player -> SUBSET CardObject], NEW p \in Player, DrawCard(p)
    PROVE  \E drawn \in SUBSET (deck \cup discard) :
              /\ hand' = [hand EXCEPT ![p] = @ \cup drawn]
              /\ \/ /\ drawn \subseteq deck /\ deck' = deck \ drawn
                    /\ discard' = discard
                 \/ /\ deck = {} /\ discard' = {}
                    /\ deck' \subseteq discard \ drawn
              /\ IsCurrent(p)
<1> DEFINE again == NeedsReshuffle(deck, discard) /\ callCard # NoCard
           pile  == IF again THEN Reshuffled(discard, callCard) ELSE deck
           count == AtMost(CalculateDrawCount(hand[p], callCard, pickCount),
                           Cardinality(pile))
<1>1. PICK drawn \in kSubset(count, pile) :
        /\ hand' = [hand EXCEPT ![p] = @ \cup drawn]
        /\ deck' = pile \ drawn
  BY DEF DrawCard
<1>2. drawn \subseteq pile
  BY DEF kSubset
<1>3. discard' = IF again THEN {} ELSE discard
  BY DEF DrawCard
<1>4. pile \subseteq deck \cup discard
  BY DEF Reshuffled
<1>5. again => deck = {} /\ pile \subseteq discard
  BY DEF Reshuffled, NeedsReshuffle
<1>6. ~again => pile = deck
  OBVIOUS
<1>7. IsCurrent(p)
  BY DEF DrawCard
<1> HIDE DEF again, pile
<1>8. drawn \in SUBSET (deck \cup discard)
  BY <1>2, <1>4
<1> QED
  BY <1>1, <1>2, <1>3, <1>5, <1>6, <1>7, <1>8

(* A deal: cards of the new deck, to seated players.                       *)
LEMMA DealMoves ==
    ASSUME round \in Nat, StartNewRound
    PROVE  \E got \in [Player -> SUBSET NewDeck(round + 1)] :
              /\ \A p, q \in Player : p # q => got[p] \cap got[q] = {}
              /\ \A p \in Player \ Seated : got[p] = {}
              /\ hand' = [p \in Player |-> hand[p] \cup got[p]]
              /\ deck' \subseteq NewDeck(round + 1) \ AllOf(got)
              /\ callCard' = NoCard \/ \E c \in NewDeck(round + 1) : callCard' = Face(c)
<1>1. round' = round + 1 /\ round + 1 \in Nat
  BY DEF StartNewRound
<1>2. PICK got \in Handouts(NewDeck(round + 1), DealShare) :
        LET rest == NewDeck(round + 1) \ AllOf(got)
        IN  /\ hand' = [p \in Player |-> hand[p] \cup got[p]]
            /\ \/ rest = {} /\ deck' = {} /\ callCard' = NoCard
               \/ \E c \in rest : deck' = rest \ {c} /\ callCard' = Face(c)
  BY <1>1 DEF StartNewRound
<1>3. /\ got \in [Player -> SUBSET NewDeck(round + 1)]
      /\ \A p, q \in Player : p # q => got[p] \cap got[q] = {}
  BY HandoutsGive
<1>4. \A p \in Player \ Seated : DealShare[p] = 0
  BY DEF DealShare
<1>5. \A p \in Player \ Seated : got[p] = {}
  BY <1>1, <1>4, NewDeckFinite, NothingShared
<1> QED
  BY <1>2, <1>3, <1>5

-----------------------------------------------------------------------------
(* The invariant holds initially.                                          *)

LEMMA InvInit == Init => IInv
<1> SUFFICES ASSUME Init PROVE IInv
  OBVIOUS
<1> USE DEF Init
<1>1. TypeOK
  <2>1. seats \in Seq(Player)
    OBVIOUS
  <2>2. hand \in [Player -> SUBSET CardObject] /\ DOMAIN score = Player
    OBVIOUS
  <2>3. gamesPlayed \in [Player -> Nat] /\ gamesWon \in [Player -> Nat]
    OBVIOUS
  <2> QED
    BY <2>1, <2>2, <2>3 DEF TypeOK, Phases
<1>2. PilesFinite
  BY FS_EmptySet DEF PilesFinite
<1>3. OneOwner /\ BornByNow /\ OnlySeatedHold /\ CallCardIsDiscarded
  BY DEF OneOwner, BornByNow, OnlySeatedHold, CallCardIsDiscarded
<1>4. OneSeatEach /\ ScoredOncePerRound
  BY DEF OneSeatEach, ScoredOncePerRound, Seated
<1>5. BooksOpen
  BY DEF BooksOpen
<1> QED
  BY <1>1, <1>2, <1>3, <1>4, <1>5 DEF IInv

(* Every step keeps the types.                                             *)
LEMMA TypeStep == IInv /\ [Next]_vars => TypeOK'
<1> SUFFICES ASSUME IInv, [Next]_vars PROVE TypeOK'
  OBVIOUS
<1> USE DEF IInv, TypeOK
<1>1. CASE StartNewRound
  <2>1. PICK got \in [Player -> SUBSET NewDeck(round + 1)] :
          /\ hand' = [p \in Player |-> hand[p] \cup got[p]]
          /\ deck' \subseteq NewDeck(round + 1) \ AllOf(got)
          /\ callCard' = NoCard \/ \E c \in NewDeck(round + 1) : callCard' = Face(c)
    BY <1>1, DealMoves
  <2>2. NewDeck(round + 1) \subseteq CardObject
    BY NewDeckType
  <2>3. hand' \in [Player -> SUBSET CardObject] /\ deck' \subseteq CardObject
    BY <2>1, <2>2
  <2>4. callCard' \in Faces \cup {NoCard}
    BY <2>1, <2>2, FaceType
  <2>5. /\ phase' \in Phases /\ round' \in Nat /\ turn' \in Nat
        /\ direction' \in {"CLOCKWISE", "COUNTER_CLOCKWISE"}
        /\ pickCount' \in Nat /\ demanded' \in Suit \cup {NoSuit}
        /\ discard' \subseteq CardObject
        /\ declared' \subseteq declared
        /\ UNCHANGED <<creator, seats, multi, tally>>
    BY <1>1 DEF StartNewRound, Phases
  <2> QED
    BY <2>3, <2>4, <2>5 DEF tally
<1>2. ASSUME NEW p \in Player, AddPlayer(p) PROVE TypeOK'
  BY <1>2 DEF AddPlayer, table, piles, tally
<1>3. ASSUME NEW p \in Player, RemovePlayer(p) PROVE TypeOK'
  <2>1. seats' \in Seq(Player)
    BY <1>3, SeatsWithout DEF RemovePlayer
  <2>2. UNCHANGED <<phase, creator, turn, direction, pickCount, demanded, multi,
                    deck, discard, callCard, round>>
    BY <1>3 DEF RemovePlayer, table
  <2>3. /\ hand' \in [Player -> SUBSET CardObject]
        /\ declared' \subseteq declared
        /\ DOMAIN score' = Player
        /\ gamesPlayed' \in [Player -> Nat] /\ gamesWon' \in [Player -> Nat]
    BY <1>3 DEF RemovePlayer
  <2> QED
    BY <2>1, <2>2, <2>3
<1>4. ASSUME NEW p \in Player, StartGame(p) PROVE TypeOK'
  BY <1>4 DEF StartGame, Phases, tally
<1>5. ASSUME NEW p \in Player, NEW c \in hand[p], PlayCard(p, c) PROVE TypeOK'
  <2>1. c \in CardObject
    OBVIOUS
  <2>2. PutDown(p, c)
    BY <1>5 DEF PlayCard
  <2>3. PICK fresh \in SUBSET discard :
        \E got \in [Player -> SUBSET deck], more \in [Player -> SUBSET fresh] :
           CardPlayed(c, fresh, got, more)
    BY <2>2, PutDownMoves
  <2>4. /\ hand' \in [Player -> SUBSET CardObject]
        /\ deck' \subseteq CardObject /\ discard' \subseteq CardObject
    BY <2>1, <2>3 DEF CardPlayed
  <2>5. callCard' \in Faces /\ demanded' \in Suit \cup {NoSuit}
    BY <2>1, <2>2, FaceType DEF PutDown
  <2>6. pickCount' \in Nat
    BY <1>5, <2>1, FaceType DEF PlayCard
  <2>7. IndexAfterAbility(c) \in Nat /\ NextIndex(IndexAfterAbility(c)) \in Nat
    BY NextIndexType DEF IndexAfterAbility
  <2>8. turn' \in Nat /\ multi' \in BOOLEAN
    BY <1>5, <2>7 DEF PlayCard, MayPlayAgain
  <2>9. /\ phase' \in Phases /\ DOMAIN score' = Player
        /\ gamesPlayed' \in [Player -> Nat] /\ gamesWon' \in [Player -> Nat]
    <3>1. CASE EndRound
      <4>1. PICK s \in 1..Len(seats) :
              gamesWon' = [gamesWon EXCEPT ![seats[s]] = @ + 1]
        BY <3>1 DEF EndRound, EmptyHanded
      <4>2. seats[s] \in Player
        OBVIOUS
      <4>3. gamesWon' \in [Player -> Nat]
        BY <4>1, <4>2
      <4> QED
        BY <3>1, <4>3 DEF EndRound, Phases
    <3>2. CASE UNCHANGED <<phase, tally>>
      BY <3>2 DEF tally
    <3> QED
      BY <1>5, <3>1, <3>2 DEF PlayCard
  <2> QED
    BY <1>5, <2>4, <2>5, <2>6, <2>8, <2>9 DEF PlayCard
<1>6. ASSUME NEW p \in Player, DrawCard(p) PROVE TypeOK'
  <2>1. PICK drawn \in SUBSET (deck \cup discard) :
          /\ hand' = [hand EXCEPT ![p] = @ \cup drawn]
          /\ deck' \subseteq deck \cup discard
          /\ discard' \subseteq discard
    BY <1>6, DrawMoves
  <2>2. turn' \in Nat
    BY <1>6, NextIndexType DEF DrawCard
  <2> QED
    BY <1>6, <2>1, <2>2 DEF DrawCard, tally
<1>7. ASSUME NEW p \in Player, NEW d \in Declarations, Declare(p, d) PROVE TypeOK'
  <2>1. <<p, d>> \in Player \X {"DECLARE_LAST_CARD", "DECLARE_CHECK_UP"}
    BY EngineAssumption DEF EngineAssumption
  <2>2. declared' \subseteq Player \X {"DECLARE_LAST_CARD", "DECLARE_CHECK_UP"}
    BY <1>7, <2>1 DEF Declare
  <2> QED
    BY <1>7, <2>2 DEF Declare, table, piles, tally
<1>8. ASSUME NEW p \in Player, NEW s \in SuitRequests, NEW r \in ReverseRequests,
             ChooseSuit(p, s, r) PROVE TypeOK'
  <2>1. demanded' \in Suit
    BY <1>8, EngineAssumption DEF ChooseSuit, EngineAssumption
  <2>2. direction' \in {"CLOCKWISE", "COUNTER_CLOCKWISE"}
    BY <1>8 DEF ChooseSuit, Reversed
  <2> QED
    BY <1>8, <2>1, <2>2 DEF ChooseSuit, piles, tally
<1>9. CASE UNCHANGED vars
  BY <1>9 DEF vars, table, piles, tally
<1> QED
  BY <1>1, <1>2, <1>3, <1>4, <1>5, <1>6, <1>7, <1>8, <1>9 DEF Next

-----------------------------------------------------------------------------
(* Every step keeps the piles finite, every card with one owner, and the   *)
(* objects of later rounds out of play.                                    *)

LEMMA FiniteStep == IInv /\ [Next]_vars => PilesFinite'
<1> SUFFICES ASSUME IInv, [Next]_vars PROVE PilesFinite'
  OBVIOUS
<1> USE DEF IInv, PilesFinite
<1>1. CASE StartNewRound
  <2>1. deck' \subseteq NewDeck(round + 1) /\ round + 1 \in Nat
    BY <1>1, DealMoves DEF TypeOK
  <2>2. discard' = {}
    BY <1>1 DEF StartNewRound
  <2> QED
    BY <2>1, <2>2, NewDeckFinite, FS_Subset, FS_EmptySet
<1>2. ASSUME NEW p \in Player, NEW c \in hand[p], PlayCard(p, c) PROVE PilesFinite'
  <2>1. PICK fresh \in SUBSET discard :
        \E got \in [Player -> SUBSET deck], more \in [Player -> SUBSET fresh] :
           CardPlayed(c, fresh, got, more)
    BY <1>2, PutDownMoves DEF PlayCard, TypeOK
  <2>2. deck' \subseteq deck \cup discard /\ discard' \subseteq discard \cup {c}
    BY <2>1 DEF CardPlayed
  <2>3. IsFiniteSet(deck \cup discard) /\ IsFiniteSet(discard \cup {c})
    BY FS_Union, FS_AddElement
  <2> QED
    BY <2>2, <2>3, FS_Subset
<1>3. ASSUME NEW p \in Player, DrawCard(p) PROVE PilesFinite'
  <2>1. deck' \subseteq deck \cup discard /\ discard' \subseteq discard
    BY <1>3, DrawMoves DEF TypeOK
  <2>2. IsFiniteSet(deck \cup discard)
    BY FS_Union
  <2> QED
    BY <2>1, <2>2, FS_Subset
<1>4. CASE \E p \in Player : StartGame(p)
  BY <1>4, FS_EmptySet DEF StartGame
<1>5. CASE UNCHANGED <<deck, discard>>
  BY <1>5
<1> QED
  BY <1>1, <1>2, <1>3, <1>4, <1>5
     DEF Next, AddPlayer, RemovePlayer, Declare, ChooseSuit, piles, vars

LEMMA OwnerStep == IInv /\ [Next]_vars => OneOwner' /\ BornByNow'
<1> SUFFICES ASSUME IInv, [Next]_vars PROVE OneOwner' /\ BornByNow'
  OBVIOUS
<1> USE DEF IInv, OneOwner, BornByNow
<1>1. CASE StartNewRound
  <2>1. PICK got \in [Player -> SUBSET NewDeck(round + 1)] :
          /\ \A p, q \in Player : p # q => got[p] \cap got[q] = {}
          /\ hand' = [p \in Player |-> hand[p] \cup got[p]]
          /\ deck' \subseteq NewDeck(round + 1) \ AllOf(got)
    BY <1>1, DealMoves DEF TypeOK
  <2>2. discard' = {} /\ round' = round + 1 /\ round \in Nat
    BY <1>1 DEF StartNewRound, TypeOK
  <2>3. \A c \in NewDeck(round + 1) : c.gen = round + 1
    BY <2>2, NewDeckType
  <2>4. \A p \in Player : \A c \in hand[p] : c.gen \in Nat /\ c.gen =< round
    BY DEF TypeOK, CardObject
  <2>5. \A p \in Player : hand[p] \cap NewDeck(round + 1) = {}
    BY <2>2, <2>3, <2>4
  <2>6. OneOwner'
    BY <2>1, <2>2, <2>5 DEF AllOf, TypeOK
  <2>7. BornByNow'
    BY <2>1, <2>2, <2>3, <2>4 DEF TypeOK
  <2> QED
    BY <2>6, <2>7
<1>2. ASSUME NEW p \in Player, RemovePlayer(p) PROVE OneOwner' /\ BornByNow'
  <2>1. /\ hand' = [hand EXCEPT ![p] = {}]
        /\ UNCHANGED <<deck, discard, round>>
    BY <1>2 DEF RemovePlayer
  <2> QED
    BY <2>1 DEF TypeOK
<1>3. ASSUME NEW p \in Player, StartGame(p) PROVE OneOwner' /\ BornByNow'
  BY <1>3 DEF StartGame, TypeOK
<1>4. ASSUME NEW p \in Player, NEW c \in hand[p], PlayCard(p, c)
      PROVE  OneOwner' /\ BornByNow'
  <2>1. PICK fresh \in SUBSET discard :
        \E got \in [Player -> SUBSET deck], more \in [Player -> SUBSET fresh] :
           CardPlayed(c, fresh, got, more)
    BY <1>4, PutDownMoves DEF PlayCard, TypeOK
  <2>2. PICK got \in [Player -> SUBSET deck], more \in [Player -> SUBSET fresh] :
           CardPlayed(c, fresh, got, more)
    BY <2>1
  <2>3. round' = round
    BY <1>4 DEF PlayCard
  <2>4. \A q \in Player : hand'[q] = (hand[q] \ {c}) \cup got[q] \cup more[q]
    BY <2>2 DEF CardPlayed
  <2>5. deck' \cap discard' = {}
    BY <2>2 DEF CardPlayed
  <2>6. ASSUME NEW q \in Player PROVE hand'[q] \cap (deck' \cup discard') = {}
    BY <2>2, <2>4 DEF CardPlayed, AllOf
  <2>7. ASSUME NEW q \in Player, NEW r \in Player, q # r
        PROVE  hand'[q] \cap hand'[r] = {}
    BY <2>2, <2>4, <2>7 DEF CardPlayed
  <2>8. BornByNow'
    BY <2>2, <2>3, <2>4 DEF CardPlayed
  <2> QED
    BY <2>5, <2>6, <2>7, <2>8
<1>5. ASSUME NEW p \in Player, DrawCard(p) PROVE OneOwner' /\ BornByNow'
  <2>1. PICK drawn \in SUBSET (deck \cup discard) :
          /\ hand' = [hand EXCEPT ![p] = @ \cup drawn]
          /\ \/ /\ drawn \subseteq deck /\ deck' = deck \ drawn
                /\ discard' = discard
             \/ /\ deck = {} /\ discard' = {}
                /\ deck' \subseteq discard \ drawn
    BY <1>5, DrawMoves DEF TypeOK
  <2>2. round' = round
    BY <1>5 DEF DrawCard
  <2>3. \A q \in Player : hand'[q] = IF q = p THEN hand[q] \cup drawn ELSE hand[q]
    BY <2>1 DEF TypeOK
  <2>4. OneOwner'
    BY <2>1, <2>3
  <2>5. BornByNow'
    BY <2>1, <2>2, <2>3
  <2> QED
    BY <2>4, <2>5
<1>6. CASE UNCHANGED <<piles, round>>
  BY <1>6 DEF piles
<1> QED
  BY <1>1, <1>2, <1>3, <1>4, <1>5, <1>6
     DEF Next, AddPlayer, Declare, ChooseSuit, vars

-----------------------------------------------------------------------------
(* Every step keeps one seat for each player and the cards with the        *)
(* seated.                                                                 *)

(* The one who leaves is gone, everybody else is still there.              *)
LEMMA SeatsAfterLeaving ==
    ASSUME seats \in Seq(Player), OneSeatEach,
           NEW p \in Player, RemovePlayer(p)
    PROVE  OneSeatEach' /\ Seated' = Seated \ {p}
<1>1. PICK i \in 1..Len(seats) : seats[i] = p /\ seats' = Without(seats, i)
  BY DEF RemovePlayer
<1> DEFINE n == Len(seats)
<1>2. n \in Nat /\ i \in Nat
  OBVIOUS
<1>3. /\ Len(seats') = n - 1
      /\ \A j \in 1..(n - 1) : seats'[j] = IF j < i THEN seats[j] ELSE seats[j + 1]
  BY <1>1, SeatsWithout
<1>4. \A j \in 1..n : seats[j] = p <=> j = i
  BY <1>1 DEF OneSeatEach
<1> HIDE DEF n
<1>5. OneSeatEach'
  <2>1. ASSUME NEW j \in 1..(n - 1), NEW k \in 1..(n - 1), seats'[j] = seats'[k]
        PROVE  j = k
    <3> DEFINE old(x) == IF x < i THEN x ELSE x + 1
    <3>1. old(j) \in 1..n /\ old(k) \in 1..n /\ seats'[j] = seats[old(j)]
            /\ seats'[k] = seats[old(k)]
      BY <1>2, <1>3
    <3>2. old(j) = old(k)
      BY <3>1, <2>1 DEF OneSeatEach, n
    <3> QED
      BY <3>2, <1>2
  <2> QED
    BY <2>1, <1>3 DEF OneSeatEach
<1>6. ASSUME NEW q \in Seated, q # p PROVE q \in Seated'
  <2>1. PICK j \in 1..n : seats[j] = q /\ j # i
    BY <1>6, <1>1 DEF Seated, n
  <2>2. CASE j < i
    <3>1. j \in 1..(n - 1) /\ seats'[j] = q
      BY <2>1, <2>2, <1>2, <1>3 DEF n
    <3> QED
      BY <3>1, <1>3 DEF Seated
  <2>3. CASE j > i
    <3>1. j - 1 \in 1..(n - 1) /\ (j - 1) + 1 = j /\ ~(j - 1 < i)
      BY <2>1, <2>3, <1>2
    <3>2. seats'[j - 1] = q
      BY <2>1, <3>1, <1>3
    <3> QED
      BY <3>1, <3>2, <1>3 DEF Seated
  <2> QED
    BY <2>1, <2>2, <2>3, <1>2
<1>7. ASSUME NEW q \in Seated' PROVE q \in Seated /\ q # p
  <2>1. PICK j \in 1..(n - 1) : seats'[j] = q
    BY <1>3 DEF Seated
  <2>2. \/ j \in 1..n /\ j # i /\ seats[j] = q
        \/ j + 1 \in 1..n /\ j + 1 # i /\ seats[j + 1] = q
    BY <2>1, <1>2, <1>3
  <2> QED
    BY <2>2, <1>4 DEF Seated, n
<1> QED
  BY <1>5, <1>6, <1>7

(* Whoever joins is there, and everybody else still is.                    *)
LEMMA SeatsAfterJoining ==
    ASSUME seats \in Seq(Player), OneSeatEach,
           NEW p \in Player, AddPlayer(p)
    PROVE  OneSeatEach' /\ Seated' = Seated \cup {p} /\ p \notin Seated
<1>1. p \notin Seated /\ seats' = Append(seats, p)
  BY DEF AddPlayer, MayJoin
<1>2. /\ Len(seats') = Len(seats) + 1 /\ Len(seats) \in Nat
      /\ \A j \in 1..Len(seats) : seats'[j] = seats[j]
      /\ seats'[Len(seats) + 1] = p
  BY <1>1, AppendProperties
<1>3. \A j \in 1..Len(seats) : seats[j] # p
  BY <1>1 DEF Seated
<1>4. OneSeatEach'
  BY <1>2, <1>3 DEF OneSeatEach
<1>5. Seated' = Seated \cup {p}
  BY <1>2 DEF Seated
<1> QED
  BY <1>1, <1>4, <1>5

LEMMA SeatedStep == IInv /\ [Next]_vars => OneSeatEach' /\ OnlySeatedHold'
<1> SUFFICES ASSUME IInv, [Next]_vars PROVE OneSeatEach' /\ OnlySeatedHold'
  OBVIOUS
<1> USE DEF IInv, OnlySeatedHold
<1>1. CASE StartNewRound
  <2>1. PICK got \in [Player -> SUBSET NewDeck(round + 1)] :
          /\ \A p \in Player \ Seated : got[p] = {}
          /\ hand' = [p \in Player |-> hand[p] \cup got[p]]
    BY <1>1, DealMoves DEF TypeOK
  <2>2. Seated' = Seated /\ OneSeatEach'
    BY <1>1 DEF StartNewRound, OneSeatEach, Seated
  <2>3. \A p \in Player \ Seated : hand'[p] = {}
    BY <2>1
  <2> QED
    BY <2>2, <2>3
<1>2. ASSUME NEW p \in Player, AddPlayer(p) PROVE OneSeatEach' /\ OnlySeatedHold'
  <2>1. OneSeatEach' /\ Seated' = Seated \cup {p}
    BY <1>2, SeatsAfterJoining DEF TypeOK
  <2> QED
    BY <1>2, <2>1 DEF AddPlayer, piles
<1>3. ASSUME NEW p \in Player, RemovePlayer(p) PROVE OneSeatEach' /\ OnlySeatedHold'
  <2>1. OneSeatEach' /\ Seated' = Seated \ {p}
    BY <1>3, SeatsAfterLeaving DEF TypeOK
  <2>2. hand' = [hand EXCEPT ![p] = {}]
    BY <1>3 DEF RemovePlayer
  <2> QED
    BY <2>1, <2>2 DEF TypeOK
<1>4. ASSUME NEW p \in Player, NEW c \in hand[p], PlayCard(p, c)
      PROVE  OneSeatEach' /\ OnlySeatedHold'
  <2>1. PICK fresh \in SUBSET discard :
        \E got \in [Player -> SUBSET deck], more \in [Player -> SUBSET fresh] :
           CardPlayed(c, fresh, got, more)
    BY <1>4, PutDownMoves DEF PlayCard, TypeOK
  <2>2. seats' = seats
    BY <1>4 DEF PlayCard
  <2>3. \A q \in Player \ Seated : hand'[q] = {}
    BY <2>1 DEF CardPlayed
  <2> QED
    BY <2>2, <2>3 DEF OneSeatEach, Seated
<1>5. ASSUME NEW p \in Player, DrawCard(p) PROVE OneSeatEach' /\ OnlySeatedHold'
  <2>1. PICK drawn \in SUBSET (deck \cup discard) :
          hand' = [hand EXCEPT ![p] = @ \cup drawn] /\ IsCurrent(p)
    BY <1>5, DrawMoves DEF TypeOK
  <2>2. Seated' = Seated /\ OneSeatEach'
    BY <1>5 DEF DrawCard, OneSeatEach, Seated
  <2>3. p \in Seated
    BY <2>1 DEF IsCurrent, Seated, TypeOK
  <2>4. \A q \in Player \ Seated : hand'[q] = {}
    BY <2>1, <2>3 DEF TypeOK
  <2> QED
    BY <2>2, <2>4
<1>6. CASE UNCHANGED <<hand, seats>>
  BY <1>6 DEF OneSeatEach, Seated
<1> QED
  BY <1>1, <1>2, <1>3, <1>4, <1>5, <1>6
     DEF Next, StartGame, Declare, ChooseSuit, vars, piles

-----------------------------------------------------------------------------
(* Every step keeps the call card on the pile and the books in order.      *)

LEMMA CallCardStep == IInv /\ [Next]_vars => CallCardIsDiscarded'
<1> SUFFICES ASSUME IInv, [Next]_vars PROVE CallCardIsDiscarded'
  OBVIOUS
<1> USE DEF IInv, CallCardIsDiscarded
<1>1. CASE discard' = {}
  BY <1>1
<1>2. ASSUME NEW p \in Player, NEW c \in hand[p], PlayCard(p, c)
      PROVE  CallCardIsDiscarded'
  <2>1. PICK fresh \in SUBSET discard :
        \E got \in [Player -> SUBSET deck], more \in [Player -> SUBSET fresh] :
           CardPlayed(c, fresh, got, more)
    BY <1>2, PutDownMoves DEF PlayCard, TypeOK
  <2>2. c \in discard' \/ discard' = {}
    BY <2>1 DEF CardPlayed
  <2>3. callCard' = Face(c)
    BY <1>2 DEF PlayCard, PutDown
  <2>4. SameFace(c, Face(c))
    BY FaceType DEF TypeOK
  <2> QED
    BY <2>2, <2>3, <2>4
<1>3. ASSUME NEW p \in Player, DrawCard(p) PROVE CallCardIsDiscarded'
  BY <1>3, <1>1 DEF DrawCard
<1>4. CASE UNCHANGED <<discard, callCard>>
  BY <1>4
<1> QED
  BY <1>1, <1>2, <1>3, <1>4
     DEF Next, StartNewRound, StartGame, AddPlayer, RemovePlayer, Declare,
         ChooseSuit, piles, vars

LEMMA BooksStep == IInv /\ [Next]_vars => BooksOpen' /\ ScoredOncePerRound'
<1> SUFFICES ASSUME IInv, [Next]_vars PROVE BooksOpen' /\ ScoredOncePerRound'
  OBVIOUS
<1> USE DEF IInv, BooksOpen, ScoredOncePerRound, RoundsEnded
<1>1. CASE StartNewRound
  <2>1. /\ phase \in {"STARTING", "ROUND_ENDED"} /\ phase' = "IN_PROGRESS"
        /\ round' = round + 1 /\ round \in Nat
        /\ Seated' = Seated /\ gamesPlayed' = gamesPlayed
    BY <1>1 DEF StartNewRound, Seated, TypeOK, tally
  <2> QED
    BY <2>1
<1>2. ASSUME NEW p \in Player, AddPlayer(p) PROVE BooksOpen' /\ ScoredOncePerRound'
  <2>1. Seated' = Seated \cup {p} /\ p \notin Seated
    BY <1>2, SeatsAfterJoining DEF TypeOK
  <2>2. phase = "LOBBY" /\ UNCHANGED <<phase, callCard, gamesPlayed, round>>
    BY <1>2 DEF AddPlayer, MayJoin, piles, tally
  <2> QED
    BY <2>1, <2>2
<1>3. ASSUME NEW p \in Player, RemovePlayer(p) PROVE BooksOpen' /\ ScoredOncePerRound'
  <2>1. Seated' = Seated \ {p}
    BY <1>3, SeatsAfterLeaving DEF TypeOK
  <2>2. /\ gamesPlayed' = [gamesPlayed EXCEPT ![p] = 0]
        /\ UNCHANGED <<phase, callCard, round>>
    BY <1>3 DEF RemovePlayer
  <2> QED
    BY <2>1, <2>2 DEF TypeOK
<1>4. ASSUME NEW p \in Player, StartGame(p) PROVE BooksOpen' /\ ScoredOncePerRound'
  BY <1>4 DEF StartGame, MayStart, Seated, tally
<1>5. ASSUME NEW p \in Player, NEW c \in hand[p], PlayCard(p, c)
      PROVE  BooksOpen' /\ ScoredOncePerRound'
  <2>1. phase = "IN_PROGRESS"
    BY <1>5 DEF PlayCard, Accepting, CanPlayCard
  <2>2. Seated' = Seated /\ round' = round
    BY <1>5 DEF PlayCard, Seated
  <2>3. CASE EndRound
    <3>1. phase' = "ROUND_ENDED"
      BY <2>3 DEF EndRound
    <3>2. \A q \in Player :
            gamesPlayed'[q] = IF q \in Seated THEN gamesPlayed[q] + 1 ELSE gamesPlayed[q]
      BY <2>3 DEF EndRound
    <3>3. Seated \subseteq Player /\ round \in Nat
      BY DEF TypeOK, Seated
    <3> QED
      BY <2>1, <2>2, <3>1, <3>2, <3>3
  <2>4. CASE UNCHANGED <<phase, tally>>
    BY <2>1, <2>2, <2>4 DEF tally
  <2> QED
    BY <1>5, <2>3, <2>4 DEF PlayCard
<1>6. CASE UNCHANGED <<phase, seats, callCard, tally, round>>
  BY <1>6 DEF Seated, tally
<1> QED
  BY <1>1, <1>2, <1>3, <1>4, <1>5, <1>6
     DEF Next, DrawCard, Declare, ChooseSuit, piles, vars

-----------------------------------------------------------------------------
(* The theorems.                                                           *)

(* IInv is an invariant: every request, at any moment the engine serves    *)
(* it, keeps all of it.                                                    *)
THEOREM Invariance == Spec => []IInv
<1>1. IInv /\ [Next]_vars => IInv'
  BY TypeStep, FiniteStep, OwnerStep, SeatedStep, CallCardStep, BooksStep DEF IInv
<1> QED
  BY InvInit, <1>1, PTL DEF Spec

(* Every reachable state of a game has the types of the code's fields.     *)
THEOREM TypeCorrect == Spec => []TypeOK
<1>1. IInv => TypeOK
  BY DEF IInv
<1> QED
  BY Invariance, <1>1, PTL

(* No card object is ever in two hands or piles, for any deck, number of   *)
(* players and rounds, and whatever is drawn, played, handed out or turned *)
(* over.                                                                   *)
THEOREM EveryCardHasOneOwner == Spec => []OneOwner
<1>1. IInv => OneOwner
  BY DEF IInv
<1> QED
  BY Invariance, <1>1, PTL

(* Only seated players hold cards: a leaver takes his along, and neither a *)
(* deal nor a general market nor a draw gives any to somebody who left.    *)
THEOREM OnlyTheSeatedHold == Spec => []OnlySeatedHold
<1>1. IInv => OnlySeatedHold
  BY DEF IInv
<1> QED
  BY Invariance, <1>1, PTL

(* While anything lies on the discard pile, the card to match lies there.  *)
THEOREM CallCardOnThePile == Spec => []CallCardIsDiscarded
<1>1. IInv => CallCardIsDiscarded
  BY DEF IInv
<1> QED
  BY Invariance, <1>1, PTL

(* Everybody at the table has been scored once for every round that ended. *)
THEOREM EveryRoundIsScoredOnce == Spec => []ScoredOncePerRound
<1>1. IInv => ScoredOncePerRound
  BY DEF IInv
<1> QED
  BY Invariance, <1>1, PTL

(* The player whose turn it is can play or must draw, as long as no suit   *)
(* is demanded: an attack never leaves him with neither, because the       *)
(* defence that forbids the draw matches the attacking card by its value.  *)
THEOREM TheTurnHasAMove == Spec => []TurnHasMove
<1>1. TypeOK => TurnHasMove
  <2> SUFFICES ASSUME TypeOK, NEW p \in Player, demanded = NoSuit,
                      ~MustDrawCard(hand[p], callCard, demanded, pickCount)
               PROVE  \E c \in hand[p] : CanPlayCard(c, callCard, demanded)
    BY DEF TurnHasMove
  <2>1. CASE pickCount > 0
    <3>1. HasDefenseCard(hand[p], callCard, pickCount)
      BY <2>1 DEF MustDrawCard
    <3>2. PICK c \in hand[p] : callCard # NoCard /\ c.value = callCard.value
      BY <3>1 DEF HasDefenseCard, CanDefendAgainstAttack
    <3> QED
      BY <3>2 DEF CanPlayCard, RulesCanPlay, CanPlayOn
  <2>2. CASE ~(pickCount > 0)
    BY <2>2 DEF MustDrawCard, HasPlayableCard, CanPlayCard
  <2> QED
    BY <2>1, <2>2
<1> QED
  BY TypeCorrect, <1>1, PTL

-----------------------------------------------------------------------------
(* WhotEngine implements CardCustody: every step of a game moves the card  *)
(* objects as one step of CardCustody may, or leaves them where they are.  *)

PlaceMap == [c \in UNION Batches |-> PlaceOf(c)]

Nowhere(c) == c \notin deck \cup discard /\ \A p \in Player : c \notin hand[p]

(* What PlaceMap says of an object is where it is.                         *)
PlacesTell ==
    \A c \in UNION Batches :
        /\ c \in deck <=> PlaceMap[c] = Custody!Deck
        /\ c \in discard <=> PlaceMap[c] = Custody!Discard
        /\ \A p \in Player : c \in hand[p] <=> PlaceMap[c] = Custody!HandOf(p)
        /\ Nowhere(c) /\ c.gen =< round <=> PlaceMap[c] = Custody!Lost
        /\ Nowhere(c) /\ ~(c.gen =< round) <=> PlaceMap[c] = Custody!Unmade

(* The places of CardCustody are different from each other.                *)
LEMMA PlacesDiffer ==
    /\ Custody!Deck # Custody!Discard
    /\ Custody!Deck # Custody!Lost /\ Custody!Deck # Custody!Unmade
    /\ Custody!Discard # Custody!Lost /\ Custody!Discard # Custody!Unmade
    /\ Custody!Lost # Custody!Unmade
    /\ \A p \in Player :
          /\ Custody!HandOf(p) # Custody!Deck /\ Custody!HandOf(p) # Custody!Discard
          /\ Custody!HandOf(p) # Custody!Lost /\ Custody!HandOf(p) # Custody!Unmade
    /\ \A p, q \in Player : Custody!HandOf(p) = Custody!HandOf(q) => p = q
BY DEF Custody!Deck, Custody!Discard, Custody!Lost, Custody!Unmade, Custody!HandOf,
       Custody!In

(* An object of a batch was made in the round of that batch.               *)
LEMMA ObjectsHaveRounds ==
    ASSUME NEW c \in UNION Batches
    PROVE  /\ c.gen \in 1..MaxRounds
           /\ \A g \in Nat : c \in NewDeck(g) <=> g = c.gen
<1>1. PICK g \in 1..MaxRounds : c \in NewDeck(g)
  BY DEF Batches
<1>2. MaxRounds \in Nat /\ g \in Nat
  BY EngineAssumption DEF EngineAssumption
<1>3. c.gen = g
  BY <1>1, <1>2, NewDeckType
<1> QED
  BY <1>1, <1>2, <1>3, NewDeckType

(* With one owner for every card, each object is in one place.             *)
LEMMA PlacesAreTold == IInv => PlacesTell
<1> SUFFICES ASSUME IInv, NEW c \in UNION Batches
             PROVE  /\ c \in deck <=> PlaceMap[c] = Custody!Deck
                    /\ c \in discard <=> PlaceMap[c] = Custody!Discard
                    /\ \A p \in Player : c \in hand[p] <=> PlaceMap[c] = Custody!HandOf(p)
                    /\ Nowhere(c) /\ c.gen =< round <=> PlaceMap[c] = Custody!Lost
                    /\ Nowhere(c) /\ ~(c.gen =< round) <=> PlaceMap[c] = Custody!Unmade
  BY DEF PlacesTell
<1>1. PlaceMap[c] = PlaceOf(c)
  BY DEF PlaceMap
<1>2. OneOwner
  BY DEF IInv
<1>3. CASE c \in deck
  <2>1. c \notin discard /\ \A p \in Player : c \notin hand[p]
    BY <1>2, <1>3 DEF OneOwner
  <2>2. PlaceMap[c] = Custody!Deck
    BY <1>1, <1>3, <2>1 DEF PlaceOf, Custody!Deck, Custody!In
  <2> QED
    BY <1>3, <2>1, <2>2, PlacesDiffer DEF Nowhere
<1>4. CASE c \in discard
  <2>1. c \notin deck /\ \A p \in Player : c \notin hand[p]
    BY <1>2, <1>4 DEF OneOwner
  <2>2. PlaceMap[c] = Custody!Discard
    BY <1>1, <1>4, <2>1 DEF PlaceOf, Custody!Discard, Custody!In
  <2> QED
    BY <1>4, <2>1, <2>2, PlacesDiffer DEF Nowhere
<1>5. ASSUME NEW p \in Player, c \in hand[p]
      PROVE  /\ c \notin deck /\ c \notin discard
             /\ PlaceMap[c] = Custody!HandOf(p)
             /\ \A q \in Player : c \in hand[q] <=> PlaceMap[c] = Custody!HandOf(q)
  <2>1. c \notin deck /\ c \notin discard
    BY <1>2, <1>5 DEF OneOwner
  <2>2. {q \in Player : c \in hand[q]} = {p}
    BY <1>2, <1>5 DEF OneOwner
  <2>3. PlaceMap[c] = Custody!HandOf(p)
    BY <1>1, <1>5, <2>1, <2>2 DEF PlaceOf, Custody!HandOf
  <2> QED
    BY <2>1, <2>2, <2>3, PlacesDiffer
<1>6. CASE \E p \in Player : c \in hand[p]
  BY <1>5, <1>6, PlacesDiffer DEF Nowhere
<1>7. CASE Nowhere(c)
  <2>1. PlaceMap[c] = [at |-> IF c.gen =< round THEN "lost" ELSE "unmade", of |-> {}]
    BY <1>1, <1>7 DEF PlaceOf, Nowhere, Made
  <2>2. PlaceMap[c] = IF c.gen =< round THEN Custody!Lost ELSE Custody!Unmade
    BY <2>1 DEF Custody!Lost, Custody!Unmade, Custody!In
  <2> QED
    BY <1>7, <2>2, PlacesDiffer DEF Nowhere
<1> QED
  BY <1>3, <1>4, <1>6, <1>7 DEF Nowhere

-----------------------------------------------------------------------------
LEMMA MapIsPlace == PlacesTell => PlaceMap \in [UNION Batches -> Custody!Place]
<1> SUFFICES ASSUME PlacesTell, NEW c \in UNION Batches
             PROVE  PlaceMap[c] \in Custody!Place
  BY DEF PlaceMap
<1> QED
  BY DEF PlacesTell, Nowhere, Custody!Place, Custody!Hands

(* Without moving a card and without a new round, every place stays.       *)
LEMMA PilesKept == UNCHANGED <<piles, round>> => PlaceMap' = PlaceMap
BY DEF piles, PlaceMap, PlaceOf, Made

(* A leaver's cards go with him.                                           *)
LEMMA LeaveMoves ==
    ASSUME IInv, IInv', NEW p \in Player, RemovePlayer(p)
    PROVE  \A c \in UNION Batches :
              PlaceMap'[c] = IF PlaceMap[c] = Custody!HandOf(p) THEN Custody!Lost
                                                               ELSE PlaceMap[c]
<1>1. PlacesTell /\ PlacesTell'
  BY PlacesAreTold, PTL
<1>2. /\ hand' = [hand EXCEPT ![p] = {}]
      /\ UNCHANGED <<deck, discard, round>>
  BY DEF RemovePlayer
<1>3. hand \in [Player -> SUBSET CardObject]
  BY DEF IInv, TypeOK
<1> SUFFICES ASSUME NEW c \in UNION Batches
             PROVE  PlaceMap'[c] = IF PlaceMap[c] = Custody!HandOf(p) THEN Custody!Lost
                                                                     ELSE PlaceMap[c]
  OBVIOUS
<1>4. CASE c \in deck \/ c \in discard
  BY <1>1, <1>2, <1>4, PlacesDiffer DEF PlacesTell
<1>5. CASE c \in hand[p]
  <2>1. c \notin deck \cup discard /\ \A q \in Player : q # p => c \notin hand[q]
    BY <1>5 DEF IInv, OneOwner
  <2>2. c.gen =< round
    BY <1>5 DEF IInv, BornByNow
  <2>3. Nowhere(c)' /\ (c.gen =< round)'
    BY <1>2, <1>3, <2>1, <2>2 DEF Nowhere
  <2> QED
    BY <1>1, <1>5, <2>3 DEF PlacesTell
<1>6. ASSUME NEW q \in Player, q # p, c \in hand[q]
      PROVE  PlaceMap[c] = Custody!HandOf(q) /\ PlaceMap'[c] = Custody!HandOf(q)
  <2>1. c \in hand'[q]
    BY <1>2, <1>3, <1>6
  <2> QED
    BY <1>1, <1>6, <2>1 DEF PlacesTell
<1>7. CASE Nowhere(c)
  <2>1. Nowhere(c)'
    BY <1>2, <1>3, <1>7 DEF Nowhere
  <2>2. (c.gen =< round)' <=> c.gen =< round
    BY <1>2
  <2> QED
    BY <1>1, <1>7, <2>1, <2>2, PlacesDiffer DEF PlacesTell
<1> QED
  BY <1>4, <1>5, <1>6, <1>7, PlacesDiffer DEF Nowhere

(* A new round: a new batch is made, and the piles of the last are lost.   *)
LEMMA RoundMoves ==
    ASSUME IInv, IInv', StartNewRound
    PROVE  \A c \in UNION Batches :
              IF c \in NewDeck(round + 1)
                THEN /\ PlaceMap[c] = Custody!Unmade
                     /\ PlaceMap'[c] \in {Custody!Deck, Custody!Lost} \cup Custody!Hands
                ELSE PlaceMap'[c] = IF PlaceMap[c] \in {Custody!Deck, Custody!Discard}
                                      THEN Custody!Lost ELSE PlaceMap[c]
<1>1. PlacesTell /\ PlacesTell'
  BY PlacesAreTold, PTL
<1>2. round \in Nat /\ round' = round + 1 /\ discard' = {}
  BY DEF StartNewRound, IInv, TypeOK
<1>3. hand \in [Player -> SUBSET CardObject]
  BY DEF IInv, TypeOK
<1>4. PICK got \in [Player -> SUBSET NewDeck(round + 1)] :
        /\ hand' = [p \in Player |-> hand[p] \cup got[p]]
        /\ deck' \subseteq NewDeck(round + 1) \ AllOf(got)
  BY <1>2, DealMoves
<1>5. ASSUME NEW c \in UNION Batches, c \in NewDeck(round + 1)
      PROVE  /\ PlaceMap[c] = Custody!Unmade
             /\ PlaceMap'[c] \in {Custody!Deck, Custody!Lost} \cup Custody!Hands
  <2>1. c.gen = round + 1
    BY <1>2, <1>5, ObjectsHaveRounds
  <2>2. ~(c.gen =< round) /\ (c.gen =< round)'
    BY <1>2, <2>1
  <2>3. Nowhere(c)
    BY <2>2 DEF IInv, BornByNow, Nowhere
  <2>4. c \in deck' \/ (\E p \in Player : c \in hand'[p]) \/ Nowhere(c)'
    BY <1>2 DEF Nowhere
  <2> QED
    BY <1>1, <2>2, <2>3, <2>4 DEF PlacesTell, Custody!Hands
<1>6. ASSUME NEW c \in UNION Batches, c \notin NewDeck(round + 1)
      PROVE  PlaceMap'[c] = IF PlaceMap[c] \in {Custody!Deck, Custody!Discard}
                              THEN Custody!Lost ELSE PlaceMap[c]
  <2>1. c.gen \in Nat /\ c.gen # round + 1
    BY <1>2, <1>6, ObjectsHaveRounds, EngineAssumption DEF EngineAssumption
  <2>2. (c.gen =< round)' <=> c.gen =< round
    BY <1>2, <2>1
  <2>3. c \notin deck' /\ c \notin discard'
    BY <1>2, <1>4, <1>6
  <2>4. \A p \in Player : c \in hand'[p] <=> c \in hand[p]
    BY <1>3, <1>4, <1>6
  <2>5. CASE c \in deck \/ c \in discard
    <3>1. \A p \in Player : c \notin hand[p]
      BY <2>5 DEF IInv, OneOwner
    <3>2. c.gen =< round
      BY <2>5 DEF IInv, BornByNow
    <3>3. Nowhere(c)' /\ (c.gen =< round)'
      BY <2>2, <2>3, <2>4, <3>1, <3>2 DEF Nowhere
    <3> QED
      BY <1>1, <2>5, <3>3 DEF PlacesTell
  <2>6. ASSUME NEW p \in Player, c \in hand[p]
        PROVE  PlaceMap[c] = Custody!HandOf(p) /\ PlaceMap'[c] = Custody!HandOf(p)
    <3>1. c \in hand'[p]
      BY <2>4, <2>6
    <3> QED
      BY <1>1, <2>6, <3>1 DEF PlacesTell
  <2>7. CASE Nowhere(c)
    <3>1. Nowhere(c)'
      BY <2>3, <2>4, <2>7 DEF Nowhere
    <3> QED
      BY <1>1, <2>2, <2>7, <3>1, PlacesDiffer DEF PlacesTell
  <2> QED
    BY <2>5, <2>6, <2>7, PlacesDiffer DEF Nowhere
<1> QED
  BY <1>5, <1>6

(* What a request of player p does to the cards: at most card c leaves a   *)
(* hand, p's, for the discard pile or for good; cards of the deck stay or  *)
(* come to hands; and if the discard pile changes otherwise, it is turned  *)
(* over whole and the deck is used up.                                     *)
CardsTurned(p) ==
    /\ \A q \in Player \ {p} : hand[q] \subseteq hand'[q]
    /\ \A c, d \in hand[p] \ hand'[p] : c = d
    /\ \A c \in hand[p] \ hand'[p] :
          c \notin deck' /\ \A q \in Player : c \notin hand'[q]
    /\ \A c \in deck : c \in deck' \/ \E q \in Player : c \in hand'[q]
    /\ deck' \subseteq deck \cup discard
    /\ \A q \in Player : hand'[q] \subseteq hand[q] \cup deck \cup discard
    /\ discard' \subseteq discard \cup hand[p]
    /\ discard \subseteq discard' \/ (discard' = {} /\ deck \cap deck' = {})
    /\ round' = round

(* The places a turn may take a card to, place by place.                   *)
LEMMA TurnMovesTo ==
    ASSUME NEW p \in Player
    PROVE  /\ Custody!TurnMoves(p, Custody!Deck) = {Custody!Deck} \cup Custody!Hands
           /\ Custody!TurnMoves(p, Custody!Discard) =
                 {Custody!Discard, Custody!Deck, Custody!Lost} \cup Custody!Hands
           /\ Custody!TurnMoves(p, Custody!HandOf(p)) =
                 {Custody!HandOf(p), Custody!Discard, Custody!Lost}
           /\ \A x : x \in Custody!TurnMoves(p, x)
<1>1. Custody!TurnMoves(p, Custody!Deck) = {Custody!Deck} \cup Custody!Hands
  BY PlacesDiffer DEF Custody!TurnMoves
<1>2. Custody!TurnMoves(p, Custody!Discard) =
        {Custody!Discard, Custody!Deck, Custody!Lost} \cup Custody!Hands
  BY PlacesDiffer DEF Custody!TurnMoves
<1>3. Custody!TurnMoves(p, Custody!HandOf(p)) =
        {Custody!HandOf(p), Custody!Discard, Custody!Lost}
  BY PlacesDiffer DEF Custody!TurnMoves
<1>4. \A x : x \in Custody!TurnMoves(p, x)
  BY DEF Custody!TurnMoves
<1> QED
  BY <1>1, <1>2, <1>3, <1>4

(* Such a request is a turn of CardCustody.                                *)
LEMMA TurnIsTurn ==
    ASSUME IInv, IInv', NEW p \in Player, CardsTurned(p)
    PROVE  /\ \A c \in UNION Batches : PlaceMap'[c] \in Custody!TurnMoves(p, PlaceMap[c])
           /\ \A c, d \in UNION Batches :
                 (/\ PlaceMap[c] = Custody!HandOf(p) /\ PlaceMap'[c] # Custody!HandOf(p)
                  /\ PlaceMap[d] = Custody!HandOf(p) /\ PlaceMap'[d] # Custody!HandOf(p)) => c = d
           /\ (\E c \in UNION Batches :
                  PlaceMap[c] = Custody!Discard /\ PlaceMap'[c] # Custody!Discard) =>
                 \A c \in UNION Batches :
                    /\ PlaceMap'[c] # Custody!Discard
                    /\ PlaceMap[c] = Custody!Deck => PlaceMap'[c] \in Custody!Hands
<1>1. PlacesTell /\ PlacesTell'
  BY PlacesAreTold, PTL
<1>2. OneOwner /\ BornByNow /\ round' = round
  BY DEF IInv, CardsTurned
<1>3. ASSUME NEW c \in UNION Batches
      PROVE  PlaceMap'[c] \in Custody!TurnMoves(p, PlaceMap[c])
  <2>1. CASE c \in deck
    <3>1. c \in deck' \/ \E q \in Player : c \in hand'[q]
      BY <2>1 DEF CardsTurned
    <3> QED
      BY <1>1, <2>1, <3>1, TurnMovesTo DEF PlacesTell, Custody!Hands
  <2>2. CASE c \in discard
    <3>1. (c.gen =< round)'
      BY <1>2, <2>2 DEF BornByNow
    <3>2. c \in deck' \/ c \in discard' \/ (\E q \in Player : c \in hand'[q]) \/ Nowhere(c)'
      BY DEF Nowhere
    <3> QED
      BY <1>1, <2>2, <3>1, <3>2, TurnMovesTo DEF PlacesTell, Custody!Hands
  <2>3. CASE c \in hand[p]
    <3>1. (c.gen =< round)'
      BY <1>2, <2>3 DEF BornByNow
    <3>2. c \in hand'[p] \/ c \in discard' \/ Nowhere(c)'
      BY <2>3 DEF CardsTurned, Nowhere
    <3> QED
      BY <1>1, <2>3, <3>1, <3>2, TurnMovesTo DEF PlacesTell
  <2>4. ASSUME NEW q \in Player, q # p, c \in hand[q]
        PROVE  PlaceMap'[c] = PlaceMap[c]
    <3>1. c \in hand'[q]
      BY <2>4 DEF CardsTurned
    <3> QED
      BY <1>1, <2>4, <3>1 DEF PlacesTell
  <2>5. CASE Nowhere(c)
    <3>1. Nowhere(c)'
      BY <2>5 DEF CardsTurned, Nowhere
    <3>2. (c.gen =< round)' <=> c.gen =< round
      BY <1>2
    <3>3. PlaceMap'[c] = PlaceMap[c]
      BY <1>1, <2>5, <3>1, <3>2 DEF PlacesTell
    <3> QED
      BY <3>3, TurnMovesTo
  <2> QED
    BY <2>1, <2>2, <2>3, <2>4, <2>5, TurnMovesTo DEF Nowhere
<1>4. ASSUME NEW c \in UNION Batches, NEW d \in UNION Batches,
             PlaceMap[c] = Custody!HandOf(p), PlaceMap'[c] # Custody!HandOf(p),
             PlaceMap[d] = Custody!HandOf(p), PlaceMap'[d] # Custody!HandOf(p)
      PROVE  c = d
  <2>1. c \in hand[p] \ hand'[p] /\ d \in hand[p] \ hand'[p]
    BY <1>1, <1>4 DEF PlacesTell
  <2> QED
    BY <2>1 DEF CardsTurned
<1>5. ASSUME NEW e \in UNION Batches,
             PlaceMap[e] = Custody!Discard, PlaceMap'[e] # Custody!Discard,
             NEW c \in UNION Batches
      PROVE  /\ PlaceMap'[c] # Custody!Discard
             /\ PlaceMap[c] = Custody!Deck => PlaceMap'[c] \in Custody!Hands
  <2>1. e \in discard /\ e \notin discard'
    BY <1>1, <1>5 DEF PlacesTell
  <2>2. discard' = {} /\ deck \cap deck' = {}
    BY <2>1 DEF CardsTurned
  <2>3. c \notin discard'
    BY <2>2
  <2>4. c \in deck => \E q \in Player : c \in hand'[q]
    BY <2>2 DEF CardsTurned
  <2> QED
    BY <1>1, <2>3, <2>4 DEF PlacesTell, Custody!Hands
<1> QED
  BY <1>3, <1>4, <1>5

(* When more players are to be served than the deck has cards, as many as  *)
(* it has cards are served one each: the deck is used up.                  *)
LEMMA DeckUsedUp ==
    ASSUME IInv, NEW p \in Player, IsCurrent(p), NEW c \in hand[p],
           GeneralMarket(p, c), discard' = {}
    PROVE  deck \cap deck' = {}
<1> DEFINE n     == Len(seats) - 1
           k     == Cardinality(deck)
           again == n > k
           fresh == IF again THEN Reshuffled(discard \cup {c}, c) ELSE {}
           Place(q) == IF SeatOf(p) < SeatOf(q) THEN SeatOf(q) - 1 ELSE SeatOf(q)
           Served(places) == [q \in Player |->
              IF q \in Seated \ {p} /\ Place(q) \in places THEN 1 ELSE 0]
           Behind(i) == IF i < SeatOf(p) THEN i ELSE i + 1
           Guest(i)  == seats[Behind(i)]
<1>1. PICK got \in Handouts(deck, Served(1..k)) :
        /\ \E more : deck' = (deck \cup fresh) \ (AllOf(got) \cup more)
        /\ discard' = IF again THEN {} ELSE discard \cup {c}
  BY DEF GeneralMarket
<1>2. n > k
  BY <1>1
<1>3. deck' \cap AllOf(got) = {}
  BY <1>1
<1>4. IsFiniteSet(deck) /\ k \in Nat
  BY FS_CardinalityType DEF IInv, PilesFinite
<1>5. seats \in Seq(Player) /\ Len(seats) \in Nat /\ turn \in Nat
  BY DEF IInv, TypeOK
<1>6. SeatOf(p) \in 1..Len(seats) /\ seats[SeatOf(p)] = p
  BY <1>5 DEF IsCurrent, SeatOf
<1>7. ASSUME NEW i \in 1..k
      PROVE  /\ Guest(i) \in Seated \ {p}
             /\ SeatOf(Guest(i)) = Behind(i)
             /\ Place(Guest(i)) = i
  <2>1. Behind(i) \in 1..Len(seats) /\ Behind(i) # SeatOf(p)
    BY <1>2, <1>4, <1>5, <1>6
  <2>2. Guest(i) \in Seated /\ Guest(i) # p
    BY <2>1, <1>6 DEF Seated, IInv, OneSeatEach
  <2>3. SeatOf(Guest(i)) = Behind(i)
    BY <2>1 DEF SeatOf, IInv, OneSeatEach
  <2>4. Place(Guest(i)) = i
    BY <2>3, <1>4, <1>5, <1>6
  <2> QED
    BY <2>2, <2>3, <2>4
<1>8. ASSUME NEW i \in 1..k
      PROVE  Guest(i) \in Player /\ got[Guest(i)] # {}
  <2>1. Guest(i) \in Player
    BY <1>5, <1>7 DEF Seated
  <2>2. Served(1..k)[Guest(i)] = 1
    BY <1>7, <2>1
  <2> HIDE DEF Served, Guest, k
  <2>3. Cardinality(got[Guest(i)]) = 1
    BY <2>1, <2>2, HandoutsGive
  <2> QED
    BY <2>1, <2>3, FS_EmptySet
<1>9. /\ got \in [Player -> SUBSET deck]
      /\ \A q, r \in Player : q # r => got[q] \cap got[r] = {}
  <2> HIDE DEF Served, k
  <2> QED BY HandoutsGive
<1>10. \A i, j \in 1..k : Guest(i) = Guest(j) => i = j
  BY <1>7
<1> DEFINE first == [i \in 1..k |-> CHOOSE d : d \in got[Guest(i)]]
<1> HIDE DEF Guest, k
<1>11. \A i \in 1..k : first[i] \in got[Guest(i)] /\ first[i] \in deck
  BY <1>8, <1>9
<1>12. first \in Injection(1..k, deck)
  BY <1>8, <1>9, <1>10, <1>11 DEF Injection, IsInjective
<1> HIDE DEF first
<1>13. Cardinality(1..k) = k
  BY <1>4, FS_Interval
<1>14. first \in Surjection(1..k, deck)
  BY <1>4, <1>12, <1>13, FS_Injection DEF k
<1>15. deck \subseteq AllOf(got)
  BY <1>8, <1>11, <1>14 DEF Surjection, AllOf
<1> QED
  BY <1>3, <1>15

(* Playing a card turns the cards.                                         *)
LEMMA PlayTurns ==
    ASSUME IInv, NEW p \in Player, NEW c \in hand[p], PlayCard(p, c)
    PROVE  CardsTurned(p)
<1>1. hand \in [Player -> SUBSET CardObject] /\ OneOwner /\ PilesFinite
  BY DEF IInv, TypeOK
<1>2. PutDown(p, c) /\ IsCurrent(p) /\ round' = round
  BY DEF PlayCard
<1>3. PICK fresh \in SUBSET discard :
      \E got \in [Player -> SUBSET deck], more \in [Player -> SUBSET fresh] :
         CardPlayed(c, fresh, got, more)
  BY <1>1, <1>2, PutDownMoves
<1>4. PICK got \in [Player -> SUBSET deck], more \in [Player -> SUBSET fresh] :
         CardPlayed(c, fresh, got, more)
  BY <1>3
<1>5. \A q \in Player : hand'[q] = (hand[q] \ {c}) \cup got[q] \cup more[q]
  BY <1>4 DEF CardPlayed
<1>6. deck' = (deck \cup fresh) \ (AllOf(got) \cup AllOf(more))
  BY <1>4 DEF CardPlayed
<1>7. c \notin deck \cup discard /\ \A q \in Player : q # p => c \notin hand[q]
  BY <1>1 DEF OneOwner
<1>8. \A q \in Player : c \notin hand'[q]
  BY <1>5, <1>7
<1>9. hand[p] \ hand'[p] \subseteq {c}
  BY <1>5
<1>10. \A q \in Player \ {p} : hand[q] \subseteq hand'[q]
  BY <1>5, <1>7
<1>11. \A d \in deck : d \in deck' \/ \E q \in Player : d \in hand'[q]
  <2> SUFFICES ASSUME NEW d \in deck, d \notin deck'
               PROVE  \E q \in Player : d \in hand'[q]
    OBVIOUS
  <2>1. \E q \in Player : d \in got[q] \/ d \in more[q]
    BY <1>6 DEF AllOf
  <2> QED
    BY <2>1, <1>5
<1>12. deck' \subseteq deck \cup discard
  BY <1>6
<1>13. \A q \in Player : hand'[q] \subseteq hand[q] \cup deck \cup discard
  BY <1>5
<1>14. discard' = {} \/ discard' = discard \cup {c}
  BY <1>4 DEF CardPlayed
<1>15. discard' = {} => deck \cap deck' = {}
  <2> SUFFICES ASSUME discard' = {} PROVE deck \cap deck' = {}
    OBVIOUS
  <2>1. GeneralMarket(p, c)
    BY <1>2 DEF PutDown
  <2> QED
    BY <1>2, <2>1, DeckUsedUp
<1>16. /\ \A d, e \in hand[p] \ hand'[p] : d = e
       /\ \A d \in hand[p] \ hand'[p] :
             d \notin deck' /\ \A q \in Player : d \notin hand'[q]
  BY <1>7, <1>8, <1>9, <1>12
<1>17. /\ discard' \subseteq discard \cup hand[p]
       /\ discard \subseteq discard' \/ (discard' = {} /\ deck \cap deck' = {})
  <2>1. CASE discard' = {}
    BY <2>1, <1>15
  <2>2. CASE discard' = discard \cup {c}
    BY <2>2
  <2> QED
    BY <2>1, <2>2, <1>14
<1> QED
  BY <1>2, <1>10, <1>11, <1>12, <1>13, <1>16, <1>17 DEF CardsTurned

(* Drawing turns the cards.                                                *)
LEMMA DrawTurns ==
    ASSUME IInv, NEW p \in Player, DrawCard(p)
    PROVE  CardsTurned(p)
<1>1. hand \in [Player -> SUBSET CardObject]
  BY DEF IInv, TypeOK
<1>2. PICK drawn \in SUBSET (deck \cup discard) :
        /\ hand' = [hand EXCEPT ![p] = @ \cup drawn]
        /\ \/ /\ drawn \subseteq deck /\ deck' = deck \ drawn
              /\ discard' = discard
           \/ /\ deck = {} /\ discard' = {}
              /\ deck' \subseteq discard \ drawn
  BY <1>1, DrawMoves
<1>3. /\ hand'[p] = hand[p] \cup drawn
      /\ \A q \in Player \ {p} : hand'[q] = hand[q]
  BY <1>1, <1>2
<1>4. round' = round
  BY DEF DrawCard
<1>5. \A q \in Player : hand[q] \subseteq hand'[q]
  BY <1>3
<1>6. /\ deck' \subseteq deck \cup discard
      /\ discard' \subseteq discard
      /\ discard \subseteq discard' \/ (discard' = {} /\ deck \cap deck' = {})
      /\ \A d \in deck : d \in deck' \/ d \in drawn
  <2>1. CASE drawn \subseteq deck /\ deck' = deck \ drawn /\ discard' = discard
    BY <2>1
  <2>2. CASE deck = {} /\ discard' = {} /\ deck' \subseteq discard \ drawn
    BY <2>2
  <2> QED
    BY <2>1, <2>2, <1>2
<1>7. \A d \in drawn : d \in hand'[p]
  BY <1>3
<1>8. \A q \in Player : hand'[q] \subseteq hand[q] \cup deck \cup discard
  BY <1>3
<1> QED
  BY <1>4, <1>5, <1>6, <1>7, <1>8 DEF CardsTurned

(* Every step is a step of CardCustody, or moves nothing.                  *)
LEMMA StepMoves == IInv /\ IInv' /\ [Next]_vars => [Custody!Next]_PlaceMap
<1> SUFFICES ASSUME IInv, IInv', [Next]_vars PROVE [Custody!Next]_PlaceMap
  OBVIOUS
<1>1. PlaceMap' \in [UNION Batches -> Custody!Place]
  <2>1. PlacesTell'
    BY PlacesAreTold, PTL
  <2>2. (PlaceMap \in [UNION Batches -> Custody!Place])'
    BY <2>1, MapIsPlace, PTL
  <2> QED
    BY <2>2
<1>2. ASSUME NEW p \in Player, CardsTurned(p) PROVE Custody!Next
  <2>1. Custody!Turn(p)
    BY <1>2, TurnIsTurn DEF Custody!Turn, Custody!Leaves, Custody!Object, PlaceMap
  <2> QED
    BY <1>1, <2>1 DEF Custody!Next, Custody!Object, PlaceMap
<1>3. ASSUME NEW p \in Player, RemovePlayer(p) PROVE Custody!Next
  <2>1. Custody!Leave(p)
    BY <1>3, LeaveMoves DEF Custody!Leave, Custody!Object, PlaceMap
  <2> QED
    BY <1>1, <2>1 DEF Custody!Next, Custody!Object, PlaceMap
<1>4. CASE StartNewRound
  <2>1. Custody!Round(NewDeck(round + 1))
    BY <1>4, RoundMoves DEF Custody!Round, Custody!Object, PlaceMap
  <2>2. NewDeck(round + 1) \in Batches
    <3>1. round + 1 \in 1..MaxRounds
      BY <1>4, EngineAssumption DEF StartNewRound, EngineAssumption, IInv, TypeOK
    <3> QED
      BY <3>1 DEF Batches
  <2>3. Custody!Next
    BY <1>1, <2>1, <2>2 DEF Custody!Next, Custody!Object, PlaceMap
  <2> QED
    BY <2>3
<1>5. ASSUME NEW p \in Player, StartGame(p) PROVE PlaceMap' = PlaceMap
  <2>1. round = 0 /\ round' = round
    BY <1>5 DEF StartGame, MayStart, IInv, BooksOpen
  <2>2. ASSUME NEW c \in UNION Batches
        PROVE  PlaceMap[c] = Custody!Unmade /\ PlaceMap'[c] = Custody!Unmade
    <3>1. ~(c.gen =< round) /\ ~(c.gen =< round)'
      BY <2>1, ObjectsHaveRounds, EngineAssumption DEF EngineAssumption
    <3>2. Nowhere(c) /\ Nowhere(c)'
      BY <3>1 DEF IInv, BornByNow, Nowhere
    <3>3. PlacesTell /\ PlacesTell'
      BY PlacesAreTold, PTL
    <3> QED
      BY <3>1, <3>2, <3>3 DEF PlacesTell
  <2> QED
    BY <2>2 DEF PlaceMap
<1>6. CASE UNCHANGED <<piles, round>>
  BY <1>6, PilesKept
<1>7. CASE \E p \in Player :
        \/ AddPlayer(p)
        \/ \E d \in Declarations : Declare(p, d)
        \/ \E s \in SuitRequests, r \in ReverseRequests : ChooseSuit(p, s, r)
  BY <1>6, <1>7 DEF AddPlayer, Declare, ChooseSuit
<1>8. CASE UNCHANGED vars
  BY <1>6, <1>8 DEF vars
<1> QED
  BY <1>2, <1>3, <1>4, <1>5, <1>7, <1>8, PlayTurns, DrawTurns DEF Next

(* At first no card has been made.                                         *)
LEMMA NothingMade == Init => Custody!Init
<1> SUFFICES ASSUME Init, NEW c \in UNION Batches PROVE PlaceOf(c) = Custody!Unmade
  BY DEF Custody!Init, Custody!Object
<1>1. c.gen \in Nat /\ ~(c.gen =< 0)
  BY ObjectsHaveRounds, EngineAssumption DEF EngineAssumption
<1>2. deck = {} /\ discard = {} /\ \A p \in Player : hand[p] = {}
  BY DEF Init
<1>3. round = 0
  BY DEF Init
<1> QED
  BY <1>1, <1>2, <1>3 DEF PlaceOf, Made, Custody!Unmade, Custody!In

THEOREM WhotEngineImplementsCustody == Spec => CardsInCustody
<1>1. Init => Custody!Init
  BY NothingMade
<1>2. IInv /\ IInv' /\ [Next]_vars => [Custody!Next]_([c \in UNION Batches |-> PlaceOf(c)])
  BY StepMoves DEF PlaceMap
<1> QED
  BY <1>1, <1>2, Invariance, PTL DEF Spec, CardsInCustody, Custody!Spec
=============================================================================
