---------------------------- MODULE CardCustody ----------------------------
(***************************************************************************)
(* What a game promises about its cards, whatever the rules of play: where *)
(* every card object is, and the ways it can move.  The cards of a batch   *)
(* (a round's deck) are made together, once.  From the deck a card goes to *)
(* a hand, from a hand to the discard pile, and from there it may come     *)
(* back when the pile is turned over - the whole pile, and only once the   *)
(* deck is used up.  A turn takes at most one card out of one hand, its    *)
(* player's; a leaver's cards go with him; what is lost stays lost.        *)
(* WhotEngine implements this specification.                               *)
(***************************************************************************)
CONSTANTS Player, Batches

VARIABLE place    \* where each card object is

Object == UNION Batches

In(where)  == [at |-> where,  of |-> {}]
HandOf(p)  == [at |-> "hand", of |-> {p}]

Unmade  == In("unmade")
Deck    == In("deck")
Discard == In("discard")
Lost    == In("lost")
Hands   == {HandOf(p) : p \in Player}

Place == {Unmade, Deck, Discard, Lost} \cup Hands

-----------------------------------------------------------------------------

Init == place = [c \in Object |-> Unmade]

\* The places a card that is at x may be after a turn of p.
TurnMoves(p, x) ==
    {x} \cup (CASE x = Deck      -> Hands
                [] x = Discard   -> {Deck, Lost} \cup Hands
                [] x = HandOf(p) -> {Discard, Lost}
                [] OTHER         -> {})

Leaves(c, x) == place[c] = x /\ place'[c] # x

Turn(p) ==
    /\ \A c \in Object : place'[c] \in TurnMoves(p, place[c])
    /\ \A c, d \in Object :
          Leaves(c, HandOf(p)) /\ Leaves(d, HandOf(p)) => c = d
    /\ (\E c \in Object : Leaves(c, Discard)) =>
          \A c \in Object : /\ place'[c] # Discard
                            /\ place[c] = Deck => place'[c] \in Hands

Leave(p) ==
    \A c \in Object :
        place'[c] = IF place[c] = HandOf(p) THEN Lost ELSE place[c]

\* A new round: the piles of the last one are lost, the hands are kept.
Round(b) ==
    \A c \in Object :
        IF c \in b
          THEN place[c] = Unmade /\ place'[c] \in {Deck, Lost} \cup Hands
          ELSE place'[c] = IF place[c] \in {Deck, Discard} THEN Lost ELSE place[c]

Next ==
    /\ place' \in [Object -> Place]
    /\ \/ \E p \in Player : Turn(p) \/ Leave(p)
       \/ \E b \in Batches : Round(b)

Spec == Init /\ [][Next]_place
=============================================================================
