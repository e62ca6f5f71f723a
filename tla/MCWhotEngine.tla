---------------------------- MODULE MCWhotEngine ----------------------------
(* Small instances of WhotEngine: decks of a few cards, chosen so that the *)
(* abilities, the matches and the reshuffles all happen.                   *)
EXTENDS WhotEngine, TLC

Plain(s, v) == [suit |-> s, value |-> v, copy |-> 1]
Whot(k)     == [suit |-> "WHOT", value |-> 20, copy |-> k]

\* General markets that run the deck out, an Eight, two Whots.
MarketDeck == {Plain("CIRCLE", 14), Plain("CROSS", 14), Plain("CIRCLE", 8),
               Plain("CIRCLE", 3), Whot(1), Whot(2)}

\* Rounds of a few plays, among them one that ends on a Hold On.
RoundsDeck == {Plain("CIRCLE", 1), Plain("CIRCLE", 3), Plain("CROSS", 3),
               Plain("CROSS", 2)}

PlayerSymmetry == Permutations(Player)
=============================================================================
