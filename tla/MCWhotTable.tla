---------------------------- MODULE MCWhotTable -----------------------------
(* Small instances of WhotTable: a human and bots with a few cards.        *)
EXTENDS WhotTable

Plain(s, v) == [suit |-> s, value |-> v, copy |-> 1]
Whot(k)     == [suit |-> "WHOT", value |-> 20, copy |-> k]

\* Attacks and defences by suit and by number, a Hold On, a Whot: few enough
\* for two rounds.
AttackDeck == {Plain("CIRCLE", 2), Plain("CROSS", 2), Plain("CIRCLE", 5),
               Plain("CROSS", 1), Whot(1)}
=============================================================================
