--------------------------- MODULE MCWhotSessions ---------------------------
(* Small instances of WhotSessions.                                        *)
EXTENDS WhotDocumentedSessions, TLC

ClientSymmetry == Permutations(Client)
=============================================================================
