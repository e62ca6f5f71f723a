--------------------------- MODULE MCWhotRecovery ---------------------------
(* Small instances of WhotRecovery.                                        *)
EXTENDS WhotRecovery, TLC

RecoverySymmetry == Permutations(Human)
=============================================================================
