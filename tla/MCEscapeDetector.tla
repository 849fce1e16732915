------------------------- MODULE MCEscapeDetector -------------------------
(***************************************************************************)
(* Instances of EscapeDetector for TLC.                                    *)
(***************************************************************************)
EXTENDS EscapeDetector, TLC

\* At most one board is away, or away and not forgotten, at a time.
OneAway == Cardinality(stale \cup (Keyboards \ attached)) <= 1

BoardSymmetry == Permutations(Keyboards)
===========================================================================
