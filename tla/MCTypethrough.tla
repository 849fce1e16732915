--------------------------- MODULE MCTypethrough ---------------------------
(***************************************************************************)
(* Instances of Typethrough for TLC.                                       *)
(***************************************************************************)
EXTENDS Typethrough, TLC

CONSTANT d1

\* A split that owns every key of board d1 and no key of any other board.
MCSplits == {[d \in Devices |-> IF d = d1 THEN Keys ELSE {}]}
=============================================================================
