------------------------ MODULE MCDriverTransaction ------------------------
(* Two identical boards and two transactions.                              *)
EXTENDS DriverTransaction, TLC

Symmetry == Permutations(Boards) \cup Permutations(Oems) \cup Permutations(Txs)
=============================================================================
