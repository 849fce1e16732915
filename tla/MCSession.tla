----------------------------- MODULE MCSession -----------------------------
(* One bound board: it is there or it is not. *)
EXTENDS Session
CONSTANT a
=============================================================================
