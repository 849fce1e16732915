----------------------------- MODULE MCCapture -----------------------------
(***************************************************************************)
(* Instances of Capture for TLC.                                           *)
(***************************************************************************)
EXTENDS Capture

\* Emulation owns every board whole.
MCWhole == {[b \in Boards |-> "whole"]}

\* Emulation owns the bound keys of every board.
MCBound == {[b \in Boards |-> "bound"]}
============================================================================
