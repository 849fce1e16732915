---------------------------- MODULE MCPipeline -----------------------------
(* One board that drives two pads and starts a macro on the first: a wake  *)
(* moves one pad (the macro's deadline), both, or one of them twice.       *)
EXTENDS Pipeline, TLC

CONSTANT d1

MCFeeds == (d1 :> {1, 2})
=============================================================================
