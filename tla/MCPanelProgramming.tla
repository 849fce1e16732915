------------------------- MODULE MCPanelProgramming -------------------------
(* PanelProgramming with charts of two packets.  Another tool writes either *)
(* of two charts, neither one terminal away from the other.                 *)
EXTENDS PanelProgramming

MCVendor == {<<0, 0>>, <<1, 1>>}
=============================================================================
