------------------------------ MODULE MCPadFeed ------------------------------
(* The C-Pad pushed to the left, hardly at all, and beyond its maximum.    *)
EXTENDS PadFeed

MCPosition == {-100, 19, 160}
=============================================================================
