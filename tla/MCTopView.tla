-------------------------------- MODULE MCTopView --------------------------------
(* The instance TLC checks: a touch on the bottom screen puts the pointer   *)
(* past the end of the top screen's surface.                                *)
EXTENDS TopView
MCElsewhere == {7}
================================================================================
