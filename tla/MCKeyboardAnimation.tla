------------------------ MODULE MCKeyboardAnimation ------------------------
(* The instance TLC checks: the jobs are pairs of positions.                *)
EXTENDS KeyboardAnimation
MCJob == {0, Steps} \X {0, Steps}
=============================================================================
