------------------------------- MODULE MCKeyInput -------------------------------
(* The default keymap cut down: A, a second letter, SELECT and START.      *)
(* SELECT is a shift button in one layer only, as a keymap file may say.   *)
EXTENDS KeyInput

MCUnshifted ==
    [b \in Button |-> CASE b = "A" -> "a" [] b = "L" -> "w"
                        [] b = "SELECT" -> "SHIFT" [] b = "START" -> "QMENU"]
MCShifted ==
    [b \in Button |-> CASE b = "A" -> "A" [] b = "L" -> "w"
                        [] b = "SELECT" -> "a" [] b = "START" -> "DISCONNECT"]
MCMenuCommand ==
    [b \in Button |-> CASE b = "A" -> "EVENTTARGET" [] b = "L" -> "KEYSTOVNC"
                        [] b = "SELECT" -> "OTHER" [] b = "START" -> "OTHER"]
===============================================================================
