------------------------------ MODULE MCConfigMenu ------------------------------
(* The instance TLC checks: one entry in use, with many settings of the     *)
(* switches, and a free one.                                                *)
EXTENDS ConfigMenu
MCNames == { <<"mine">> }
InUse(s) == [default_config EXCEPT !.host = "h1", !.name = <<Empty, "h1", DefaultPort>>,
                                   !.on = s]
SwitchSets == { {"ENABLEVNC2"}, {"ENABLEAUDIO", "CTRDSUENABLE"},
                {"CTRUDPENABLE", "EVENTTARGET"}, {"CTRUDPMOTION"}, Switches }
File(v, e) == [version |-> v, entries |-> [i \in Index |-> IF i = 1 THEN e ELSE default_config]]
MCFirstFiles ==
    { File("none", default_config), File("1.0", InUse({})) }
        \cup { File("now", InUse(s)) : s \in SwitchSets }
================================================================================
