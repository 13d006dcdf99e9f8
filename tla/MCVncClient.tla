----------------------------- MODULE MCVncClient -----------------------------
(* The instance TLC checks: what cannot be written in a cfg.  Two messages  *)
(* after a handshake of 3.8: nothing after it depends on the version.       *)
EXTENDS VncClient
MCTypeLists == { <<>>, <<"tight">>, <<"none">>, <<"ultra", "vnc">> }
MCStallTypes == { <<"none">> }
MCMaxMessages == [v \in Minors |-> IF v = 8 THEN 2 ELSE 0]
==============================================================================
