------------------------------ MODULE ByteStream ------------------------------
(***************************************************************************)
(* What ReadFromRFBServer() (rfb/sockets.c) promises the code that reads   *)
(* the protocol: the bytes of the connection in their order, each of them  *)
(* once, as many as were asked for; or FALSE, after which nothing is read  *)
(* any more.  A byte is known by its position in the stream.               *)
(***************************************************************************)
EXTENDS Integers

VARIABLES next,      (* the position of the next byte to be handed out     *)
          asking,    (* a call is in progress, and for how many bytes      *)
          answer,    (* what the last call that returned TRUE handed out   *)
          failed     (* a call has returned FALSE                          *)

svars == <<next, asking, answer, failed>>

NotAsking == -1

SInit == next = 0 /\ asking = NotAsking /\ answer = <<>> /\ failed = FALSE

Ask ==
    /\ ~failed /\ asking = NotAsking
    /\ asking' \in Nat
    /\ answer' = <<>>
    /\ UNCHANGED <<next, failed>>

Answer ==
    /\ asking # NotAsking
    /\ answer' = [i \in 1 .. asking |-> next + i - 1]
    /\ next' = next + asking
    /\ asking' = NotAsking
    /\ UNCHANGED failed

Fail ==
    /\ asking # NotAsking
    /\ asking' = NotAsking /\ failed' = TRUE
    /\ UNCHANGED <<next, answer>>

SNext == Ask \/ Answer \/ Fail
SSpec == SInit /\ [][SNext]_svars
===============================================================================
