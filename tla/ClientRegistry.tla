---------------------------- MODULE ClientRegistry ----------------------------
(***************************************************************************)
(* What the Cemuhook server of dsu-server.c promises about its clients: a  *)
(* client that asks for the data feed is registered at the address it last *)
(* asked from; it is forgotten only after it has been silent for more than *)
(* Timeout seconds; and it is sent a packet only if the data differs from  *)
(* what it was sent last.                                                  *)
(***************************************************************************)
EXTENDS Naturals

CONSTANTS Client, Host, Packet, Timeout

VARIABLE reg    (* registered clients: age of the last request, address    *)
                (* and the data sent last                                  *)

Nothing == "nothing"

RInit == reg = [c \in {} |-> Nothing]

Asks(c, h) ==
    reg' = [d \in DOMAIN reg \cup {c} |->
               IF d # c THEN reg[d]
               ELSE [age |-> 0, addr |-> h,
                     old |-> IF c \in DOMAIN reg THEN reg[c].old ELSE Nothing]]

Forgets(c) ==
    /\ c \in DOMAIN reg
    /\ reg[c].age > Timeout
    /\ reg' = [d \in DOMAIN reg \ {c} |-> reg[d]]

Sends(c, p) ==
    /\ c \in DOMAIN reg
    /\ reg[c].age <= Timeout
    /\ p # reg[c].old
    /\ reg' = [reg EXCEPT ![c].old = p]

(* Time is told apart only up to the first second past the timeout.        *)
Older(a) == IF a > Timeout THEN a ELSE a + 1

Second == reg' = [c \in DOMAIN reg |-> [reg[c] EXCEPT !.age = Older(@)]]

RNext ==
    \/ \E c \in Client, h \in Host : Asks(c, h)
    \/ \E c \in Client : Forgets(c)
    \/ \E c \in Client, p \in Packet : Sends(c, p)
    \/ Second

RSpec == RInit /\ [][RNext]_reg
===============================================================================
