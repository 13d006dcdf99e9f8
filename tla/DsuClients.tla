------------------------------ MODULE DsuClients ------------------------------
(***************************************************************************)
(* The clients of the Cemuhook server (dsu-server.c): a doubly linked list *)
(* of heap nodes, extended by dsu_process_message() when a client asks for *)
(* the data feed, and walked by dsu_server_update() when a packet is due:  *)
(* a node silent for more than CLIENT_TIMEOUT seconds is unlinked and      *)
(* freed, any other is sent the packet unless it has it already.           *)
(* Everything runs in main()'s loop; the seconds of time() pass between    *)
(* any two steps.                                                          *)
(***************************************************************************)
EXTENDS Naturals, FiniteSets

CONSTANTS Client,          (* the ids clients choose                       *)
          Host,            (* the addresses they send from                 *)
          Packet,          (* the data of a packet, its number left out    *)
          Node,            (* heap addresses                               *)
          NULL,
          Slots,           (* the controller slots clients ask for         *)
          CLIENT_TIMEOUT   (* seconds                                      *)

ASSUME DsuAssumption ==
    /\ CLIENT_TIMEOUT \in Nat
    /\ NULL \notin Node \cup Packet
    /\ Slots \subseteq Nat /\ 0 \in Slots
    /\ IsFiniteSet(Node) /\ IsFiniteSet(Client)
    /\ Cardinality(Node) >= Cardinality(Client)     \* malloc() succeeds

VARIABLES
    node,                 (* the heap: a node or NULL at every address     *)
    cli_first, cli_last,  (* the ends of the list                          *)
    cur,                  (* `c` of the sending loop                       *)
    packet                (* what the loop sends, NULL between loops       *)

vars == <<node, cli_first, cli_last, cur, packet>>
list == <<node, cli_first, cli_last>>

Nothing == "nothing"      \* oldpacket of a new node, all zeroes
Entry == [id : Client, prev : Node \cup {NULL}, next : Node \cup {NULL},
          age : 0 .. CLIENT_TIMEOUT + 1, addr : Host,
          old : Packet \cup {Nothing}]
ASSUME NullAssumption == NULL \notin Entry
Live == {n \in Node : node[n] # NULL}

Init ==
    /\ node = [n \in Node |-> NULL]
    /\ cli_first = NULL /\ cli_last = NULL
    /\ cur = NULL /\ packet = NULL
------------------------------------------------------------------------------
(* dsu_process_message() for a request of the data feed.  regFlags says    *)
(* what idToReg means: 0 nothing, 1 a slot, 2 a MAC address follows.       *)
Dropped(regFlags, idToReg) ==
    \/ regFlags = 2
    \/ regFlags = 0 /\ idToReg # 0

(* The list is searched by the client's id ...                             *)
Known(c, h) == {n \in Live : node[n].id = c}

Refresh(n, h) ==
    /\ node' = [node EXCEPT ![n].age = 0, ![n].addr = h]
    /\ UNCHANGED <<cli_first, cli_last>>

(* ... and a client that is not in it is appended.                         *)
AppendNode(c, h) ==
    LET n == CHOOSE m \in Node : node[m] = NULL
        new == [id |-> c, prev |-> cli_last, next |-> NULL,
                age |-> 0, addr |-> h, old |-> Nothing]
        linked == IF cli_first = NULL THEN node
                  ELSE [node EXCEPT ![cli_last].next = n]
    IN  /\ node' = [linked EXCEPT ![n] = new]
        /\ cli_first' = IF cli_first = NULL THEN n ELSE cli_first
        /\ cli_last' = n

Receive(c, h, regFlags, idToReg) ==
    /\ packet = NULL
    /\ ~Dropped(regFlags, idToReg)
    /\ \/ \E n \in Known(c, h) : Refresh(n, h)
       \/ Known(c, h) = {} /\ AppendNode(c, h)
    /\ UNCHANGED <<cur, packet>>
------------------------------------------------------------------------------
(* The loop of dsu_server_update() that sends a packet to all clients.     *)

StartLoop(p) ==
    /\ packet = NULL
    /\ packet' = p
    /\ cur' = cli_first
    /\ UNCHANGED <<list>>

ExpiredEarly(n) == node[n].age >= CLIENT_TIMEOUT    \* plausible bug: off by one
NeverExpired(n) == FALSE                            \* plausible bug
Expired(n) == node[n].age > CLIENT_TIMEOUT

UnlinkedForwards(n) ==                      \* plausible bug: next->prev is kept
    [m \in Node |->
        CASE m = n -> NULL
          [] m = node[n].prev -> [node[m] EXCEPT !.next = node[n].next]
          [] OTHER -> node[m]]

Unlinked(n) ==
    [m \in Node |->
        CASE m = n -> NULL
          [] m = node[n].prev -> [node[m] EXCEPT !.next = node[n].next]
          [] m = node[n].next -> [node[m] EXCEPT !.prev = node[n].prev]
          [] OTHER -> node[m]]

DropAndSkip ==                              \* plausible bug: c moves on twice
    /\ packet # NULL
    /\ cur # NULL
    /\ Expired(cur)
    /\ cli_first' = IF cli_first = cur THEN node[cur].next ELSE cli_first
    /\ cli_last' = IF cli_last = cur THEN node[cur].prev ELSE cli_last
    /\ node' = Unlinked(cur)
    /\ cur' = IF node[cur].next = NULL THEN NULL ELSE node[node[cur].next].next
    /\ UNCHANGED <<packet>>

DropClient ==
    /\ packet # NULL
    /\ cur # NULL
    /\ Expired(cur)
    /\ cli_first' = IF cli_first = cur THEN node[cur].next ELSE cli_first
    /\ cli_last' = IF cli_last = cur THEN node[cur].prev ELSE cli_last
    /\ node' = Unlinked(cur)
    /\ cur' = node[cur].next
    /\ UNCHANGED <<packet>>

SendToClient ==
    /\ packet # NULL
    /\ cur # NULL
    /\ ~Expired(cur)
    /\ node' = [node EXCEPT ![cur].old = packet]
    /\ cur' = node[cur].next
    /\ UNCHANGED <<cli_first, cli_last, packet>>

EndLoop ==
    /\ packet # NULL
    /\ cur = NULL
    /\ packet' = NULL
    /\ UNCHANGED <<list, cur>>

(* The loop reads time() once, so no second passes while it runs.          *)
Older(a) == IF a > CLIENT_TIMEOUT THEN a ELSE a + 1

Second ==
    /\ packet = NULL
    /\ node' = [n \in Node |-> IF node[n] = NULL THEN NULL
                               ELSE [node[n] EXCEPT !.age = Older(@)]]
    /\ UNCHANGED <<cli_first, cli_last, cur, packet>>

Loop == DropClient \/ SendToClient \/ EndLoop

Next ==
    \/ \E c \in Client, h \in Host, regFlags \in 0 .. 2, idToReg \in Slots :
          Receive(c, h, regFlags, idToReg)
    \/ \E p \in Packet : StartLoop(p)
    \/ Loop
    \/ Second

(* main() keeps sampling and sending, and time passes; clients need do     *)
(* nothing.                                                                *)
Fairness ==
    /\ WF_vars(Loop)
    /\ SF_vars(\E p \in Packet : StartLoop(p))
    /\ SF_vars(Second)

Spec == Init /\ [][Next]_vars /\ Fairness
------------------------------------------------------------------------------
ListType ==
    /\ node \in [Node -> Entry \cup {NULL}]
    /\ cli_first \in Node \cup {NULL} /\ cli_last \in Node \cup {NULL}
    /\ cur \in Node \cup {NULL} /\ packet \in Packet \cup {NULL}

(* The k-th node from cli_first on, NULL past the end.                     *)
Walk[k \in 0 .. Cardinality(Node)] ==
    IF k = 0 THEN cli_first
    ELSE IF Walk[k - 1] = NULL THEN NULL ELSE node[Walk[k - 1]].next
Places == DOMAIN Walk

(* Read forwards from cli_first the list ends and passes every node that   *)
(* is not freed; read backwards it is the same list; no client is in it    *)
(* twice; and the loop stands at a node that is not freed.                 *)
Linked(n) ==
    /\ \/ node[n].next = NULL /\ cli_last = n
       \/ node[n].next \in Live /\ node[node[n].next].prev = n
    /\ \/ node[n].prev = NULL /\ cli_first = n
       \/ node[n].prev \in Live /\ node[node[n].prev].next = n

OnePerClient == \A m, n \in Live : node[m].id = node[n].id => m = n

ListOK ==
    /\ ListType
    /\ {Walk[k] : k \in Places} = Live \cup {NULL}
    /\ \A n \in Live : Linked(n)
    /\ Live = {} => cli_last = NULL
    /\ OnePerClient
    /\ cur \in Live \cup {NULL}

(* While it runs the loop leaves behind it only clients that are alive and *)
(* have the packet: removing a client skips no neighbour.                  *)
LoopCovers ==
    packet # NULL =>
        \A j \in Places :
            Walk[j] # NULL /\ (\A i \in 0 .. j : Walk[i] # cur) =>
                ~Expired(Walk[j]) /\ node[Walk[j]].old = packet

(* The list implements the registry of ClientRegistry.tla.                 *)
NodeOf(c) == CHOOSE n \in Live : node[n].id = c
Registered == {node[n].id : n \in Live}

RegistryOf ==
    [c \in Registered |->
        [age |-> node[NodeOf(c)].age, addr |-> node[NodeOf(c)].addr,
         old |-> node[NodeOf(c)].old]]

Registry == INSTANCE ClientRegistry WITH
    Timeout <- CLIENT_TIMEOUT, reg <- RegistryOf

ImplementsRegistry == Registry!RSpec

(* A client that stops asking is forgotten in the end: its node is freed.  *)
SilentForgotten ==
    \A c \in Client :
        c \in Registered ~>
            \/ c \notin Registered
            \/ \E n \in Live : node[n].id = c /\ node[n].age = 0
==============================================================================
