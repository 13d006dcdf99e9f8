------------------------------- MODULE DsuProofs -------------------------------
(***************************************************************************)
(* Proofs about the server of DsuClients.tla, for any clients, addresses,  *)
(* packets and timeout: the heap always holds a list, the loop that sends  *)
(* a packet misses nobody whatever it removes, and the list implements the *)
(* registry of ClientRegistry.tla; and about what the packets say: the     *)
(* sampling of PadFeed.tla, for any buttons, interval and clock, and the   *)
(* scales of PadScale.tla.                                                 *)
(***************************************************************************)
EXTENDS DsuClients, PadFeed, NumberLemmas

(* The k-th node of a sequence s of len nodes; NULL before and after it.   *)
At(len, s, k) == IF k \in 1 .. len THEN s[k] ELSE NULL

(* The heap holds the sequence s, in order and each node once.             *)
Listing(len, s) ==
    /\ \A i, j \in 1 .. len : s[i] = s[j] => i = j
    /\ Live = {s[i] : i \in 1 .. len}
    /\ cli_first = At(len, s, 1) /\ cli_last = At(len, s, len)
    /\ \A i \in 1 .. len : /\ node[s[i]].next = At(len, s, i + 1)
                           /\ node[s[i]].prev = At(len, s, i - 1)

(* What the loop leaves behind it.                                         *)
Served(n) == node[n].age <= CLIENT_TIMEOUT /\ node[n].old = packet

(* Where the loop stands.                                                  *)
Standing(len, s) ==
    /\ packet = NULL => cur = NULL
    /\ packet # NULL =>
           \E k \in 1 .. len + 1 :
               cur = At(len, s, k) /\ \A i \in 1 .. k - 1 : Served(s[i])

ListInv ==
    \E len \in Nat : \E s \in [1 .. len -> Node] :
        Listing(len, s) /\ Standing(len, s)

DsuInv == ListType /\ OnePerClient /\ ListInv
------------------------------------------------------------------------------
(* What a node holds is an entry.                                          *)
LEMMA EntryOf ==
    ASSUME ListType, NEW n \in Live
    PROVE  n \in Node /\ node[n] \in Entry
  BY DEF ListType, Live

(* A step that leaves every node where it is and whose it is.              *)
Kept ==
    /\ node' \in [Node -> Entry \cup {NULL}]
    /\ Live' = Live
    /\ \A n \in Live : /\ node'[n].id = node[n].id
                       /\ node'[n].next = node[n].next
                       /\ node'[n].prev = node[n].prev
    /\ UNCHANGED <<cli_first, cli_last>>

(* Such a step keeps the sequence ...                                      *)
LEMMA KeptListing ==
    ASSUME Kept, NEW len \in Nat, NEW s \in [1 .. len -> Node], Listing(len, s)
    PROVE  Listing(len, s)'
  <1>1. \A i \in 1 .. len : s[i] \in Live
    BY DEF Listing
  <1>2. \A i \in 1 .. len : /\ node'[s[i]].next = At(len, s, i + 1)
                            /\ node'[s[i]].prev = At(len, s, i - 1)
    BY <1>1 DEF Kept, Listing
  <1>3. Live' = {s[i] : i \in 1 .. len}
    BY DEF Kept, Listing
  <1>4. cli_first' = At(len, s, 1) /\ cli_last' = At(len, s, len)
    BY DEF Kept, Listing
  <1>5. \A i, j \in 1 .. len : s[i] = s[j] => i = j
    BY DEF Listing
  <1> QED
    BY <1>2, <1>3, <1>4, <1>5 DEF Listing, At

(* ... and whose the nodes are.                                            *)
LEMMA KeptClients ==
    ASSUME Kept, OnePerClient
    PROVE  OnePerClient'
  BY DEF Kept, OnePerClient

(* An entry of another neighbour.                                          *)
LEMMA EntryLinked ==
    ASSUME NEW e \in Entry, NEW n \in Node \cup {NULL}
    PROVE  LET f == [e EXCEPT !.next = n]
               g == [e EXCEPT !.prev = n]
           IN  /\ f \in Entry /\ f.next = n
               /\ f.id = e.id /\ f.prev = e.prev
               /\ f.age = e.age /\ f.addr = e.addr /\ f.old = e.old
               /\ g \in Entry /\ g.prev = n
               /\ g.id = e.id /\ g.next = e.next
               /\ g.age = e.age /\ g.addr = e.addr /\ g.old = e.old
  BY DEF Entry
------------------------------------------------------------------------------
(* The steps that change no link.                                          *)
LEMMA RefreshKeeps ==
    ASSUME ListType, NEW n \in Live, NEW h \in Host, Refresh(n, h)
    PROVE  Kept /\ \A m \in Live : node'[m].old = node[m].old
  <1>1. n \in Node /\ node[n] \in Entry
    BY EntryOf
  <1>2. node' = [node EXCEPT ![n] = [node[n] EXCEPT !.age = 0, !.addr = h]]
    BY <1>1 DEF Refresh, ListType
  <1> DEFINE f == [node[n] EXCEPT !.age = 0, !.addr = h]
  <1>3. /\ f \in Entry /\ f.id = node[n].id /\ f.old = node[n].old
        /\ f.next = node[n].next /\ f.prev = node[n].prev
    <2>1. 0 \in 0 .. CLIENT_TIMEOUT + 1
      BY DsuAssumption
    <2> QED
      BY <1>1, <2>1 DEF Entry
  <1> HIDE DEF f
  <1>4. node' = [node EXCEPT ![n] = f]
    BY <1>2 DEF f
  <1>5. /\ node' \in [Node -> Entry \cup {NULL}]
        /\ \A m \in Node : node'[m] = IF m = n THEN f ELSE node[m]
    BY <1>1, <1>3, <1>4 DEF ListType
  <1>6. Live' = Live
    BY <1>1, <1>3, <1>5, NullAssumption DEF Live
  <1>7. \A m \in Live : /\ node'[m].id = node[m].id
                        /\ node'[m].next = node[m].next
                        /\ node'[m].prev = node[m].prev
                        /\ node'[m].old = node[m].old
    BY <1>3, <1>5, EntryOf
  <1> QED
    BY <1>5, <1>6, <1>7 DEF Kept, Refresh

(* The one the packet is sent to, and only that one, has it now.           *)
LEMMA SendKeeps ==
    ASSUME ListType, cur \in Live, SendToClient
    PROVE  /\ Kept
           /\ \A m \in Live : /\ node'[m].age = node[m].age
                              /\ node'[m].addr = node[m].addr
                              /\ node'[m].old = IF m = cur THEN packet ELSE node[m].old
  <1>1. cur \in Node /\ node[cur] \in Entry /\ packet \in Packet
    BY EntryOf DEF ListType, SendToClient
  <1> DEFINE f == [node[cur] EXCEPT !.old = packet]
  <1>2. node' = [node EXCEPT ![cur] = f]
    BY <1>1 DEF SendToClient, ListType
  <1>3. /\ f \in Entry /\ f.id = node[cur].id /\ f.old = packet
        /\ f.next = node[cur].next /\ f.prev = node[cur].prev
        /\ f.age = node[cur].age /\ f.addr = node[cur].addr
    BY <1>1 DEF Entry
  <1> HIDE DEF f
  <1>4. /\ node' \in [Node -> Entry \cup {NULL}]
        /\ \A m \in Node : node'[m] = IF m = cur THEN f ELSE node[m]
    BY <1>1, <1>2, <1>3 DEF ListType
  <1>5. Live' = Live
    BY <1>1, <1>3, <1>4, NullAssumption DEF Live
  <1>6. \A m \in Live : /\ node'[m].id = node[m].id
                        /\ node'[m].next = node[m].next
                        /\ node'[m].prev = node[m].prev
                        /\ node'[m].age = node[m].age
                        /\ node'[m].addr = node[m].addr
                        /\ node'[m].old = IF m = cur THEN packet ELSE node[m].old
    BY <1>3, <1>4, EntryOf
  <1> QED
    BY <1>4, <1>5, <1>6 DEF Kept, SendToClient

(* Every node ages.                                                        *)
LEMMA SecondKeeps ==
    ASSUME ListType, Second
    PROVE  /\ Kept
           /\ \A m \in Live : node'[m] = [node[m] EXCEPT !.age = Older(@)]
  <1>1. \A m \in Node : node'[m] = IF node[m] = NULL THEN NULL
                                   ELSE [node[m] EXCEPT !.age = Older(@)]
    BY DEF Second
  <1>2. ASSUME NEW m \in Live
        PROVE  /\ node'[m] = [node[m] EXCEPT !.age = Older(@)]
               /\ node'[m] \in Entry
               /\ node'[m].id = node[m].id
               /\ node'[m].next = node[m].next
               /\ node'[m].prev = node[m].prev
    <2>1. m \in Node /\ node[m] \in Entry /\ node[m] # NULL
      BY EntryOf DEF Live
    <2>2. node[m].age \in 0 .. CLIENT_TIMEOUT + 1
      BY <2>1 DEF Entry
    <2>3. Older(node[m].age) \in 0 .. CLIENT_TIMEOUT + 1
      BY <2>2, DsuAssumption DEF Older
    <2>4. node'[m] = [node[m] EXCEPT !.age = Older(node[m].age)]
      BY <1>1, <2>1
    <2> QED
      BY <2>1, <2>3, <2>4 DEF Entry
  <1>3. \A m \in Node : m \notin Live => node'[m] = NULL
    BY <1>1 DEF Live
  <1>4. \A m \in Node : node'[m] \in Entry \cup {NULL}
    BY <1>2, <1>3
  <1>5. node' \in [Node -> Entry \cup {NULL}]
    BY <1>4 DEF Second
  <1>6. Live' = Live
    BY <1>2, <1>3, NullAssumption DEF Live
  <1> QED
    BY <1>2, <1>5, <1>6 DEF Kept, Second
------------------------------------------------------------------------------
(* A request of a client that is in the list.                              *)
LEMMA RefreshInv ==
    ASSUME ListType, OnePerClient, NEW len \in Nat, NEW s \in [1 .. len -> Node],
           Listing(len, s), Standing(len, s),
           NEW n \in Live, NEW h \in Host, Refresh(n, h),
           packet = NULL, UNCHANGED <<cur, packet>>
    PROVE  OnePerClient' /\ ListInv'
  <1>1. Kept
    BY RefreshKeeps
  <1>2. Listing(len, s)'
    BY <1>1, KeptListing
  <1>3. Standing(len, s)'
    BY DEF Standing
  <1>4. OnePerClient'
    BY <1>1, KeptClients
  <1> QED
    BY <1>2, <1>3, <1>4 DEF ListInv

(* The loop starts at the first node and has nobody behind it.             *)
LEMMA StartInv ==
    ASSUME ListType, OnePerClient, NEW len \in Nat, NEW s \in [1 .. len -> Node],
           Listing(len, s), Standing(len, s),
           NEW p \in Packet, StartLoop(p)
    PROVE  OnePerClient' /\ ListInv'
  <1>1. UNCHANGED <<node, cli_first, cli_last>> /\ cur' = cli_first /\ packet' = p
    BY DEF StartLoop, list
  <1>2. Listing(len, s)'
    BY <1>1 DEF Listing, Live, At
  <1>3. OnePerClient'
    BY <1>1 DEF OnePerClient, Live
  <1>4. packet' # NULL /\ cur' = At(len, s, 1) /\ 1 \in 1 .. len + 1
    BY <1>1, DsuAssumption DEF Listing
  <1>5. Standing(len, s)'
    BY <1>4 DEF Standing, At
  <1> QED
    BY <1>2, <1>3, <1>5 DEF ListInv

(* A client is sent the packet, and the loop moves on.                     *)
LEMMA SendInv ==
    ASSUME ListType, OnePerClient, NEW len \in Nat, NEW s \in [1 .. len -> Node],
           Listing(len, s), Standing(len, s),
           cur \in Live, SendToClient
    PROVE  OnePerClient' /\ ListInv'
  <1>1. /\ Kept
        /\ \A m \in Live : /\ node'[m].age = node[m].age
                           /\ node'[m].old = IF m = cur THEN packet ELSE node[m].old
    BY SendKeeps
  <1>2. Listing(len, s)'
    BY <1>1, KeptListing
  <1>3. OnePerClient'
    BY <1>1, KeptClients
  <1>4. PICK k \in 1 .. len + 1 :
            cur = At(len, s, k) /\ \A i \in 1 .. k - 1 : Served(s[i])
    BY DEF SendToClient, Standing
  <1>5. k \in 1 .. len /\ cur = s[k]
    BY <1>4 DEF SendToClient, At
  <1>6. k + 1 \in 1 .. len + 1 /\ cur' = At(len, s, k + 1)
    BY <1>5 DEF SendToClient, Listing
  <1>7. packet' = packet /\ packet # NULL
    BY DEF SendToClient
  <1>8. ASSUME NEW i \in 1 .. k
        PROVE  Served(s[i])'
    <2>1. s[i] \in Live
      BY <1>5 DEF Listing
    <2>2. CASE i = k
      <3>1. node[cur].age \in 0 .. CLIENT_TIMEOUT + 1
        BY EntryOf DEF Entry
      <3>2. node[cur].age <= CLIENT_TIMEOUT
        BY <3>1, DsuAssumption DEF SendToClient, Expired
      <3> QED
        BY <1>1, <1>5, <1>7, <2>1, <2>2, <3>2 DEF Served
    <2>3. CASE i # k
      <3>1. i \in 1 .. k - 1 /\ s[i] # cur
        BY <1>5, <2>3 DEF Listing
      <3> QED
        BY <1>1, <1>4, <1>7, <2>1, <3>1 DEF Served
    <2> QED
      BY <2>2, <2>3
  <1>9. Standing(len, s)'
    <2>1. (k + 1) - 1 = k
      BY <1>5
    <2> QED
      BY <1>6, <1>7, <1>8, <2>1 DEF Standing, At
  <1> QED
    BY <1>2, <1>3, <1>9 DEF ListInv

(* The loop ends.                                                          *)
LEMMA EndInv ==
    ASSUME ListType, OnePerClient, NEW len \in Nat, NEW s \in [1 .. len -> Node],
           Listing(len, s), Standing(len, s),
           EndLoop
    PROVE  OnePerClient' /\ ListInv'
  <1>1. Listing(len, s)'
    BY DEF Listing, Live, At, EndLoop, list
  <1>2. OnePerClient'
    BY DEF OnePerClient, Live, EndLoop, list
  <1>3. Standing(len, s)'
    BY DEF Standing, EndLoop
  <1> QED
    BY <1>1, <1>2, <1>3 DEF ListInv

(* A second passes between two loops.                                      *)
LEMMA SecondInv ==
    ASSUME ListType, OnePerClient, NEW len \in Nat, NEW s \in [1 .. len -> Node],
           Listing(len, s), Standing(len, s),
           Second
    PROVE  OnePerClient' /\ ListInv'
  <1>1. Kept
    BY SecondKeeps
  <1>2. Listing(len, s)'
    BY <1>1, KeptListing
  <1>3. OnePerClient'
    BY <1>1, KeptClients
  <1>4. Standing(len, s)'
    BY DEF Standing, Second
  <1> QED
    BY <1>2, <1>3, <1>4 DEF ListInv
------------------------------------------------------------------------------
(* There is room for a client that is not in the list.                     *)
LEMMA RoomForOne ==
    ASSUME ListType, OnePerClient, NEW c \in Client, NEW h \in Host, Known(c, h) = {}
    PROVE  \E m \in Node : node[m] = NULL
  <1> SUFFICES ASSUME Live = Node
               PROVE  FALSE
    BY DEF Live
  <1> DEFINE f == [m \in Node |-> node[m].id]
  <1>1. \A m \in Node : node[m].id \in Client \ {c}
    BY EntryOf DEF Known, Entry
  <1>2. f \in Injection(Node, Client \ {c})
    <2>1. f \in [Node -> Client \ {c}]
      BY <1>1
    <2>2. \A m, k \in Node : f[m] = f[k] => m = k
      BY DEF OnePerClient
    <2> QED
      BY <2>1, <2>2, Zenon DEF Injection, IsInjective
  <1> HIDE DEF f
  <1>3. /\ IsFiniteSet(Client \ {c})
        /\ Cardinality(Client \ {c}) = Cardinality(Client) - 1
    BY FS_RemoveElement, DsuAssumption
  <1>4. Cardinality(Node) <= Cardinality(Client) - 1
    BY <1>2, <1>3, FS_Injection
  <1>5. Cardinality(Client) \in Nat /\ Cardinality(Node) \in Nat
    BY FS_CardinalityType, DsuAssumption
  <1> QED
    BY <1>4, <1>5, DsuAssumption

(* What the heap is after a client was appended at the address n.          *)
LEMMA AppendHeap ==
    ASSUME ListType, OnePerClient, NEW len \in Nat, NEW s \in [1 .. len -> Node],
           Listing(len, s),
           NEW c \in Client, NEW h \in Host, Known(c, h) = {}, AppendNode(c, h)
    PROVE  \E n \in Node :
              /\ node[n] = NULL
              /\ node' \in [Node -> Entry \cup {NULL}]
              /\ node'[n].id = c /\ node'[n].age = 0 /\ node'[n].addr = h
              /\ node'[n].old = Nothing /\ node'[n].next = NULL
              /\ node'[n].prev = At(len, s, len)
              /\ \A m \in Live :
                    /\ node'[m] \in Entry
                    /\ node'[m].next = IF len # 0 /\ m = At(len, s, len)
                                       THEN n ELSE node[m].next
                    /\ node'[m].id = node[m].id /\ node'[m].prev = node[m].prev
                    /\ node'[m].age = node[m].age /\ node'[m].addr = node[m].addr
                    /\ node'[m].old = node[m].old
              /\ Live' = Live \cup {n}
              /\ cli_first' = IF len = 0 THEN n ELSE cli_first
              /\ cli_last' = n
  <1> DEFINE n == CHOOSE m \in Node : node[m] = NULL
             last == At(len, s, len)
             new == [id |-> c, prev |-> cli_last, next |-> NULL,
                     age |-> 0, addr |-> h, old |-> Nothing]
             to == [node[cli_last] EXCEPT !.next = n]
  <1>1. n \in Node /\ node[n] = NULL
    BY RoomForOne
  <1>2. new \in Entry
    BY DsuAssumption DEF Entry, ListType
  <1>3. cli_last = last /\ (cli_first = NULL <=> len = 0)
    BY DsuAssumption DEF Listing, At
  <1>4. len # 0 => last \in Live /\ last # n
    BY <1>1 DEF Listing, At, Live
  <1>5. \A m \in Live : m # n
    BY <1>1 DEF Live
  <1>6. len # 0 => /\ to \in Entry /\ to.next = n /\ to.id = node[last].id
                   /\ to.prev = node[last].prev /\ to.age = node[last].age
                   /\ to.addr = node[last].addr /\ to.old = node[last].old
    <2> SUFFICES ASSUME len # 0
                 PROVE  /\ to \in Entry /\ to.next = n /\ to.id = node[last].id
                        /\ to.prev = node[last].prev /\ to.age = node[last].age
                        /\ to.addr = node[last].addr /\ to.old = node[last].old
      OBVIOUS
    <2>1. node[last] \in Entry /\ n \in Node \cup {NULL}
      BY <1>1, <1>4, EntryOf
    <2>2. to = [node[last] EXCEPT !.next = n]
      BY <1>3
    <2> HIDE DEF n, last, to
    <2> QED
      BY <2>1, <2>2, EntryLinked
  <1>7. /\ node' = IF len = 0 THEN [node EXCEPT ![n] = new]
                   ELSE [node EXCEPT ![last] = to, ![n] = new]
        /\ cli_first' = IF len = 0 THEN n ELSE cli_first
        /\ cli_last' = n
    <2>1. /\ node' = [(IF cli_first = NULL THEN node
                        ELSE [node EXCEPT ![cli_last].next = n]) EXCEPT ![n] = new]
          /\ cli_first' = IF cli_first = NULL THEN n ELSE cli_first
          /\ cli_last' = n
      BY Zenon DEF AppendNode
    <2>2. [node EXCEPT ![cli_last].next = n] = [node EXCEPT ![cli_last] = to]
      OBVIOUS
    <2> HIDE DEF n, last, new, to
    <2> QED
      BY <1>3, <2>1, <2>2
  <1> HIDE DEF n, last, new, to
  <1>8. \A m \in Node : node'[m] = IF m = n THEN new
                                   ELSE IF len # 0 /\ m = last THEN to ELSE node[m]
    BY <1>1, <1>4, <1>7 DEF ListType
  <1>9. node' \in [Node -> Entry \cup {NULL}]
    BY <1>1, <1>2, <1>4, <1>6, <1>7 DEF ListType
  <1>10. Live' = Live \cup {n}
    BY <1>1, <1>2, <1>4, <1>6, <1>8, NullAssumption DEF Live
  <1>11. ASSUME NEW m \in Live
         PROVE  /\ node'[m] \in Entry
                /\ node'[m].next = IF len # 0 /\ m = last THEN n ELSE node[m].next
                /\ node'[m].id = node[m].id /\ node'[m].prev = node[m].prev
                /\ node'[m].age = node[m].age /\ node'[m].addr = node[m].addr
                /\ node'[m].old = node[m].old
    <2>1. m \in Node /\ node[m] \in Entry /\ m # n
      BY <1>5, EntryOf
    <2>2. node'[m] = IF len # 0 /\ m = last THEN to ELSE node[m]
      BY <1>8, <2>1
    <2> QED
      BY <1>6, <2>1, <2>2
  <1>12. /\ node'[n].id = c /\ node'[n].age = 0 /\ node'[n].addr = h
         /\ node'[n].old = Nothing /\ node'[n].next = NULL
         /\ node'[n].prev = last
    BY <1>1, <1>3, <1>8 DEF new
  <1>13. /\ cli_first' = IF len = 0 THEN n ELSE cli_first
         /\ cli_last' = n
    BY <1>7
  <1> QED
    BY <1>1, <1>9, <1>10, <1>11, <1>12, <1>13 DEF last

(* A request of a client that is not in the list.                          *)
LEMMA AppendInv ==
    ASSUME ListType, OnePerClient, NEW len \in Nat, NEW s \in [1 .. len -> Node],
           Listing(len, s), Standing(len, s),
           NEW c \in Client, NEW h \in Host, Known(c, h) = {}, AppendNode(c, h),
           packet = NULL, UNCHANGED <<cur, packet>>
    PROVE  OnePerClient' /\ ListInv'
  <1> DEFINE last == At(len, s, len)
  <1>1. PICK n \in Node :
              /\ node[n] = NULL
              /\ node'[n].id = c /\ node'[n].prev = last /\ node'[n].next = NULL
              /\ \A m \in Live :
                    /\ node'[m].next = IF len # 0 /\ m = last THEN n ELSE node[m].next
                    /\ node'[m].id = node[m].id /\ node'[m].prev = node[m].prev
              /\ Live' = Live \cup {n}
              /\ cli_first' = IF len = 0 THEN n ELSE cli_first
              /\ cli_last' = n
    BY AppendHeap
  <1> HIDE DEF last
  <1>2. \A i \in 1 .. len : s[i] \in Live /\ s[i] # n
    BY <1>1 DEF Listing, Live
  <1>3. OnePerClient'
    <2>1. \A m \in Live : node[m].id # c
      BY DEF Known
    <2> QED
      BY <1>1, <2>1 DEF OnePerClient
  <1> DEFINE t == [i \in 1 .. len + 1 |-> IF i = len + 1 THEN n ELSE s[i]]
  <1>4. t \in [1 .. len + 1 -> Node]
    OBVIOUS
  <1>5. \A i \in 1 .. len : t[i] = s[i]
    OBVIOUS
  <1>6. t[len + 1] = n
    OBVIOUS
  <1> HIDE DEF t
  <1>7. \A i, j \in 1 .. len + 1 : t[i] = t[j] => i = j
    BY <1>2, <1>5, <1>6 DEF Listing
  <1>8. Live' = {t[i] : i \in 1 .. len + 1}
    BY <1>1, <1>5, <1>6 DEF Listing
  <1>9. cli_first' = At(len + 1, t, 1) /\ cli_last' = At(len + 1, t, len + 1)
    BY <1>1, <1>5, <1>6 DEF Listing, At
  <1>10. ASSUME NEW i \in 1 .. len + 1
         PROVE  /\ node'[t[i]].next = At(len + 1, t, i + 1)
                /\ node'[t[i]].prev = At(len + 1, t, i - 1)
    <2>1. CASE i = len + 1
      BY <1>1, <1>5, <1>6, <2>1 DEF At, last
    <2>2. CASE i # len + 1
      <3>1. i \in 1 .. len /\ t[i] = s[i] /\ s[i] \in Live
        BY <1>2, <1>5, <2>2
      <3>2. node'[s[i]].prev = At(len + 1, t, i - 1)
        BY <1>1, <1>5, <3>1 DEF Listing, At
      <3>3. s[i] = last <=> i = len
        BY <3>1 DEF last, Listing, At
      <3>4. node'[s[i]].next = At(len + 1, t, i + 1)
        BY <1>1, <1>5, <1>6, <3>1, <3>3 DEF Listing, At
      <3> QED
        BY <3>1, <3>2, <3>4
    <2> QED
      BY <2>1, <2>2
  <1>11. Listing(len + 1, t)'
    BY <1>7, <1>8, <1>9, <1>10 DEF Listing, At
  <1>12. Standing(len + 1, t)'
    BY DEF Standing
  <1>13. len + 1 \in Nat
    OBVIOUS
  <1> QED
    BY <1>3, <1>4, <1>11, <1>12, <1>13 DEF ListInv
------------------------------------------------------------------------------
(* What the heap is after the k-th node was unlinked and freed.            *)
LEMMA DropHeap ==
    ASSUME ListType, NEW len \in Nat, NEW s \in [1 .. len -> Node], Listing(len, s),
           NEW k \in 1 .. len, cur = s[k], DropClient
    PROVE  /\ cur \in Live /\ node' \in [Node -> Entry \cup {NULL}]
           /\ Live' = Live \ {cur}
           /\ \A m \in Live \ {cur} :
                 /\ node'[m].next = IF m = At(len, s, k - 1) THEN At(len, s, k + 1)
                                    ELSE node[m].next
                 /\ node'[m].prev = IF m = At(len, s, k + 1) THEN At(len, s, k - 1)
                                    ELSE node[m].prev
                 /\ node'[m].id = node[m].id
                 /\ node'[m].age = node[m].age /\ node'[m].addr = node[m].addr
                 /\ node'[m].old = node[m].old
           /\ cli_first' = IF k = 1 THEN At(len, s, 2) ELSE cli_first
           /\ cli_last' = IF k = len THEN At(len, s, len - 1) ELSE cli_last
           /\ cur' = At(len, s, k + 1)
           /\ packet # NULL /\ UNCHANGED packet
  <1> DEFINE p == At(len, s, k - 1)
             q == At(len, s, k + 1)
  <1>1. cur \in Live /\ cur \in Node /\ cur # NULL
    BY DsuAssumption DEF Listing, Live
  <1>2. node[cur].next = q /\ node[cur].prev = p
    BY DEF Listing
  <1>3. p \in Node \cup {NULL} /\ q \in Node \cup {NULL}
    BY DEF At
  <1>4. p # cur /\ q # cur
    BY <1>1 DEF At, Listing
  <1>5. p = q => p = NULL
    BY DEF At, Listing
  <1>6. (p # NULL => p \in Live) /\ (q # NULL => q \in Live)
    BY DEF At, Listing
  <1>7. /\ cli_first' = IF k = 1 THEN q ELSE cli_first
        /\ cli_last' = IF k = len THEN p ELSE cli_last
    <2>1. (cli_first = cur <=> k = 1) /\ (cli_last = cur <=> k = len)
      BY DEF Listing, At
    <2> QED
      BY <1>2, <2>1 DEF DropClient
  <1>8. cur' = q /\ packet # NULL /\ packet' = packet
    BY <1>2 DEF DropClient
  <1>9. node' = [m \in Node |->
            CASE m = cur -> NULL
              [] m = p -> [node[m] EXCEPT !.next = q]
              [] m = q -> [node[m] EXCEPT !.prev = p]
              [] OTHER -> node[m]]
    <2>1. node' = Unlinked(cur)
      BY DEF DropClient
    <2> HIDE DEF p, q
    <2> QED
      BY <1>2, <2>1 DEF Unlinked
  <1> HIDE DEF p, q
  <1>10. node'[cur] = NULL
    BY <1>1, <1>4, <1>9
  <1>11. \A m \in Node : m \notin {cur, p, q} => node'[m] = node[m]
    BY <1>9
  <1>12. p # NULL => node'[p] = [node[p] EXCEPT !.next = q]
    BY <1>3, <1>4, <1>5, <1>9
  <1>13. q # NULL => node'[q] = [node[q] EXCEPT !.prev = p]
    BY <1>3, <1>4, <1>5, <1>9
  <1>14. ASSUME NEW m \in Live \ {cur}
         PROVE  /\ m \in Node /\ node'[m] \in Entry
                /\ node'[m].next = IF m = p THEN q ELSE node[m].next
                /\ node'[m].prev = IF m = q THEN p ELSE node[m].prev
                /\ node'[m].id = node[m].id
                /\ node'[m].age = node[m].age /\ node'[m].addr = node[m].addr
                /\ node'[m].old = node[m].old
    <2>1. m \in Node /\ node[m] \in Entry /\ m # NULL
      BY EntryOf, DsuAssumption
    <2>2. CASE m = p
      <3>1. node'[m] = [node[m] EXCEPT !.next = q] /\ m # q
        BY <1>5, <1>12, <2>1, <2>2
      <3>2. LET f == [node[m] EXCEPT !.next = q]
            IN  /\ f \in Entry /\ f.next = q /\ f.prev = node[m].prev
                /\ f.id = node[m].id /\ f.age = node[m].age
                /\ f.addr = node[m].addr /\ f.old = node[m].old
        BY <1>3, <2>1, EntryLinked
      <3> QED
        BY <2>1, <2>2, <3>1, <3>2
    <2>3. CASE m = q
      <3>1. node'[m] = [node[m] EXCEPT !.prev = p] /\ m # p
        BY <1>5, <1>13, <2>1, <2>3
      <3>2. LET f == [node[m] EXCEPT !.prev = p]
            IN  /\ f \in Entry /\ f.prev = p /\ f.next = node[m].next
                /\ f.id = node[m].id /\ f.age = node[m].age
                /\ f.addr = node[m].addr /\ f.old = node[m].old
        BY <1>3, <2>1, EntryLinked
      <3> QED
        BY <2>1, <2>3, <3>1, <3>2
    <2>4. CASE m \notin {p, q}
      BY <1>11, <2>1, <2>4
    <2> QED
      BY <2>2, <2>3, <2>4
  <1>15. \A m \in Node : m \notin Live => node'[m] = NULL
    BY <1>1, <1>6, <1>11, DsuAssumption DEF Live
  <1>16. node' \in [Node -> Entry \cup {NULL}]
    <2>1. \A m \in Node : node'[m] \in Entry \cup {NULL}
      BY <1>10, <1>14, <1>15
    <2> QED
      BY <1>9, <2>1
  <1>17. Live' = Live \ {cur}
    BY <1>10, <1>14, <1>15, NullAssumption DEF Live
  <1> QED
    BY <1>1, <1>7, <1>8, <1>14, <1>16, <1>17 DEF p, q

(* A client that has been silent for too long: the node behind it takes    *)
(* its place, and the loop goes on there.                                  *)
LEMMA DropInv ==
    ASSUME ListType, OnePerClient, NEW len \in Nat, NEW s \in [1 .. len -> Node],
           Listing(len, s), Standing(len, s), DropClient
    PROVE  OnePerClient' /\ ListInv'
  <1>1. PICK k \in 1 .. len + 1 :
            cur = At(len, s, k) /\ \A i \in 1 .. k - 1 : Served(s[i])
    BY DEF DropClient, Standing
  <1>2. k \in 1 .. len /\ cur = s[k]
    BY <1>1 DEF DropClient, At
  <1> DEFINE p == At(len, s, k - 1)
             q == At(len, s, k + 1)
  <1>3. /\ Live' = Live \ {cur}
        /\ \A m \in Live \ {cur} :
              /\ node'[m].next = IF m = p THEN q ELSE node[m].next
              /\ node'[m].prev = IF m = q THEN p ELSE node[m].prev
              /\ node'[m].id = node[m].id
              /\ node'[m].age = node[m].age
              /\ node'[m].old = node[m].old
        /\ cli_first' = IF k = 1 THEN At(len, s, 2) ELSE cli_first
        /\ cli_last' = IF k = len THEN At(len, s, len - 1) ELSE cli_last
        /\ cur' = q
        /\ packet # NULL /\ UNCHANGED packet
    BY <1>2, DropHeap
  <1>4. OnePerClient'
    BY <1>3 DEF OnePerClient
  <1> DEFINE t == [i \in 1 .. len - 1 |-> IF i < k THEN s[i] ELSE s[i + 1]]
  <1>5. t \in [1 .. len - 1 -> Node] /\ len - 1 \in Nat
    BY <1>2
  <1>6. \A i \in 1 .. len - 1 : t[i] = IF i < k THEN s[i] ELSE s[i + 1]
    OBVIOUS
  <1> HIDE DEF t, p, q
  <1>7. \A i, j \in 1 .. len - 1 : t[i] = t[j] => i = j
    <2> DEFINE u(i) == IF i < k THEN i ELSE i + 1
    <2>1. \A i \in 1 .. len - 1 : u(i) \in 1 .. len /\ t[i] = s[u(i)]
      BY <1>2, <1>6
    <2>2. \A i, j \in 1 .. len - 1 : u(i) = u(j) => i = j
      BY <1>2
    <2> HIDE DEF u
    <2> QED
      BY <2>1, <2>2 DEF Listing
  <1>8. \A i \in 1 .. len : i # k => s[i] \in Live \ {cur}
    BY <1>2 DEF Listing
  <1>9. \A i \in 1 .. len - 1 : t[i] \in Live \ {cur}
    BY <1>2, <1>6, <1>8
  <1>10. Live' = {t[i] : i \in 1 .. len - 1}
    <2>1. ASSUME NEW m \in Live \ {cur}
          PROVE  \E i \in 1 .. len - 1 : m = t[i]
      <3>1. PICK j \in 1 .. len : m = s[j] /\ j # k
        BY <1>2 DEF Listing
      <3>2. CASE j < k
        BY <1>2, <1>6, <3>1, <3>2
      <3>3. CASE j > k
        <4>1. j - 1 \in 1 .. len - 1 /\ t[j - 1] = s[j]
          BY <1>2, <1>6, <3>3
        <4> QED
          BY <3>1, <4>1
      <3> QED
        BY <1>2, <3>1, <3>2, <3>3
    <2> QED
      BY <1>3, <1>9, <2>1
  <1>11. /\ cli_first' = At(len - 1, t, 1)
         /\ cli_last' = At(len - 1, t, len - 1)
    BY <1>2, <1>3, <1>6 DEF Listing, At
  <1>12. ASSUME NEW i \in 1 .. len - 1
         PROVE  /\ node'[t[i]].next = At(len - 1, t, i + 1)
                /\ node'[t[i]].prev = At(len - 1, t, i - 1)
    <2>1. CASE i < k
      <3>1. i \in 1 .. len /\ i # k /\ t[i] = s[i] /\ s[i] \in Live \ {cur}
        BY <1>2, <1>6, <1>8, <2>1
      <3>2. (s[i] = p <=> i = k - 1) /\ s[i] # q
        BY <1>2, <2>1, <3>1, DsuAssumption DEF p, q, At, Listing
      <3>3. node'[s[i]].next = IF i = k - 1 THEN q ELSE At(len, s, i + 1)
        BY <1>3, <3>1, <3>2 DEF Listing
      <3>4. node'[s[i]].prev = At(len, s, i - 1)
        BY <1>3, <3>1, <3>2 DEF Listing
      <3>5. At(len - 1, t, i - 1) = At(len, s, i - 1)
        BY <1>2, <1>6, <2>1 DEF At
      <3>6. At(len - 1, t, i + 1) = IF i = k - 1 THEN q ELSE At(len, s, i + 1)
        BY <1>2, <1>6, <2>1 DEF At, q
      <3> QED
        BY <3>1, <3>3, <3>4, <3>5, <3>6
    <2>2. CASE i >= k
      <3>1. i + 1 \in 1 .. len /\ i + 1 # k /\ t[i] = s[i + 1] /\ s[i + 1] \in Live \ {cur}
        BY <1>2, <1>6, <1>8, <2>2
      <3>2. (s[i + 1] = q <=> i = k) /\ s[i + 1] # p
        BY <1>2, <2>2, <3>1, DsuAssumption DEF p, q, At, Listing
      <3>3. node'[s[i + 1]].prev = IF i = k THEN p ELSE At(len, s, i)
        BY <1>3, <3>1, <3>2 DEF Listing
      <3>4. node'[s[i + 1]].next = At(len, s, i + 2)
        BY <1>3, <3>1, <3>2 DEF Listing
      <3>5. At(len - 1, t, i + 1) = At(len, s, i + 2)
        BY <1>2, <1>6, <2>2 DEF At
      <3>6. At(len - 1, t, i - 1) = IF i = k THEN p ELSE At(len, s, i)
        BY <1>2, <1>6, <2>2 DEF At, p
      <3> QED
        BY <3>1, <3>3, <3>4, <3>5, <3>6
    <2> QED
      BY <1>2, <2>1, <2>2
  <1>13. Listing(len - 1, t)'
    BY <1>7, <1>10, <1>11, <1>12 DEF Listing, At
  <1>14. k \in 1 .. (len - 1) + 1 /\ cur' = At(len - 1, t, k)
    BY <1>2, <1>3, <1>6 DEF At, q
  <1>15. ASSUME NEW i \in 1 .. k - 1
         PROVE  Served(t[i])'
    <2>1. i \in 1 .. len - 1 /\ t[i] = s[i] /\ s[i] \in Live \ {cur}
      BY <1>2, <1>6, <1>8
    <2> QED
      BY <1>1, <1>3, <2>1 DEF Served
  <1>16. Standing(len - 1, t)'
    BY <1>3, <1>14, <1>15 DEF Standing, At
  <1> QED
    BY <1>4, <1>5, <1>13, <1>16 DEF ListInv
------------------------------------------------------------------------------
(* When the program starts the list is empty.                              *)
LEMMA DsuInit == Init => DsuInv
  <1> SUFFICES ASSUME Init
               PROVE  DsuInv
    OBVIOUS
  <1>1. ListType
    BY DsuAssumption DEF Init, ListType
  <1>2. Live = {}
    BY DEF Init, Live
  <1>3. OnePerClient
    BY <1>2 DEF OnePerClient
  <1> DEFINE s == [i \in 1 .. 0 |-> NULL]
  <1>4. s \in [1 .. 0 -> Node]
    OBVIOUS
  <1> HIDE DEF s
  <1>5. Listing(0, s)
    BY <1>2 DEF Init, Listing, At
  <1>6. Standing(0, s)
    BY DEF Init, Standing
  <1> QED
    BY <1>1, <1>3, <1>4, <1>5, <1>6 DEF DsuInv, ListInv

(* Every step keeps the types ...                                          *)
LEMMA TypeKept ==
    ASSUME DsuInv, [Next]_vars
    PROVE  ListType'
  <1>1. PICK len \in Nat :
            \E s \in [1 .. len -> Node] : Listing(len, s) /\ Standing(len, s)
    BY DEF DsuInv, ListInv
  <1>2. PICK s \in [1 .. len -> Node] : Listing(len, s) /\ Standing(len, s)
    BY <1>1
  <1>3. ListType /\ OnePerClient
    BY DEF DsuInv
  <1>4. cur \in Live \cup {NULL}
    BY <1>2 DEF Standing, At, Listing
  <1>5. ASSUME NEW c \in Client, NEW h \in Host, NEW regFlags \in 0 .. 2,
               NEW idToReg \in Slots, Receive(c, h, regFlags, idToReg)
        PROVE  ListType'
    <2>2. UNCHANGED <<cur, packet>>
      BY <1>5 DEF Receive
    <2>3. ASSUME NEW n \in Known(c, h), Refresh(n, h)
          PROVE  ListType'
      <3>1. n \in Live
        BY DEF Known
      <3>2. Kept
        BY <1>3, <2>3, <3>1, RefreshKeeps
      <3> QED
        BY <1>3, <2>2, <3>2 DEF Kept, ListType
    <2>4. ASSUME Known(c, h) = {}, AppendNode(c, h)
          PROVE  ListType'
      <3>1. PICK n \in Node :
                /\ node' \in [Node -> Entry \cup {NULL}]
                /\ cli_first' = IF len = 0 THEN n ELSE cli_first
                /\ cli_last' = n
        BY <1>2, <1>3, <2>4, AppendHeap
      <3> QED
        BY <1>3, <2>2, <3>1 DEF ListType
    <2> QED
      BY <1>5, <2>3, <2>4 DEF Receive
  <1>6. ASSUME NEW p \in Packet, StartLoop(p)
        PROVE  ListType'
    BY <1>3, <1>6 DEF StartLoop, ListType, list
  <1>7. ASSUME DropClient
        PROVE  ListType'
    <2>1. PICK k \in 1 .. len : cur = s[k]
      BY <1>2, <1>7 DEF DropClient, Standing, At
    <2>2. /\ node' \in [Node -> Entry \cup {NULL}]
          /\ cli_first' = IF k = 1 THEN At(len, s, 2) ELSE cli_first
          /\ cli_last' = IF k = len THEN At(len, s, len - 1) ELSE cli_last
          /\ cur' = At(len, s, k + 1)
      BY <1>2, <1>3, <1>7, <2>1, DropHeap
    <2>3. \A i \in Int : At(len, s, i) \in Node \cup {NULL}
      BY DEF At
    <2> QED
      BY <1>3, <1>7, <2>2, <2>3 DEF ListType, DropClient
  <1>8. ASSUME SendToClient
        PROVE  ListType'
    <2>1. cur \in Live
      BY <1>4, <1>8 DEF SendToClient
    <2>2. Kept /\ node[cur].next \in Node \cup {NULL}
      BY <1>3, <1>8, <2>1, SendKeeps, EntryOf DEF Entry
    <2> QED
      BY <1>3, <1>8, <2>2 DEF Kept, ListType, SendToClient
  <1>9. ASSUME EndLoop
        PROVE  ListType'
    BY <1>3, <1>9 DEF EndLoop, ListType, list
  <1>10. ASSUME Second
        PROVE  ListType'
    <2>1. Kept
      BY <1>3, <1>10, SecondKeeps
    <2> QED
      BY <1>3, <1>10, <2>1 DEF Kept, ListType, Second
  <1>11. ASSUME UNCHANGED vars
         PROVE  ListType'
    BY <1>3, <1>11 DEF vars, ListType
  <1> QED
    BY <1>5, <1>6, <1>7, <1>8, <1>9, <1>10, <1>11 DEF Next, Loop

(* ... and the list.                                                       *)
LEMMA ListKept ==
    ASSUME DsuInv, [Next]_vars
    PROVE  OnePerClient' /\ ListInv'
  <1>1. PICK len \in Nat :
            \E s \in [1 .. len -> Node] : Listing(len, s) /\ Standing(len, s)
    BY DEF DsuInv, ListInv
  <1>2. PICK s \in [1 .. len -> Node] : Listing(len, s) /\ Standing(len, s)
    BY <1>1
  <1>3. ListType /\ OnePerClient
    BY DEF DsuInv
  <1>4. cur \in Live \cup {NULL}
    BY <1>2 DEF Standing, At, Listing
  <1>5. ASSUME NEW c \in Client, NEW h \in Host, NEW regFlags \in 0 .. 2,
               NEW idToReg \in Slots, Receive(c, h, regFlags, idToReg)
        PROVE  OnePerClient' /\ ListInv'
    <2>1. packet = NULL /\ UNCHANGED <<cur, packet>>
      BY <1>5 DEF Receive
    <2>2. ASSUME NEW n \in Known(c, h), Refresh(n, h)
          PROVE  OnePerClient' /\ ListInv'
      <3>1. n \in Live
        BY DEF Known
      <3> QED
        BY <1>2, <1>3, <2>1, <2>2, <3>1, RefreshInv
    <2>3. ASSUME Known(c, h) = {}, AppendNode(c, h)
          PROVE  OnePerClient' /\ ListInv'
      BY <1>2, <1>3, <2>1, <2>3, AppendInv
    <2> QED
      BY <1>5, <2>2, <2>3 DEF Receive
  <1>6. ASSUME NEW p \in Packet, StartLoop(p)
        PROVE  OnePerClient' /\ ListInv'
    BY <1>2, <1>3, <1>6, StartInv
  <1>7. ASSUME DropClient
        PROVE  OnePerClient' /\ ListInv'
    BY <1>2, <1>3, <1>7, DropInv
  <1>8. ASSUME SendToClient
        PROVE  OnePerClient' /\ ListInv'
    <2>1. cur \in Live
      BY <1>4, <1>8 DEF SendToClient
    <2> QED
      BY <1>2, <1>3, <1>8, <2>1, SendInv
  <1>9. ASSUME EndLoop
        PROVE  OnePerClient' /\ ListInv'
    BY <1>2, <1>3, <1>9, EndInv
  <1>10. ASSUME Second
        PROVE  OnePerClient' /\ ListInv'
    BY <1>2, <1>3, <1>10, SecondInv
  <1>11. ASSUME UNCHANGED vars
         PROVE  OnePerClient' /\ ListInv'
    <2>1. Kept
      BY <1>3, <1>11 DEF vars, Kept, Live, ListType
    <2>2. Listing(len, s)' /\ OnePerClient'
      BY <1>2, <1>3, <2>1, KeptListing, KeptClients
    <2>3. Standing(len, s)'
      BY <1>2, <1>11 DEF vars, Standing, At, Served
    <2> QED
      BY <2>2, <2>3 DEF ListInv
  <1> QED
    BY <1>5, <1>6, <1>7, <1>8, <1>9, <1>10, <1>11 DEF Next, Loop

(* The invariant holds in every reachable state.                           *)
THEOREM DsuInvariant == Spec => []DsuInv
  <1>1. DsuInv /\ [Next]_vars => DsuInv'
    BY TypeKept, ListKept DEF DsuInv
  <1> QED
    BY <1>1, DsuInit, PTL DEF Spec
------------------------------------------------------------------------------
(* The walk from cli_first on visits the sequence.                         *)
LEMMA WalkListing ==
    ASSUME ListType, NEW len \in Nat, NEW s \in [1 .. len -> Node], Listing(len, s)
    PROVE  /\ Cardinality(Node) \in Nat /\ len <= Cardinality(Node)
           /\ Places = 0 .. Cardinality(Node)
           /\ \A k \in Places : Walk[k] = At(len, s, k + 1)
  <1> DEFINE N == Cardinality(Node)
             Step(f, k) == IF k = 0 THEN cli_first
                           ELSE IF f[k - 1] = NULL THEN NULL ELSE node[f[k - 1]].next
             g == [k \in 0 .. N |-> At(len, s, k + 1)]
  <1>1. N \in Nat
    BY FS_CardinalityType, DsuAssumption
  <1>2. len <= N
    <2>1. s \in Injection(1 .. len, Node)
      BY DEF Listing, Injection, IsInjective
    <2>2. Cardinality(1 .. len) = len
      BY FS_Interval
    <2> QED
      BY <2>1, <2>2, FS_Injection, DsuAssumption
  <1>3. Walk = CHOOSE f : f = [k \in 0 .. N |-> Step(f, k)]
    BY DEF Walk
  <1> HIDE DEF N
  <1>4. g = [k \in 0 .. N |-> Step(g, k)]
    <2> SUFFICES ASSUME NEW k \in 0 .. N
                 PROVE  At(len, s, k + 1) = Step(g, k)
      OBVIOUS
    <2>1. CASE k = 0
      BY <2>1 DEF Listing
    <2>2. CASE k # 0
      <3>1. k - 1 \in 0 .. N /\ g[k - 1] = At(len, s, k)
        BY <1>1, <2>2
      <3>2. CASE k \in 1 .. len
        <4>1. At(len, s, k) = s[k] /\ s[k] # NULL /\ node[s[k]].next = At(len, s, k + 1)
          BY <3>2, DsuAssumption DEF At, Listing
        <4> QED
          BY <2>2, <3>1, <4>1
      <3>3. CASE k \notin 1 .. len
        <4>1. At(len, s, k) = NULL /\ At(len, s, k + 1) = NULL
          BY <1>1, <2>2, <3>3 DEF At
        <4> QED
          BY <2>2, <3>1, <4>1
      <3> QED
        BY <3>2, <3>3
    <2> QED
      BY <2>1, <2>2
  <1>5. Walk = [k \in 0 .. N |-> Step(Walk, k)]
    BY <1>3, <1>4
  <1>6. DOMAIN Walk = 0 .. N
    BY <1>5
  <1>7. g[0] = Walk[0]
    <2>1. 0 \in 0 .. N
      BY <1>1
    <2>2. Walk[0] = Step(Walk, 0)
      BY <1>5, <2>1
    <2>3. g[0] = Step(g, 0)
      BY <1>4, <2>1
    <2> QED
      BY <2>2, <2>3
  <1>8. ASSUME NEW k \in 0 .. N, k < N, Walk[k] = g[k]
        PROVE  Walk[k + 1] = g[k + 1]
    <2>1. k + 1 \in 0 .. N /\ k + 1 # 0 /\ (k + 1) - 1 = k
      BY <1>1, <1>8
    <2>2. Walk[k + 1] = Step(Walk, k + 1)
      BY <1>5, <2>1
    <2>3. g[k + 1] = Step(g, k + 1)
      BY <1>4, <2>1
    <2> QED
      BY <1>8, <2>1, <2>2, <2>3
  <1> DEFINE S == {k \in 0 .. N : Walk[k] = g[k]}
  <1>9. S \in SUBSET (0 .. N) /\ 0 \in S
    BY <1>1, <1>7
  <1>10. \A k \in S : k < N => k + 1 \in S
    BY <1>1, <1>8
  <1> HIDE DEF S
  <1>11. S = 0 .. N
    BY <1>1, <1>9, <1>10, SetInductionUpTo
  <1>12. \A k \in 0 .. N : Walk[k] = At(len, s, k + 1)
    BY <1>11 DEF S
  <1> QED
    BY <1>1, <1>2, <1>6, <1>12 DEF Places, N

(* The heap holds a list, whatever was appended and removed.               *)
THEOREM ListIsList == Spec => []ListOK
  <1>1. ASSUME DsuInv
        PROVE  ListOK
    <2>1. PICK len \in Nat :
              \E s \in [1 .. len -> Node] : Listing(len, s) /\ Standing(len, s)
      BY <1>1 DEF DsuInv, ListInv
    <2>2. PICK s \in [1 .. len -> Node] : Listing(len, s) /\ Standing(len, s)
      BY <2>1
    <2>3. ListType /\ OnePerClient
      BY <1>1 DEF DsuInv
    <2> DEFINE N == Cardinality(Node)
    <2>4. N \in Nat /\ len <= N /\ Places = 0 .. N
      BY <2>2, <2>3, WalkListing
    <2>5. \A k \in Places : Walk[k] = At(len, s, k + 1)
      BY <2>2, <2>3, WalkListing
    <2> HIDE DEF N
    <2>6. {Walk[k] : k \in Places} = Live \cup {NULL}
      <3>1. \A k \in Places : Walk[k] \in Live \cup {NULL}
        BY <2>2, <2>5 DEF At, Listing
      <3>2. ASSUME NEW n \in Live
            PROVE  \E k \in Places : Walk[k] = n
        <4>1. PICK i \in 1 .. len : n = s[i]
          BY <2>2 DEF Listing
        <4>2. i - 1 \in Places /\ Walk[i - 1] = At(len, s, (i - 1) + 1)
          BY <2>4, <2>5
        <4> QED
          BY <4>1, <4>2 DEF At
      <3>3. \E k \in Places : Walk[k] = NULL
        <4>1. len \in Places /\ Walk[len] = At(len, s, len + 1)
          BY <2>4, <2>5
        <4> QED
          BY <4>1 DEF At
      <3> QED
        BY <3>1, <3>2, <3>3
    <2>7. ASSUME NEW n \in Live
          PROVE  Linked(n)
      <3>1. PICK i \in 1 .. len : n = s[i]
        BY <2>2 DEF Listing
      <3>2. node[n].next = At(len, s, i + 1) /\ node[n].prev = At(len, s, i - 1)
        BY <2>2, <3>1 DEF Listing
      <3>3. \/ node[n].next = NULL /\ cli_last = n
            \/ node[n].next \in Live /\ node[node[n].next].prev = n
        <4>1. CASE i = len
          BY <2>2, <3>1, <3>2, <4>1 DEF Listing, At
        <4>2. CASE i # len
          <5>1. i + 1 \in 1 .. len /\ node[n].next = s[i + 1] /\ (i + 1) - 1 = i
            BY <3>2, <4>2 DEF At
          <5> QED
            BY <2>2, <3>1, <5>1 DEF Listing, At
        <4> QED
          BY <4>1, <4>2
      <3>4. \/ node[n].prev = NULL /\ cli_first = n
            \/ node[n].prev \in Live /\ node[node[n].prev].next = n
        <4>1. CASE i = 1
          BY <2>2, <3>1, <3>2, <4>1 DEF Listing, At
        <4>2. CASE i # 1
          <5>1. i - 1 \in 1 .. len /\ node[n].prev = s[i - 1] /\ (i - 1) + 1 = i
            BY <3>2, <4>2 DEF At
          <5> QED
            BY <2>2, <3>1, <5>1 DEF Listing, At
        <4> QED
          BY <4>1, <4>2
      <3> QED
        BY <3>3, <3>4, Zenon DEF Linked
    <2>8. Live = {} => cli_last = NULL
      BY <2>2 DEF Listing, At
    <2>9. cur \in Live \cup {NULL}
      BY <2>2 DEF Standing, At, Listing
    <2> QED
      BY <2>3, <2>6, <2>7, <2>8, <2>9, Zenon DEF ListOK
  <1> QED
    BY <1>1, DsuInvariant, PTL

(* The loop that sends a packet leaves nobody out, whomever it removes.    *)
THEOREM NobodyIsSkipped == Spec => []LoopCovers
  <1>1. ASSUME DsuInv
        PROVE  LoopCovers
    <2>1. PICK len \in Nat :
              \E s \in [1 .. len -> Node] : Listing(len, s) /\ Standing(len, s)
      BY <1>1 DEF DsuInv, ListInv
    <2>2. PICK s \in [1 .. len -> Node] : Listing(len, s) /\ Standing(len, s)
      BY <2>1
    <2>3. /\ Places = 0 .. Cardinality(Node) /\ Cardinality(Node) \in Nat
          /\ \A k \in Places : Walk[k] = At(len, s, k + 1)
      BY <1>1, <2>2, WalkListing DEF DsuInv
    <2> SUFFICES ASSUME packet # NULL, NEW j \in Places, Walk[j] # NULL,
                        \A i \in 0 .. j : Walk[i] # cur
                 PROVE  ~Expired(Walk[j]) /\ node[Walk[j]].old = packet
      BY DEF LoopCovers
    <2>4. PICK k \in 1 .. len + 1 :
              cur = At(len, s, k) /\ \A i \in 1 .. k - 1 : Served(s[i])
      BY <2>2 DEF Standing
    <2>5. j + 1 \in 1 .. len /\ Walk[j] = s[j + 1]
      BY <2>3 DEF At
    <2>6. j + 1 < k
      <3>1. SUFFICES ASSUME k - 1 \in 0 .. j
                     PROVE  FALSE
        BY <2>3, <2>5
      <3>2. k - 1 \in Places /\ Walk[k - 1] = At(len, s, (k - 1) + 1)
        BY <2>3, <3>1
      <3>3. Walk[k - 1] = cur
        BY <2>4, <3>2
      <3> QED
        BY <3>1, <3>3
    <2>7. Served(s[j + 1])
      BY <2>3, <2>4, <2>5, <2>6
    <2>8. s[j + 1] \in Live
      BY <2>2, <2>5 DEF Listing
    <2>9. node[s[j + 1]].age \in Nat
      BY <1>1, <2>8, EntryOf DEF DsuInv, Entry
    <2> QED
      BY <2>5, <2>7, <2>9, DsuAssumption DEF Served, Expired
  <1> QED
    BY <1>1, DsuInvariant, PTL
------------------------------------------------------------------------------
(* What the registry says of the client of a node.                         *)
View(n) == [age |-> node[n].age, addr |-> node[n].addr, old |-> node[n].old]

(* The registry has what the nodes hold, client by client ...              *)
LEMMA RegistryView ==
    ASSUME OnePerClient
    PROVE  /\ RegistryOf = [c \in Registered |-> RegistryOf[c]]
           /\ \A n \in Live : /\ node[n].id \in Registered
                              /\ RegistryOf[node[n].id] = View(n)
  <1>1. \A n \in Live : node[n].id \in Registered
    BY DEF Registered
  <1>2. \A n \in Live : NodeOf(node[n].id) = n
    BY DEF OnePerClient, NodeOf
  <1> QED
    BY <1>1, <1>2 DEF RegistryOf, View

(* ... and so it has after a step.                                         *)
LEMMA RegistryViewNext ==
    ASSUME OnePerClient'
    PROVE  /\ RegistryOf' = [c \in Registered' |-> RegistryOf'[c]]
           /\ \A n \in Live' : /\ node'[n].id \in Registered'
                               /\ RegistryOf'[node'[n].id] = View(n)'
  <1>1. \A n \in Live' : node'[n].id \in Registered'
    BY DEF Registered
  <1>2. \A n \in Live' : \A c : c = node'[n].id => NodeOf(c)' = n
    BY DEF OnePerClient, NodeOf
  <1>3. RegistryOf' = [c \in Registered' |->
            [age |-> node'[NodeOf(c)'].age, addr |-> node'[NodeOf(c)'].addr,
             old |-> node'[NodeOf(c)'].old]]
    BY DEF RegistryOf
  <1>4. RegistryOf' = [c \in Registered' |-> RegistryOf'[c]]
    BY <1>3
  <1>5. ASSUME NEW n \in Live'
        PROVE  RegistryOf'[node'[n].id] = View(n)'
    BY <1>1, <1>2, <1>3 DEF View
  <1> QED
    BY <1>1, <1>4, <1>5

(* A request changes the registry to what it promises.                     *)
LEMMA RefreshAsks ==
    ASSUME ListType, OnePerClient, OnePerClient', NEW c \in Client, NEW h \in Host,
           NEW n \in Known(c, h), Refresh(n, h)
    PROVE  Registry!Asks(c, h)
  <1>1. n \in Live /\ n \in Node /\ node[n] \in Entry /\ node[n].id = c
    BY EntryOf DEF Known
  <1>2. Kept /\ \A m \in Live : node'[m].old = node[m].old
    BY <1>1, RefreshKeeps
  <1>3. node'[n].age = 0 /\ node'[n].addr = h
    <2>1. node' = [node EXCEPT ![n] = [node[n] EXCEPT !.age = 0, !.addr = h]]
      BY <1>1 DEF Refresh, ListType
    <2> QED
      BY <1>1, <2>1 DEF ListType, Entry
  <1>4. \A m \in Live : m # n => node'[m] = node[m]
    BY <1>1 DEF Refresh, ListType, Live
  <1>5. Live' = Live /\ \A m \in Live : node'[m].id = node[m].id
    BY <1>2 DEF Kept
  <1>6. Registered' = Registered /\ c \in Registered
    BY <1>1, <1>5 DEF Registered
  <1>7. ASSUME NEW d \in Registered
        PROVE  RegistryOf'[d] =
                   IF d # c THEN RegistryOf[d]
                   ELSE [age |-> 0, addr |-> h, old |-> RegistryOf[c].old]
    <2>1. PICK m \in Live : node[m].id = d
      BY DEF Registered
    <2>2. RegistryOf[d] = View(m) /\ RegistryOf'[d] = View(m)'
      BY <1>5, <2>1, RegistryView, RegistryViewNext
    <2>3. CASE d # c
      BY <1>1, <1>4, <2>1, <2>2, <2>3 DEF View
    <2>4. CASE d = c
      <3>1. m = n
        BY <1>1, <2>1, <2>4 DEF OnePerClient
      <3> QED
        BY <1>1, <1>2, <1>3, <2>2, <2>4, <3>1 DEF View
    <2> QED
      BY <2>3, <2>4
  <1>8. DOMAIN RegistryOf = Registered
    BY RegistryView
  <1>9. RegistryOf' = [d \in Registered |-> RegistryOf'[d]]
    BY <1>6, RegistryViewNext
  <1> QED
    BY <1>6, <1>7, <1>8, <1>9 DEF Registry!Asks

(* A client that was not in the list is registered as one.                 *)
LEMMA AppendAsks ==
    ASSUME ListType, OnePerClient, OnePerClient',
           NEW len \in Nat, NEW s \in [1 .. len -> Node], Listing(len, s),
           NEW c \in Client, NEW h \in Host, Known(c, h) = {}, AppendNode(c, h)
    PROVE  Registry!Asks(c, h)
  <1>1. PICK n \in Node :
              /\ node[n] = NULL
              /\ node'[n].id = c /\ node'[n].age = 0 /\ node'[n].addr = h
              /\ node'[n].old = Nothing
              /\ \A m \in Live :
                    /\ node'[m].id = node[m].id
                    /\ node'[m].age = node[m].age /\ node'[m].addr = node[m].addr
                    /\ node'[m].old = node[m].old
              /\ Live' = Live \cup {n}
    BY AppendHeap
  <1>2. c \notin Registered
    BY DEF Known, Registered
  <1>3. Registered' = Registered \cup {c}
    BY <1>1 DEF Registered
  <1>4. ASSUME NEW d \in Registered
        PROVE  d # c /\ RegistryOf'[d] = RegistryOf[d]
    <2>1. PICK m \in Live : node[m].id = d
      BY DEF Registered
    <2>2. RegistryOf[d] = View(m) /\ RegistryOf'[d] = View(m)'
      BY <1>1, <2>1, RegistryView, RegistryViewNext
    <2> QED
      BY <1>1, <1>2, <2>2 DEF View
  <1>5. RegistryOf'[c] = [age |-> 0, addr |-> h, old |-> Nothing]
    <2>1. RegistryOf'[c] = View(n)'
      BY <1>1, RegistryViewNext
    <2> QED
      BY <1>1, <2>1 DEF View
  <1>6. DOMAIN RegistryOf = Registered
    BY RegistryView
  <1>7. RegistryOf' = [d \in Registered \cup {c} |-> RegistryOf'[d]]
    BY <1>3, RegistryViewNext
  <1> QED
    BY <1>2, <1>4, <1>5, <1>6, <1>7 DEF Registry!Asks, Registry!Nothing, Nothing

(* A client is removed only after it was silent for too long.              *)
LEMMA DropForgets ==
    ASSUME ListType, OnePerClient, OnePerClient',
           NEW len \in Nat, NEW s \in [1 .. len -> Node],
           Listing(len, s), Standing(len, s), DropClient
    PROVE  Registry!Forgets(node[cur].id)
  <1>1. PICK k \in 1 .. len : cur = s[k]
    BY DEF DropClient, Standing, At
  <1>2. /\ cur \in Live /\ Live' = Live \ {cur}
        /\ \A m \in Live \ {cur} :
              /\ node'[m].id = node[m].id
              /\ node'[m].age = node[m].age /\ node'[m].addr = node[m].addr
              /\ node'[m].old = node[m].old
    BY <1>1, DropHeap
  <1> DEFINE c == node[cur].id
  <1>3. \A m \in Live : node[m].id = c => m = cur
    BY <1>2 DEF OnePerClient
  <1>4. Registered' = Registered \ {c} /\ c \in Registered
    BY <1>2, <1>3 DEF Registered
  <1>5. ASSUME NEW d \in Registered \ {c}
        PROVE  RegistryOf'[d] = RegistryOf[d]
    <2>1. PICK m \in Live : node[m].id = d
      BY DEF Registered
    <2>2. m \in Live \ {cur}
      BY <2>1
    <2>3. RegistryOf[d] = View(m) /\ RegistryOf'[d] = View(m)'
      BY <1>2, <2>1, <2>2, RegistryView, RegistryViewNext
    <2> QED
      BY <1>2, <2>2, <2>3 DEF View
  <1>6. RegistryOf[c].age > CLIENT_TIMEOUT
    <2>1. RegistryOf[c] = View(cur)
      BY <1>2, RegistryView
    <2> QED
      BY <2>1 DEF View, DropClient, Expired
  <1>7. DOMAIN RegistryOf = Registered
    BY RegistryView
  <1>8. RegistryOf' = [d \in Registered \ {c} |-> RegistryOf'[d]]
    BY <1>4, RegistryViewNext
  <1> HIDE DEF c
  <1>9. Registry!Forgets(c)
    BY <1>4, <1>5, <1>6, <1>7, <1>8 DEF Registry!Forgets
  <1> QED
    BY <1>9 DEF c

(* A client is sent a packet only if it had another one before.            *)
LEMMA SendSends ==
    ASSUME ListType, OnePerClient, OnePerClient', cur \in Live, SendToClient
    PROVE  \/ Registry!Sends(node[cur].id, packet)
           \/ UNCHANGED RegistryOf
  <1> DEFINE c == node[cur].id
             new == [RegistryOf[c] EXCEPT !.old = packet]
  <1>1. /\ Kept
        /\ \A m \in Live : /\ node'[m].age = node[m].age
                           /\ node'[m].addr = node[m].addr
                           /\ node'[m].old = IF m = cur THEN packet ELSE node[m].old
    BY SendKeeps
  <1>2. Live' = Live /\ \A m \in Live : node'[m].id = node[m].id
    BY <1>1 DEF Kept
  <1>3. Registered' = Registered /\ c \in Registered
    BY <1>2 DEF Registered
  <1>4. RegistryOf[c] = View(cur)
    BY RegistryView
  <1>5. ASSUME NEW d \in Registered
        PROVE  RegistryOf'[d] = IF d = c THEN new ELSE RegistryOf[d]
    <2>1. PICK m \in Live : node[m].id = d
      BY DEF Registered
    <2>2. RegistryOf[d] = View(m) /\ RegistryOf'[d] = View(m)'
      BY <1>2, <2>1, RegistryView, RegistryViewNext
    <2>3. d = c <=> m = cur
      BY <2>1 DEF OnePerClient
    <2>4. CASE m = cur
      BY <1>1, <2>2, <2>3, <2>4 DEF View
    <2>5. CASE m # cur
      BY <1>1, <2>2, <2>3, <2>5 DEF View
    <2> QED
      BY <2>4, <2>5
  <1>6. DOMAIN RegistryOf = Registered
    BY RegistryView
  <1>7. RegistryOf = [d \in Registered |-> RegistryOf[d]]
    BY RegistryView
  <1>8. RegistryOf' = [d \in Registered |-> RegistryOf'[d]]
    BY <1>3, RegistryViewNext
  <1>9. RegistryOf[c].age <= CLIENT_TIMEOUT /\ RegistryOf[c].old = node[cur].old
    <2>1. node[cur].age \in 0 .. CLIENT_TIMEOUT + 1
      BY EntryOf DEF Entry
    <2> QED
      BY <1>4, <2>1, DsuAssumption DEF View, SendToClient, Expired
  <1>10. CASE packet # RegistryOf[c].old
    <2>1. RegistryOf' = [RegistryOf EXCEPT ![c].old = packet]
      BY <1>3, <1>5, <1>6, <1>7, <1>8
    <2> HIDE DEF c, new
    <2>2. Registry!Sends(c, packet)
      BY <1>3, <1>6, <1>9, <1>10, <2>1 DEF Registry!Sends
    <2> QED
      BY <2>2 DEF c
  <1>11. CASE packet = RegistryOf[c].old
    <2>1. new = RegistryOf[c]
      BY <1>4, <1>11 DEF View
    <2> HIDE DEF c, new
    <2> QED
      BY <1>5, <1>7, <1>8, <2>1
  <1> QED
    BY <1>10, <1>11

(* A second is a second of the registry.                                   *)
LEMMA SecondIsSecond ==
    ASSUME ListType, OnePerClient, OnePerClient', Second
    PROVE  Registry!Second
  <1>1. Kept /\ \A m \in Live : node'[m] = [node[m] EXCEPT !.age = Older(@)]
    BY SecondKeeps
  <1>2. Live' = Live /\ \A m \in Live : node'[m].id = node[m].id
    BY <1>1 DEF Kept
  <1>3. Registered' = Registered
    BY <1>2 DEF Registered
  <1>4. ASSUME NEW d \in Registered
        PROVE  RegistryOf'[d] = [RegistryOf[d] EXCEPT !.age = Older(@)]
    <2>1. PICK m \in Live : node[m].id = d
      BY DEF Registered
    <2>2. RegistryOf[d] = View(m) /\ RegistryOf'[d] = View(m)'
      BY <1>2, <2>1, RegistryView, RegistryViewNext
    <2>3. node[m] \in Entry
      BY EntryOf
    <2>4. View(m)' = [age |-> Older(node[m].age), addr |-> node[m].addr,
                      old |-> node[m].old]
      BY <1>1, <2>3 DEF View, Entry
    <2> QED
      BY <2>2, <2>4 DEF View
  <1>5. DOMAIN RegistryOf = Registered
    BY RegistryView
  <1>6. RegistryOf' = [d \in Registered |-> RegistryOf'[d]]
    BY <1>3, RegistryViewNext
  <1> QED
    BY <1>4, <1>5, <1>6 DEF Registry!Second, Registry!Older, Older

(* The list implements the registry: whoever asks is registered at the     *)
(* address it last asked from, is forgotten only after a silence, and is   *)
(* sent nothing twice in a row.                                            *)
THEOREM ListImplementsRegistry == Spec => ImplementsRegistry
  <1>1. Init => Registry!RInit
    <2> SUFFICES ASSUME Init
                 PROVE  Registry!RInit
      OBVIOUS
    <2>1. Registered = {}
      BY DEF Init, Registered, Live
    <2>2. RegistryOf = [c \in {} |-> Registry!Nothing]
      BY <2>1 DEF RegistryOf
    <2> QED
      BY <2>2 DEF Registry!RInit
  <1>2. ASSUME DsuInv, [Next]_vars
        PROVE  [Registry!RNext]_RegistryOf
    <2>1. PICK len \in Nat :
              \E s \in [1 .. len -> Node] : Listing(len, s) /\ Standing(len, s)
      BY <1>2 DEF DsuInv, ListInv
    <2>2. PICK s \in [1 .. len -> Node] : Listing(len, s) /\ Standing(len, s)
      BY <2>1
    <2>3. ListType /\ OnePerClient /\ OnePerClient'
      BY <1>2, ListKept DEF DsuInv
    <2>4. cur \in Live \cup {NULL}
      BY <2>2 DEF Standing, At, Listing
    <2>5. UNCHANGED node => UNCHANGED RegistryOf
      BY DEF RegistryOf, Registered, NodeOf, Live
    <2>6. ASSUME NEW c \in Client, NEW h \in Host, NEW regFlags \in 0 .. 2,
                 NEW idToReg \in Slots, Receive(c, h, regFlags, idToReg)
          PROVE  Registry!Asks(c, h)
      <3>1. ASSUME NEW n \in Known(c, h), Refresh(n, h)
            PROVE  Registry!Asks(c, h)
        BY <2>3, <3>1, RefreshAsks
      <3>2. ASSUME Known(c, h) = {}, AppendNode(c, h)
            PROVE  Registry!Asks(c, h)
        BY <2>2, <2>3, <3>2, AppendAsks
      <3> QED
        BY <2>6, <3>1, <3>2 DEF Receive
    <2>7. ASSUME NEW p \in Packet, StartLoop(p)
          PROVE  UNCHANGED RegistryOf
      BY <2>5, <2>7 DEF StartLoop, list
    <2>8. ASSUME DropClient
          PROVE  \E c \in Client : Registry!Forgets(c)
      <3>1. Registry!Forgets(node[cur].id)
        BY <2>2, <2>3, <2>8, DropForgets
      <3>2. cur \in Live
        BY <2>4, <2>8 DEF DropClient
      <3> QED
        BY <2>3, <3>1, <3>2, EntryOf DEF Entry
    <2>9. ASSUME SendToClient
          PROVE  \/ \E c \in Client, p \in Packet : Registry!Sends(c, p)
                 \/ UNCHANGED RegistryOf
      <3>1. cur \in Live
        BY <2>4, <2>9 DEF SendToClient
      <3>2. Registry!Sends(node[cur].id, packet) \/ UNCHANGED RegistryOf
        BY <2>3, <2>9, <3>1, SendSends
      <3>3. node[cur].id \in Client /\ packet \in Packet
        BY <2>3, <2>9, <3>1, EntryOf DEF Entry, ListType, SendToClient
      <3> QED
        BY <3>2, <3>3
    <2>10. ASSUME EndLoop
          PROVE  UNCHANGED RegistryOf
      BY <2>5, <2>10 DEF EndLoop, list
    <2>11. ASSUME Second
           PROVE  Registry!Second
      BY <2>3, <2>11, SecondIsSecond
    <2>12. ASSUME UNCHANGED vars
           PROVE  UNCHANGED RegistryOf
      BY <2>5, <2>12 DEF vars
    <2> HIDE DEF RegistryOf
    <2> QED
      BY <1>2, <2>6, <2>7, <2>8, <2>9, <2>10, <2>11, <2>12
      DEF Next, Loop, Registry!RNext
  <1> QED
    BY <1>1, <1>2, DsuInvariant, PTL DEF Spec, ImplementsRegistry, Registry!RSpec

------------------------------------------------------------------------------
(* What is gathered, and what of it is owed to the next packet.            *)
OwedGathered ==
    /\ count \in Nat
    /\ owed \subseteq but
    /\ count = 0 => but = {}

(* The ids: that of the last packet, and that of the present touch.        *)
IdsTold ==
    /\ laststate \in BOOLEAN /\ lastid \in 0 .. IdMax
    /\ report.id = IF laststate THEN lastid ELSE 0
    /\ laststate => lastid # 0
    /\ touch \in {0, report.id}

FeedInv == OwedGathered /\ IdsTold
------------------------------------------------------------------------------
(* The next id is neither 0 nor the present one, also where the ids wrap.  *)
LEMMA SuccIdNew ==
    ASSUME NEW id \in 0 .. IdMax
    PROVE  SuccId(id) \in (1 .. IdMax) \ {id}
  BY PadAssumption DEF SuccId

(* When the program starts nothing is gathered and no id was given.        *)
LEMMA FeedStarts == FeedInit => FeedInv
  <1> SUFFICES ASSUME FeedInit PROVE FeedInv
    OBVIOUS
  <1>1. report.id = 0
    <2> DEFINE stick == StickByte(0)
               axis == vjoy_udp_client_transform(0)
    <2>1. report = [but |-> {}, id |-> 0, stick |-> stick, axis |-> axis]
      BY DEF FeedInit
    <2> HIDE DEF stick, axis
    <2> QED
      BY <2>1
  <1>2. OwedGathered
    BY DEF FeedInit, OwedGathered
  <1>3. laststate = FALSE /\ lastid = 0 /\ touch = 0
    BY DEF FeedInit
  <1>4. laststate \in BOOLEAN
    BY <1>3
  <1>5. lastid \in 0 .. IdMax
    BY <1>3, PadAssumption
  <1>6. ~laststate
    BY <1>3
  <1> QED
    BY <1>1, <1>2, <1>3, <1>4, <1>5, <1>6 DEF FeedInv, IdsTold

(* One turn of the loop keeps what the packets owe and tell.               *)
LEMMA UpdateKeeps ==
    ASSUME FeedInv, NEW b \in SUBSET Button, NEW x, NEW t, Update(b, x, t)
    PROVE  FeedInv'
  <1>1. PICK e : (Gather(b, x, e) \/ MakePacket(b, x, e)) /\ Remember(b, x)
    BY DEF Update
  <1>2. CASE Gather(b, x, e)
    <2>1. count' = count + 1 /\ count' # 0 /\ count' \in Nat
      BY <1>2 DEF Gather, FeedInv, OwedGathered
    <2>2. OwedGathered'
      BY <1>1, <1>2, <2>1 DEF Gather, Gathered, Remember, FeedInv, OwedGathered
    <2>3. UNCHANGED <<laststate, lastid, report>>
      BY <1>2 DEF Gather, ids
    <2>4. touch' \in {0, touch}
      BY <1>1, <2>1 DEF Remember
    <2> QED
      BY <2>2, <2>3, <2>4 DEF FeedInv, IdsTold
  <1>3. CASE MakePacket(b, x, e)
    <2> DEFINE down == KEY_TOUCH \in Gathered(b)
    <2>1. /\ but' = {} /\ count' = 0
          /\ lastid' = NextId(down) /\ laststate' = down
          /\ report'.but = Gathered(b)
          /\ report'.id = IF down THEN NextId(down) ELSE 0
      BY <1>3 DEF MakePacket
    <2>2. owed' = (owed \cup (b \ held)) \ Gathered(b)
      BY <1>1, <2>1 DEF Remember
    <2>3. OwedGathered'
      BY <2>1, <2>2 DEF FeedInv, OwedGathered, Gathered
    <2>4. touch' \in {0, report'.id}
      BY <1>1, <2>1 DEF Remember, Gathered
    <2>5. down => NextId(down) \in 1 .. IdMax
      BY SuccIdNew DEF NextId, FeedInv, IdsTold
    <2>6. ~down => NextId(down) = lastid
      BY DEF NextId
    <2> HIDE DEF down
    <2>7. CASE down
      <3>1. laststate' \in BOOLEAN /\ laststate'
        BY <2>1, <2>7
      <3>2. lastid' \in 1 .. IdMax /\ report'.id = lastid'
        BY <2>1, <2>5, <2>7
      <3>3. lastid' \in 0 .. IdMax /\ lastid' # 0
        BY <3>2, PadAssumption
      <3>4. report'.id = IF laststate' THEN lastid' ELSE 0
        BY <3>1, <3>2
      <3> QED
        BY <2>3, <2>4, <3>1, <3>3, <3>4, Zenon DEF FeedInv, IdsTold
    <2>8. CASE ~down
      <3>1. laststate' \in BOOLEAN /\ ~laststate'
        <4>1. down = FALSE
          BY <2>8 DEF down
        <4> QED
          BY <2>1, <4>1
      <3>2. lastid' \in 0 .. IdMax /\ report'.id = 0
        BY <2>1, <2>6, <2>8 DEF FeedInv, IdsTold
      <3>3. report'.id = IF laststate' THEN lastid' ELSE 0
        BY <3>1, <3>2
      <3> QED
        BY <2>3, <2>4, <3>1, <3>2, <3>3, Zenon DEF FeedInv, IdsTold
    <2> QED
      BY <2>7, <2>8
  <1> QED
    BY <1>1, <1>2, <1>3

(* Every step keeps the invariant.                                         *)
LEMMA FeedKeeps == FeedInv /\ [FeedNext]_feedvars => FeedInv'
  <1>1. FeedInv /\ FeedNext => FeedInv'
    BY UpdateKeeps DEF FeedNext, Forwards, Backwards
  <1>2. FeedInv /\ UNCHANGED feedvars => FeedInv'
    BY DEF feedvars, data, ids, history, FeedInv, OwedGathered, IdsTold
  <1> QED
    BY <1>1, <1>2

(* The invariant holds in every reachable state.                           *)
THEOREM FeedInvariant == FeedSpec => []FeedInv
  <1> QED
    BY FeedStarts, FeedKeeps, PTL DEF FeedSpec

(* However short a press is, however many samples make a packet and        *)
(* whatever the clock does, the next packet shows it.                      *)
THEOREM PressesAreShown == FeedSpec => []NoPressLost
  <1>1. FeedInv => NoPressLost
    BY DEF FeedInv, OwedGathered, NoPressLost
  <1> QED
    BY <1>1, FeedInvariant, PTL

(* "Touch id (should be the same for one continious touch)": it is.        *)
THEOREM TouchKeepsId == FeedSpec => SameTouchSameId
  <1>1. ASSUME FeedInv, FeedNext, touch # 0, touch' # 0
        PROVE  touch' = touch
    <2>1. PICK b \in SUBSET Button : \E x, t : Update(b, x, t)
      BY <1>1 DEF FeedNext, Forwards, Backwards
    <2>2. PICK x, e : (Gather(b, x, e) \/ MakePacket(b, x, e)) /\ Remember(b, x)
      BY <2>1 DEF Update
    <2>3. touch = lastid /\ laststate
      BY <1>1 DEF FeedInv, IdsTold
    <2>4. KEY_TOUCH \in b
      BY <1>1, <2>2 DEF Remember
    <2>5. CASE count' # 0
      BY <2>2, <2>4, <2>5 DEF Remember
    <2>6. CASE count' = 0
      <3>1. MakePacket(b, x, e)
        BY <1>1, <2>2, <2>6 DEF Gather, FeedInv, OwedGathered
      <3>2. report'.id = lastid
        BY <2>3, <2>4, <3>1 DEF MakePacket, Gathered, NextId
      <3> QED
        BY <2>2, <2>3, <2>4, <2>6, <3>2 DEF Remember
    <2> QED
      BY <2>5, <2>6
  <1>2. FeedInv /\ [FeedNext]_feedvars => [touch # 0 /\ touch' # 0 => touch' = touch]_feedvars
    BY <1>1
  <1> QED
    BY <1>2, FeedInvariant, PTL DEF FeedSpec, SameTouchSameId

(* A touch after a packet without one gets an id of its own.               *)
THEOREM NewTouchIsNew == FeedSpec => NewTouchNewId
  <1>1. ASSUME FeedInv, FeedNext, count' = 0, report.id = 0, KEY_TOUCH \in report'.but
        PROVE  report'.id \notin {0, lastid}
    <2>1. PICK b \in SUBSET Button : \E x, t : Update(b, x, t)
      BY <1>1 DEF FeedNext, Forwards, Backwards
    <2>2. PICK x, e : Gather(b, x, e) \/ MakePacket(b, x, e)
      BY <2>1 DEF Update
    <2>3. MakePacket(b, x, e)
      BY <1>1, <2>2 DEF Gather, FeedInv, OwedGathered
    <2>4. ~laststate /\ lastid \in 0 .. IdMax
      BY <1>1 DEF FeedInv, IdsTold
    <2>5. report'.id = SuccId(lastid)
      BY <1>1, <2>3, <2>4 DEF MakePacket, NextId
    <2> QED
      BY <2>4, <2>5, SuccIdNew
  <1>2. FeedInv /\ [FeedNext]_feedvars =>
            [count' = 0 /\ report.id = 0 /\ KEY_TOUCH \in report'.but =>
                report'.id \notin {0, lastid}]_feedvars
    BY <1>1
  <1> QED
    BY <1>2, FeedInvariant, PTL DEF FeedSpec, NewTouchNewId

------------------------------------------------------------------------------
(* The scales.  The threshold that quantizes a reading is 0 in the code     *)
(* (dsu-server.c 74, 78), and the dead zones and maxima are 20 and 150, 10  *)
(* and 100 (72-73, 76-77); of those the proofs use only this much.          *)
NotQuantized == thresh = 0
Coefficients ==
    NotQuantized /\ 0 < dead /\ max <= 128 * dead /\ max - dead <= AxisMax \div 2

(* Taking the dead zone out and clamping keep the order of two readings.   *)
LEMMA TransformOrder ==
    ASSUME NotQuantized, NEW a \in Int, NEW b \in Int, a <= b
    PROVE  /\ dsu_server_transform(a) \in -max .. max
           /\ dsu_server_transform(b) \in -max .. max
           /\ dsu_server_transform(a) <= dsu_server_transform(b)
  BY ScaleAssumption
  DEF NotQuantized, dsu_server_transform, Clamped, DeadZoned, MagnitudeOf, Quantized

(* So does the byte of a stick, which fits in eight bits.                  *)
LEMMA StickOrder ==
    ASSUME NotQuantized, NEW a \in Int, NEW b \in Int, a <= b
    PROVE  /\ StickByte(a) \in 0 .. 255 /\ StickByte(b) \in 0 .. 255
           /\ StickByte(a) <= StickByte(b)
  <1> DEFINE s == dsu_server_transform(a)
             t == dsu_server_transform(b)
             i == ((s + max) * 128) \div max
             j == ((t + max) * 128) \div max
  <1>1. s \in -max .. max /\ t \in -max .. max /\ s <= t
    BY TransformOrder
  <1>2. max \in Nat \ {0}
    BY ScaleAssumption
  <1>3. StickByte(a) = (IF i > 255 THEN 255 ELSE i) /\ StickByte(b) = (IF j > 255 THEN 255 ELSE j)
    BY DEF StickByte
  <1> HIDE DEF s, t
  <1>4. (s + max) * 128 \in Nat /\ (t + max) * 128 \in Nat
        /\ (s + max) * 128 <= (t + max) * 128
    BY <1>1, <1>2
  <1>5. i \in Int /\ j \in Int /\ i <= j
    BY <1>2, <1>4, QuotientOrder
  <1>6. 0 <= i
    <2>1. max * 0 <= (s + max) * 128
      BY <1>2, <1>4
    <2> QED
      BY <1>2, <1>4, <2>1, QuotientFrom
  <1> HIDE DEF i, j
  <1> QED
    BY <1>3, <1>5, <1>6

(* What the vJoy feeder makes of a reading before it scales it.            *)
Shifted(r) ==
    CASE MagnitudeOf(r) < dead -> 0
      [] MagnitudeOf(r) >= dead /\ r > 0 -> r - dead
      [] OTHER -> r + dead

LEMMA AxisOf ==
    ASSUME NotQuantized, NEW r \in Int
    PROVE  /\ vjoy_udp_client_transform(r) =
                  ((Clamped(Shifted(r), max - dead) + (max - dead)) * 16384) \div (max - dead)
           /\ Clamped(Shifted(r), max - dead) \in -(max - dead) .. max - dead
  <1>1. AxisMax \div 2 = 16384
    BY DEF AxisMax
  <1>2. Shifted(r) \in Int
    BY ScaleAssumption DEF Shifted, MagnitudeOf
  <1>3. max - dead \in Nat \ {0}
    BY ScaleAssumption
  <1>4. Quantized(r) = r
    BY DEF Quantized, NotQuantized
  <1> DEFINE m == max - dead
  <1>5. Clamped(Shifted(r), m) \in -m .. m
    <2> HIDE DEF m
    <2> QED
      BY <1>2, <1>3 DEF Clamped, m
  <1>6. vjoy_udp_client_transform(r) = ((Clamped(Shifted(r), m) + m) * (AxisMax \div 2)) \div m
    BY <1>4, Zenon DEF vjoy_udp_client_transform, Shifted
  <1> QED
    BY <1>1, <1>5, <1>6

(* The vJoy axis keeps the order too, and stays within its range.          *)
LEMMA AxisOrder ==
    ASSUME NotQuantized, NEW a \in Int, NEW b \in Int, a <= b
    PROVE  /\ vjoy_udp_client_transform(a) \in 0 .. AxisMax
           /\ vjoy_udp_client_transform(b) \in 0 .. AxisMax
           /\ vjoy_udp_client_transform(a) <= vjoy_udp_client_transform(b)
  <1> DEFINE m == max - dead
             s == Clamped(Shifted(a), m)
             t == Clamped(Shifted(b), m)
  <1>1. m \in Nat \ {0}
    BY ScaleAssumption
  <1>2. s \in -m .. m /\ t \in -m .. m
    BY AxisOf
  <1>3. s <= t
    <2>1. Shifted(a) \in Int /\ Shifted(b) \in Int /\ Shifted(a) <= Shifted(b)
      BY ScaleAssumption DEF Shifted, MagnitudeOf
    <2> HIDE DEF m
    <2> QED
      BY <1>1, <2>1 DEF Clamped
  <1>4. /\ vjoy_udp_client_transform(a) = ((s + m) * 16384) \div m
        /\ vjoy_udp_client_transform(b) = ((t + m) * 16384) \div m
    BY AxisOf
  <1> HIDE DEF m, s, t
  <1>5. /\ (s + m) * 16384 \in Int /\ (t + m) * 16384 \in Int
        /\ m * 0 <= (s + m) * 16384
        /\ (s + m) * 16384 <= (t + m) * 16384
        /\ (t + m) * 16384 < m * 32769
    BY <1>1, <1>2, <1>3
  <1> DEFINE i == ((s + m) * 16384) \div m
             j == ((t + m) * 16384) \div m
  <1>6. i \in Int /\ j \in Int /\ i <= j
    BY <1>1, <1>5, QuotientOrder
  <1>7. 0 <= i
    BY <1>1, <1>5, QuotientFrom
  <1>8. j < 32769
    BY <1>1, <1>5, QuotientBelow
  <1>9. vjoy_udp_client_transform(a) = i /\ vjoy_udp_client_transform(b) = j
    BY <1>4
  <1> HIDE DEF i, j
  <1>10. AxisMax \in Nat /\ j <= AxisMax
    BY <1>6, <1>8 DEF AxisMax
  <1> QED
    BY <1>6, <1>7, <1>9, <1>10

(* The 0 that vJoy does not know is sent for the lower end of the stick,   *)
(* and for nothing else.                                                   *)
LEMMA AxisEnd ==
    ASSUME Coefficients, NEW r \in Int
    PROVE  vjoy_udp_client_transform(r) = 0 <=> Quantized(r) <= -max
  <1> DEFINE m == max - dead
             s == Clamped(Shifted(r), m)
             i == ((s + m) * 16384) \div m
  <1>1. m \in Nat \ {0} /\ m <= 16384 /\ Quantized(r) = r
    BY ScaleAssumption DEF Coefficients, NotQuantized, AxisMax, Quantized
  <1>2. s \in -m .. m /\ vjoy_udp_client_transform(r) = i
    BY AxisOf DEF Coefficients
  <1>3. s = -m <=> r <= -max
    BY ScaleAssumption DEF Shifted, Clamped, MagnitudeOf
  <1>4. r <= -max => i = 0
    <2> SUFFICES ASSUME r <= -max
                 PROVE  i = 0
      OBVIOUS
    <2>1. s = -m
      BY <1>3
    <2> HIDE DEF m, s
    <2>2. (s + m) * 16384 = 0 /\ m * 0 <= 0 /\ 0 < m * 1
      BY <1>1, <1>2, <2>1
    <2>3. 0 <= 0 \div m /\ 0 \div m < 1 /\ 0 \div m \in Int
      BY <1>1, <2>2, QuotientFrom, QuotientBelow
    <2> QED
      BY <2>2, <2>3
  <1>5. ~(r <= -max) => i >= 1
    <2> SUFFICES ASSUME ~(r <= -max)
                 PROVE  i >= 1
      OBVIOUS
    <2>1. s # -m
      BY <1>3
    <2> HIDE DEF m, s
    <2>2. (s + m) * 16384 \in Int /\ m * 1 <= (s + m) * 16384
      BY <1>1, <1>2, <2>1
    <2> QED
      BY <1>1, <2>2, QuotientFrom
  <1> HIDE DEF m, s, i
  <1> QED
    BY <1>1, <1>2, <1>4, <1>5

(* "128=neutral" is sent exactly for the dead zone.                        *)
LEMMA NeutralStick ==
    ASSUME Coefficients, NEW r \in Int
    PROVE  StickByte(r) = 128 <=> MagnitudeOf(r) < dead
  <1> DEFINE s == dsu_server_transform(r)
             i == ((s + max) * 128) \div max
  <1>1. s \in -max .. max
    BY TransformOrder DEF Coefficients
  <1>2. max \in Nat \ {0} /\ dead \in Nat /\ max <= 128 * dead
    BY ScaleAssumption DEF Coefficients
  <1>3. /\ MagnitudeOf(r) < dead => s = 0
        /\ ~(MagnitudeOf(r) < dead) => s >= dead \/ s <= -dead
    BY ScaleAssumption
    DEF Coefficients, NotQuantized, dsu_server_transform, Clamped, DeadZoned,
        MagnitudeOf, Quantized
  <1>4. StickByte(r) = IF i > 255 THEN 255 ELSE i
    BY DEF StickByte
  <1> HIDE DEF s
  <1>5. (s + max) * 128 \in Int
    BY <1>1, <1>2
  <1>6. i \in Int
    BY <1>2, <1>5, QuotientOrder
  <1>7. CASE s = 0
    <2>1. (s + max) * 128 = max * 128
      BY <1>2, <1>7
    <2>2. i = 128
      BY <1>2, <2>1, QuotientExact
    <2>3. MagnitudeOf(r) < dead
      BY <1>3, <1>2, <1>7, ScaleAssumption DEF Coefficients
    <2> HIDE DEF i
    <2> QED
      BY <1>4, <2>2, <2>3
  <1>8. CASE s < 0
    <2>1. (s + max) * 128 < max * 128
      BY <1>1, <1>2, <1>8
    <2>2. i < 128
      BY <1>2, <1>5, <2>1, QuotientBelow
    <2>3. ~(MagnitudeOf(r) < dead)
      BY <1>3, <1>8
    <2> HIDE DEF i
    <2> QED
      BY <1>4, <1>6, <2>2, <2>3
  <1>9. CASE s > 0
    <2>1. ~(MagnitudeOf(r) < dead) /\ s >= dead
      BY <1>1, <1>2, <1>3, <1>9
    <2>2. max * 129 <= (s + max) * 128
      BY <1>1, <1>2, <2>1
    <2>3. 129 <= i
      BY <1>2, <1>5, <2>2, QuotientFrom
    <2> HIDE DEF i
    <2> QED
      BY <1>4, <1>6, <2>1, <2>3
  <1> QED
    BY <1>1, <1>2, <1>7, <1>8, <1>9

(* The axis rests in its middle for the dead zone.                         *)
LEMMA NeutralAxis ==
    ASSUME NotQuantized, NEW r \in Int, r = 0 \/ MagnitudeOf(r) < dead
    PROVE  vjoy_udp_client_transform(r) = AxisMax \div 2
  <1> DEFINE m == max - dead
  <1>1. m \in Nat \ {0}
    BY ScaleAssumption
  <1>2. Shifted(r) = 0
    BY ScaleAssumption DEF Shifted, MagnitudeOf
  <1>3. vjoy_udp_client_transform(r) = ((Clamped(Shifted(r), m) + m) * 16384) \div m
    BY AxisOf
  <1> HIDE DEF m
  <1>4. (Clamped(Shifted(r), m) + m) * 16384 = m * 16384
    BY <1>1, <1>2 DEF Clamped
  <1>5. (m * 16384) \div m = 16384
    BY <1>1, QuotientExact
  <1> QED
    BY <1>3, <1>4, <1>5 DEF AxisMax

(* A unit of the reading moves the axis by at most its share of the range. *)
LEMMA AxisStep ==
    ASSUME NotQuantized, NEW r \in Int
    PROVE  vjoy_udp_client_transform(r + 1) - vjoy_udp_client_transform(r) \in
               0 .. (AxisMax \div 2) \div (max - dead) + 1
  <1> DEFINE m == max - dead
             s == Clamped(Shifted(r), m)
             t == Clamped(Shifted(r + 1), m)
  <1>1. m \in Nat \ {0}
    BY ScaleAssumption
  <1>2. s \in -m .. m /\ t \in -m .. m
    BY AxisOf
  <1>3. t = s \/ t = s + 1
    <2>1. /\ Shifted(r) \in Int
          /\ Shifted(r + 1) = Shifted(r) \/ Shifted(r + 1) = Shifted(r) + 1
      BY ScaleAssumption DEF Shifted, MagnitudeOf
    <2> HIDE DEF m
    <2> QED
      BY <1>1, <2>1 DEF Clamped
  <1>4. /\ vjoy_udp_client_transform(r) = ((s + m) * 16384) \div m
        /\ vjoy_udp_client_transform(r + 1) = ((t + m) * 16384) \div m
    BY AxisOf
  <1>5. AxisMax \div 2 = 16384
    BY DEF AxisMax
  <1> HIDE DEF m, s, t
  <1> DEFINE a == (s + m) * 16384
             h == 16384 \div m
  <1>6. a \in Int /\ (t + m) * 16384 \in {a, a + 16384}
    BY <1>1, <1>2, <1>3
  <1>7. h \in Nat /\ a \div m \in Int
    BY <1>1, <1>2
  <1>8. (a + 16384) \div m - a \div m \in h .. h + 1
    BY <1>1, <1>6, QuotientStep
  <1>9. (a + 16384) \div m \in Int
    BY <1>1, <1>6
  <1> DEFINE b == (t + m) * 16384
  <1>10. b = a \/ b = a + 16384
    BY <1>6
  <1>11. vjoy_udp_client_transform(r) = a \div m /\ vjoy_udp_client_transform(r + 1) = b \div m
    BY <1>4
  <1> HIDE DEF a, b, h
  <1>12. b \div m - a \div m \in 0 .. h + 1
    BY <1>7, <1>8, <1>9, <1>10
  <1>13. h = (AxisMax \div 2) \div (max - dead)
    BY <1>5 DEF h, m
  <1> HIDE DEF h
  <1> QED
    BY <1>11, <1>12, <1>13

------------------------------------------------------------------------------
(* The mean of integers between l and h lies between them, also though the
   division of C goes towards zero.                                        *)
LEMMA MeanBetween ==
    ASSUME count \in Nat, NEW x, sum + x \in Int, NEW l \in Int, NEW h \in Int,
           (count + 1) * l <= sum + x, sum + x <= (count + 1) * h
    PROVE  Mean(x) \in l .. h
  <1> DEFINE s == sum + x
             n == count + 1
  <1>1. n \in Nat \ {0} /\ s \in Int /\ n * l <= s /\ s <= n * h
    OBVIOUS
  <1>2. Mean(x) = IF s < 0 THEN -(-s \div n) ELSE s \div n
    BY DEF Mean
  <1> HIDE DEF s, n
  <1>3. CASE s < 0
    <2> DEFINE q == -s \div n
    <2>1. -s \in Int /\ n * (-h) <= -s /\ -s < n * (-l + 1)
      BY <1>1
    <2>2. q \in Int
      BY <1>1, <2>1
    <2>3. -h <= q
      BY <1>1, <2>1, QuotientFrom
    <2>4. q < -l + 1
      BY <1>1, <2>1, QuotientBelow
    <2>5. Mean(x) = -q
      BY <1>2, <1>3
    <2> HIDE DEF q
    <2> QED
      BY <2>2, <2>3, <2>4, <2>5
  <1>4. CASE ~(s < 0)
    <2> DEFINE q == s \div n
    <2>1. s < n * (h + 1)
      BY <1>1
    <2>2. q \in Int
      BY <1>1
    <2>3. l <= q
      BY <1>1, QuotientFrom
    <2>4. q < h + 1
      BY <1>1, <2>1, QuotientBelow
    <2>5. Mean(x) = q
      BY <1>2, <1>4
    <2> HIDE DEF q
    <2> QED
      BY <2>2, <2>3, <2>4, <2>5
  <1> QED
    BY <1>3, <1>4

(* The sum lies between count times the extremes of the readings, and what
   the last packet said of the stick is what a reading between the extremes
   of that packet would say.                                               *)
Says(m) == report.stick = StickByte(m) /\ report.axis = vjoy_udp_client_transform(m)

MeanInv ==
    /\ count \in Nat /\ sum \in Int /\ low \in Int /\ high \in Int
    /\ count * low <= sum /\ sum <= count * high
    /\ \E m \in Int : Says(m)
    /\ count = 0 => \E m \in low .. high : Says(m)

(* The extremes and the sum with one reading more.                         *)
LEMMA ExtremesKept ==
    ASSUME MeanInv, NEW b, NEW x \in Int, Remember(b, x)
    PROVE  /\ low' \in Int /\ high' \in Int
           /\ (count + 1) * low' <= sum + x /\ sum + x <= (count + 1) * high'
  <1>1. /\ low' = IF count = 0 \/ x < low THEN x ELSE low
        /\ high' = IF count = 0 \/ x > high THEN x ELSE high
    BY DEF Remember
  <1>2. /\ count \in Nat /\ sum \in Int /\ low \in Int /\ high \in Int
        /\ count * low <= sum /\ sum <= count * high
    BY DEF MeanInv
  <1>3. low' \in Int /\ high' \in Int /\ low' <= x /\ x <= high'
    BY <1>1, <1>2
  <1>4. CASE count = 0
    BY <1>1, <1>2, <1>4
  <1>5. CASE count # 0
    <2>1. low' <= low /\ high <= high'
      BY <1>1, <1>2, <1>5
    <2>2. count * low' <= count * low /\ count * high <= count * high'
      BY <1>2, <1>3, <2>1, ProductOrder
    <2>3. /\ count * low' \in Int /\ count * high' \in Int
          /\ (count + 1) * low' = count * low' + low'
          /\ (count + 1) * high' = count * high' + high'
      BY <1>2, <1>3, ProductNext
    <2>4. count * low \in Int /\ count * high \in Int
      BY <1>2, ProductNext
    <2>5. /\ count * low' + low' <= sum + x
          /\ sum + x <= count * high' + high'
      BY <1>2, <1>3, <2>2, <2>3, <2>4, SumOrder, Zenon
    <2> QED
      BY <1>3, <2>3, <2>5, Zenon
  <1> QED
    BY <1>3, <1>4, <1>5

(* One turn of the loop keeps the mean within the extremes.                *)
LEMMA MeanKept ==
    ASSUME MeanInv, NEW b, NEW x \in Int, NEW t, Update(b, x, t)
    PROVE  MeanInv'
  <1>1. PICK e : (Gather(b, x, e) \/ MakePacket(b, x, e)) /\ Remember(b, x)
    BY DEF Update
  <1>2. /\ low' \in Int /\ high' \in Int
        /\ (count + 1) * low' <= sum + x /\ sum + x <= (count + 1) * high'
    BY <1>1, ExtremesKept
  <1>3. count \in Nat /\ sum + x \in Int
    BY DEF MeanInv
  <1>4. CASE Gather(b, x, e)
    <2>1. sum' = sum + x /\ count' = count + 1 /\ report' = report
      BY <1>4 DEF Gather
    <2>2. count' \in Nat /\ count' # 0 /\ sum' \in Int
      BY <1>3, <2>1
    <2>3. count' * low' <= sum' /\ sum' <= count' * high'
      BY <1>2, <2>1
    <2>4. PICK m \in Int : Says(m)
      BY DEF MeanInv
    <2>5. Says(m)'
      BY <2>1, <2>4 DEF Says
    <2> QED
      BY <1>2, <2>2, <2>3, <2>5 DEF MeanInv
  <1>5. CASE MakePacket(b, x, e)
    <2>1. sum' = 0 /\ count' = 0
      BY <1>5 DEF MakePacket
    <2>2. Mean(x) \in low' .. high'
      BY <1>2, <1>3, MeanBetween
    <2>3. /\ report'.stick = StickByte(Mean(x))
          /\ report'.axis = vjoy_udp_client_transform(Mean(x))
      BY <1>5 DEF MakePacket
    <2> DEFINE m == Mean(x)
    <2>4. m \in low' .. high' /\ m \in Int
      BY <1>2, <2>2
    <2>5. report'.stick = StickByte(m) /\ report'.axis = vjoy_udp_client_transform(m)
      BY <2>3
    <2> HIDE DEF m
    <2>6. \E k \in low' .. high' :
              report'.stick = StickByte(k) /\ report'.axis = vjoy_udp_client_transform(k)
      BY <2>4, <2>5
    <2>7. \E k \in Int :
              report'.stick = StickByte(k) /\ report'.axis = vjoy_udp_client_transform(k)
      BY <2>4, <2>5
    <2>8. 0 * low' = 0 /\ 0 * high' = 0
      BY <1>2, ProductNext
    <2>9. /\ count' \in Nat /\ sum' \in Int
          /\ count' * low' <= sum' /\ sum' <= count' * high'
      <3>1. count' * low' = 0 /\ count' * high' = 0
        BY <2>1, <2>8
      <3> QED
        BY <2>1, <3>1
    <2> QED
      BY <1>2, <2>6, <2>7, <2>9, Zenon DEF MeanInv, Says
  <1> QED
    BY <1>1, <1>4, <1>5

(* The mean of the readings lies within their extremes, in every state.    *)
THEOREM MeanInvariant == FeedSpec => []MeanInv
  <1>1. FeedInit => MeanInv
    <2> SUFFICES ASSUME FeedInit PROVE MeanInv
      OBVIOUS
    <2>1. count = 0 /\ sum = 0 /\ low = 0 /\ high = 0
      BY DEF FeedInit
    <2>2. report.stick = StickByte(0) /\ report.axis = vjoy_udp_client_transform(0)
      <3> DEFINE stick == StickByte(0)
                 axis == vjoy_udp_client_transform(0)
      <3>1. report = [but |-> {}, id |-> 0, stick |-> stick, axis |-> axis]
        BY DEF FeedInit
      <3> HIDE DEF stick, axis
      <3>2. report.stick = stick /\ report.axis = axis
        BY <3>1
      <3> QED
        BY <3>2 DEF stick, axis
    <2>3. Says(0)
      BY <2>2 DEF Says
    <2> QED
      BY <2>1, <2>3 DEF MeanInv
  <1>2. MeanInv /\ [FeedNext]_feedvars => MeanInv'
    <2>1. ASSUME MeanInv, FeedNext PROVE MeanInv'
      <3>1. PICK b \in SUBSET Button, x \in Position : \E t : Update(b, x, t)
        BY <2>1 DEF FeedNext, Forwards, Backwards
      <3>2. x \in Int
        BY PadAssumption, ScaleAssumption DEF Reading
      <3> QED
        BY <2>1, <3>1, <3>2, MeanKept
    <2>2. MeanInv /\ UNCHANGED feedvars => MeanInv'
      BY DEF MeanInv, Says, feedvars, data, history
    <2> QED
      BY <2>1, <2>2
  <1> QED
    BY <1>1, <1>2, PTL DEF FeedSpec

(* The stick a packet reports lies between what the extremes of its readings
   would say, however many of them there are.                              *)
THEOREM SticksAreBetween ==
    ASSUME NotQuantized
    PROVE  FeedSpec => []StickBetween
  <1>1. ASSUME MeanInv, count = 0
        PROVE  /\ report.stick \in StickByte(low) .. StickByte(high)
               /\ report.axis \in vjoy_udp_client_transform(low) ..
                                      vjoy_udp_client_transform(high)
    <2>1. PICK m \in low .. high : Says(m)
      BY <1>1 DEF MeanInv
    <2>2. low \in Int /\ high \in Int /\ m \in Int /\ low <= m /\ m <= high
      BY <1>1 DEF MeanInv
    <2>3. /\ StickByte(low) \in 0 .. 255 /\ StickByte(m) \in 0 .. 255
          /\ StickByte(high) \in 0 .. 255
          /\ StickByte(low) <= StickByte(m) /\ StickByte(m) <= StickByte(high)
      BY <2>2, StickOrder
    <2>4. /\ vjoy_udp_client_transform(low) \in 0 .. AxisMax
          /\ vjoy_udp_client_transform(m) \in 0 .. AxisMax
          /\ vjoy_udp_client_transform(high) \in 0 .. AxisMax
          /\ vjoy_udp_client_transform(low) <= vjoy_udp_client_transform(m)
          /\ vjoy_udp_client_transform(m) <= vjoy_udp_client_transform(high)
      BY <2>2, AxisOrder
    <2>5. AxisMax \in Int
      BY DEF AxisMax
    <2> QED
      BY <2>1, <2>3, <2>4, <2>5 DEF Says
  <1>2. MeanInv => StickBetween
    BY <1>1 DEF StickBetween
  <1> QED
    BY <1>2, MeanInvariant, PTL

(* Both scales are right for every reading there can be, but for the 0 the
   lower end of a vJoy axis gives, and the protocols agree about a neutral
   stick in every packet.                                                  *)
THEOREM ScalesAreRight ==
    ASSUME Coefficients
    PROVE  FeedSpec => []ScalesRight
  <1>1. NotQuantized
    BY DEF Coefficients
  <1>2. \A r \in Reading : r \in Int /\ r + 1 \in Int
    BY ScaleAssumption DEF Reading
  <1>3. SticksFit
    <2> SUFFICES ASSUME NEW r \in Reading
                 PROVE  /\ StickByte(r) \in 0 .. 255
                        /\ StickByte(r) = 128 <=> MagnitudeOf(r) < dead
      BY DEF SticksFit
    <2>1. r \in Int /\ r <= r
      BY <1>2
    <2> QED
      BY <1>1, <2>1, StickOrder, NeutralStick
  <1>4. AxesNoJump
    <2>1. vjoy_udp_client_transform(0) = AxisMax \div 2
      BY <1>1, NeutralAxis
    <2>2. ASSUME NEW r \in Reading
          PROVE  /\ vjoy_udp_client_transform(r) \in 0 .. AxisMax
                 /\ vjoy_udp_client_transform(r) = 0 <=> Quantized(r) <= -max
                 /\ vjoy_udp_client_transform(r + 1) - vjoy_udp_client_transform(r) \in
                        0 .. (AxisMax \div 2) \div (max - dead) + 1
      <3>1. r \in Int /\ r <= r
        BY <1>2
      <3> QED
        BY <1>1, <3>1, AxisOrder, AxisStep, AxisEnd
    <2> QED
      BY <2>1, <2>2, Zenon DEF AxesNoJump
  <1>5. ASSUME MeanInv, report.stick = 128
        PROVE  report.axis = AxisMax \div 2
    <2>1. PICK m \in Int : Says(m)
      BY <1>5 DEF MeanInv
    <2>2. MagnitudeOf(m) < dead
      BY <1>5, <2>1, NeutralStick DEF Says
    <2>3. vjoy_udp_client_transform(m) = AxisMax \div 2
      BY <1>1, <2>2, NeutralAxis
    <2> QED
      BY <2>1, <2>3 DEF Says
  <1>6. MeanInv => ScalesRight
    BY <1>3, <1>4, <1>5 DEF ScalesRight
  <1> QED
    BY <1>6, MeanInvariant, PTL
================================================================================
