------------------------------- MODULE RfbReader -------------------------------
(***************************************************************************)
(* ReadFromRFBServer() of rfb/sockets.c: the reads of the protocol are     *)
(* answered from client->buf, which is filled with whatever the socket has *)
(* to offer; a read longer than the buffer goes around it.  A byte is      *)
(* known by its position in the stream the server sends.                   *)
(***************************************************************************)
EXTENDS Integers, Sequences

CONSTANT RFB_BUF_SIZE      (* bytes of client->buf *)

ASSUME ReaderAssumption == RFB_BUF_SIZE \in Nat \ {0}

VARIABLES
    arrived,               (* bytes the network has brought to the socket   *)
    taken,                 (* bytes read() has taken from the socket        *)
    closed,                (* the server has closed, or the network broke   *)
    buf, bufoutptr, buffered,   (* the fields of rfbClient                  *)
    rpc,                   (* where ReadFromRFBServer() is                  *)
    want, out,             (* its argument n, and what is in the caller's   *)
                           (* memory                                        *)
    ok                     (* what the last call returned                   *)

netvars == <<arrived, closed>>
bufvars == <<taken, buf, bufoutptr, buffered>>
callvars == <<rpc, want, out, ok>>
rvars == <<netvars, bufvars, callvars>>

Least(a, b) == IF a <= b THEN a ELSE b
Cells == 0 .. RFB_BUF_SIZE - 1

(* The n bytes from bufoutptr on, where memcpy() takes them.               *)
Buffered(n) == [i \in 1 .. n |-> buf[bufoutptr + i - 1]]
Rest == want - Len(out)
Available == arrived - taken

ReaderInit ==
    /\ arrived = 0 /\ taken = 0 /\ closed = FALSE
    /\ buf = [c \in Cells |-> 0] /\ bufoutptr = 0 /\ buffered = 0
    /\ rpc = "idle" /\ want = 0 /\ out = <<>> /\ ok = TRUE
--------------------------------------------------------------------------------
(* The network, up to the bytes the server has sent.                       *)
Arrive(sent) ==
    /\ ~closed
    /\ arrived' \in arrived + 1 .. sent
    /\ UNCHANGED <<closed, bufvars, callvars>>

Close ==
    /\ ~closed
    /\ closed' = TRUE
    /\ UNCHANGED <<arrived, bufvars, callvars>>
--------------------------------------------------------------------------------
(* The call is answered from the buffer, or takes what the buffer has and  *)
(* goes on at the socket.                                                  *)
CallBuffered(n) ==
    /\ rpc = "idle" /\ ok
    /\ n <= buffered
    /\ want' = n
    /\ out' = <<>>
    /\ rpc' = "copy"
    /\ UNCHANGED <<netvars, bufvars, ok>>

CallKeepsBuffered(n) ==                   \* plausible bug: buffered not reset
    /\ rpc = "idle" /\ ok
    /\ n > buffered
    /\ want' = n
    /\ out' = Buffered(buffered)
    /\ bufoutptr' = 0
    /\ rpc' = IF n - buffered <= RFB_BUF_SIZE THEN "fill" ELSE "direct"
    /\ UNCHANGED <<netvars, taken, buf, buffered, ok>>

CallSocket(n) ==
    /\ rpc = "idle" /\ ok
    /\ n > buffered
    /\ want' = n
    /\ out' = Buffered(buffered)
    /\ bufoutptr' = 0 /\ buffered' = 0
    /\ rpc' = IF n - buffered <= RFB_BUF_SIZE THEN "fill" ELSE "direct"
    /\ UNCHANGED <<netvars, taken, buf, ok>>

Read(n) == CallBuffered(n) \/ CallSocket(n)

(* read() into the room that is left in the buffer.                        *)
Fill ==
    /\ rpc = "fill"
    /\ buffered < Rest
    /\ Available > 0
    /\ LET i == Least(Available, RFB_BUF_SIZE - buffered)
       IN  /\ buf' = [c \in Cells |->
                         IF c \in buffered .. buffered + i - 1
                         THEN taken + c - buffered ELSE buf[c]]
           /\ buffered' = buffered + i
           /\ taken' = taken + i
           /\ rpc' = IF buffered' >= Rest THEN "copy" ELSE "fill"
    /\ UNCHANGED <<netvars, bufoutptr, want, out, ok>>

(* memcpy() of the rest, and the call returns TRUE.                        *)
Copy ==
    /\ rpc = "copy"
    /\ out' = out \o Buffered(Rest)
    /\ bufoutptr' = bufoutptr + Rest
    /\ buffered' = buffered - Rest
    /\ rpc' = "idle"
    /\ UNCHANGED <<netvars, taken, buf, want, ok>>

(* read() straight into the caller's memory.                               *)
DirectTo(i) ==
    /\ out' = out \o [j \in 1 .. i |-> taken + j - 1]
    /\ taken' = taken + i
    /\ rpc' = IF Len(out) + i = want THEN "idle" ELSE "direct"
    /\ UNCHANGED <<netvars, buf, bufoutptr, buffered, want, ok>>

Direct ==
    rpc = "direct" /\ Available > 0 /\ DirectTo(Least(Available, Rest))

(* read() answers 0 or an error: FALSE.  Where the network broke, bytes    *)
(* that had arrived may be lost.                                           *)
ReadFails ==
    /\ rpc \in {"fill", "direct"}
    /\ closed
    /\ ok' = FALSE
    /\ rpc' = "idle"
    /\ UNCHANGED <<netvars, bufvars, want, out>>

InRead == Fill \/ Copy \/ Direct \/ ReadFails
--------------------------------------------------------------------------------
(* The reader with a caller that asks for anything, to be proved about.    *)
ReaderNext ==
    \/ \E sent \in Nat : Arrive(sent)
    \/ Close
    \/ \E n \in Nat : Read(n)
    \/ InRead

ReaderSpec == ReaderInit /\ [][ReaderNext]_rvars

(* The position of the first byte no finished call has handed out.         *)
Consumed == taken - buffered - (IF rpc = "idle" /\ ok THEN 0 ELSE Len(out))
--------------------------------------------------------------------------------
BufferInv ==
    /\ taken <= arrived
    /\ bufoutptr + buffered <= RFB_BUF_SIZE
    /\ \A c \in bufoutptr .. bufoutptr + buffered - 1 :
           buf[c] = taken - buffered + (c - bufoutptr)

CallInv ==
    /\ rpc = "fill" => /\ bufoutptr = 0
                       /\ buffered < Rest
                       /\ Rest <= RFB_BUF_SIZE
    /\ rpc = "copy" => Rest \in 0 .. buffered
    /\ rpc = "direct" => buffered = 0 /\ Rest > 0
    /\ rpc # "idle" => ok
    /\ rpc = "idle" /\ ok => Len(out) = want
    /\ rpc = "idle" /\ ~ok => buffered < Rest

ReaderTypeOK ==
    /\ arrived \in Nat /\ taken \in Nat /\ closed \in BOOLEAN
    /\ buf \in [Cells -> Nat]
    /\ bufoutptr \in 0 .. RFB_BUF_SIZE
    /\ buffered \in 0 .. RFB_BUF_SIZE
    /\ rpc \in {"idle", "copy", "fill", "direct"}
    /\ want \in Nat
    /\ out \in Seq(Nat)
    /\ ok \in BOOLEAN

(* The bytes handed over are those from Consumed on, in their order.       *)
OutInv ==
    LET first == IF rpc = "idle" /\ ok
                 THEN Consumed - Len(out) ELSE Consumed
    IN  \A i \in 1 .. Len(out) : out[i] = first + i - 1

ReaderInv == ReaderTypeOK /\ BufferInv /\ CallInv /\ OutInv

(* What the caller gets is the stream of ByteStream.tla, whatever the      *)
(* sizes of its reads and of the pieces the network brings.                *)
Stream == INSTANCE ByteStream WITH
    next <- Consumed,
    asking <- IF rpc = "idle" THEN -1 ELSE want,
    answer <- IF rpc = "idle" /\ ok THEN out ELSE <<>>,
    failed <- ~ok

(* The reader hands out every byte once and in order, or fails for good.   *)
ImplementsStream == Stream!SSpec
===============================================================================
