---------------------------- MODULE VncClientProofs ----------------------------
(***************************************************************************)
(* For every size of the buffer and however the bytes arrive,              *)
(* ReadFromRFBServer() hands out the bytes of the stream in their order;   *)
(* and the protocol that reads by it goes on asking for updates, paints    *)
(* inside its frame buffer and stays in step with the server, whatever the *)
(* server sends.                                                           *)
(***************************************************************************)
EXTENDS VncClient, NumberLemmas, SequenceTheorems, TLAPS

LEMMA Concat ==
    ASSUME NEW s \in Seq(Nat), NEW t \in Seq(Nat), NEW first \in Int,
           \A i \in 1 .. Len(s) : s[i] = first + i - 1,
           \A i \in 1 .. Len(t) : t[i] = first + Len(s) + i - 1
    PROVE  /\ s \o t \in Seq(Nat)
           /\ Len(s \o t) = Len(s) + Len(t)
           /\ \A i \in 1 .. Len(s \o t) : (s \o t)[i] = first + i - 1
OBVIOUS

LEMMA RunOfNat ==
    ASSUME NEW n \in Nat, NEW a \in Nat
    PROVE  /\ [i \in 1 .. n |-> a + i - 1] \in Seq(Nat)
           /\ Len([i \in 1 .. n |-> a + i - 1]) = n
           /\ \A i \in 1 .. n : [j \in 1 .. n |-> a + j - 1][i] = a + i - 1
OBVIOUS

(* What memcpy() takes out of a buffer that holds the stream.              *)
LEMMA BufferedBytes ==
    ASSUME ReaderTypeOK, BufferInv, NEW n \in Nat, n <= buffered
    PROVE  /\ Buffered(n) \in Seq(Nat)
           /\ Len(Buffered(n)) = n
           /\ \A i \in 1 .. n : Buffered(n)[i] = taken - buffered + i - 1
<1> USE ReaderAssumption DEF ReaderTypeOK
<1>1. \A i \in 1 .. n : /\ bufoutptr + i - 1 \in Cells
                        /\ bufoutptr + i - 1 \in bufoutptr .. bufoutptr + buffered - 1
  BY DEF BufferInv, Cells
<1>2. \A i \in 1 .. n : buf[bufoutptr + i - 1] = taken - buffered + i - 1
  BY <1>1 DEF BufferInv
<1>3. \A i \in 1 .. n : buf[bufoutptr + i - 1] \in Nat
  BY <1>1
<1> QED BY <1>2, <1>3 DEF Buffered

(* The invariant as the steps use it: First is where the bytes handed over *)
(* begin.                                                                  *)
First == IF rpc = "idle" /\ ok THEN Consumed - Len(out) ELSE Consumed

LEMMA ConsumedIsInt == ASSUME ReaderTypeOK PROVE Consumed \in Int /\ First \in Int
BY DEF ReaderTypeOK, Consumed, First

LEMMA InitInv == ReaderInit => ReaderInv
<1> SUFFICES ASSUME ReaderInit PROVE ReaderInv
  OBVIOUS
<1> USE ReaderAssumption DEF ReaderInit
<1>1. ReaderTypeOK
  <2>1. buf \in [Cells -> Nat]
    OBVIOUS
  <2>2. bufoutptr \in 0 .. RFB_BUF_SIZE /\ buffered \in 0 .. RFB_BUF_SIZE
    OBVIOUS
  <2>3. out \in Seq(Nat)
    OBVIOUS
  <2>4. ok \in BOOLEAN /\ closed \in BOOLEAN
    OBVIOUS
  <2> QED BY <2>1, <2>2, <2>3, <2>4 DEF ReaderTypeOK
<1>2. BufferInv /\ CallInv /\ OutInv
  BY DEF BufferInv, CallInv, OutInv, Rest
<1> QED BY <1>1, <1>2 DEF ReaderInv

(* The network disturbs nothing but what may be read.                      *)
LEMMA NetworkInv ==
    ASSUME ReaderInv, \/ \E sent \in Nat : Arrive(sent)
                      \/ Close
    PROVE  ReaderInv'
<1>1. /\ arrived' \in Nat /\ arrived' >= arrived /\ closed' \in BOOLEAN
      /\ UNCHANGED <<bufvars, callvars>>
  <2>1. CASE \E sent \in Nat : Arrive(sent)
    <3>1. PICK sent \in Nat : Arrive(sent)
      BY <2>1
    <3>2. arrived \in Nat /\ closed \in BOOLEAN
      BY DEF ReaderInv, ReaderTypeOK
    <3> QED BY <3>1, <3>2 DEF Arrive
  <2>2. CASE Close
    BY <2>2 DEF Close, ReaderInv, ReaderTypeOK
  <2> QED BY <2>1, <2>2
<1>2. UNCHANGED <<taken, buf, bufoutptr, buffered, rpc, want, out, ok>>
  BY <1>1 DEF bufvars, callvars
<1>3. ReaderTypeOK'
  BY <1>1, <1>2 DEF ReaderInv, ReaderTypeOK
<1>4. BufferInv'
  BY <1>1, <1>2 DEF ReaderInv, BufferInv, ReaderTypeOK
<1>5. CallInv'
  BY <1>2 DEF ReaderInv, CallInv, Rest
<1>6. OutInv'
  BY <1>2 DEF ReaderInv, OutInv, Consumed
<1> QED BY <1>3, <1>4, <1>5, <1>6 DEF ReaderInv

LEMMA CallBufferedInv ==
    ASSUME ReaderInv, NEW n \in Nat, CallBuffered(n)
    PROVE  ReaderInv'
<1> USE DEF CallBuffered, bufvars, netvars
<1>1. ReaderTypeOK'
  BY DEF ReaderInv, ReaderTypeOK
<1>2. BufferInv'
  BY DEF ReaderInv, BufferInv
<1>3. CallInv'
  BY DEF ReaderInv, CallInv, ReaderTypeOK, Rest
<1>4. OutInv'
  BY DEF OutInv
<1> QED BY <1>1, <1>2, <1>3, <1>4 DEF ReaderInv

LEMMA CallSocketInv ==
    ASSUME ReaderInv, NEW n \in Nat, CallSocket(n)
    PROVE  ReaderInv'
<1> USE ReaderAssumption DEF CallSocket, netvars
<1>1. /\ out' \in Seq(Nat)
      /\ Len(out') = buffered
      /\ \A i \in 1 .. buffered : out'[i] = taken - buffered + i - 1
  <2>1. buffered \in Nat /\ buffered <= buffered
    BY DEF ReaderInv, ReaderTypeOK
  <2> QED BY <2>1, BufferedBytes DEF ReaderInv
<1>2. ReaderTypeOK'
  BY <1>1 DEF ReaderInv, ReaderTypeOK
<1>3. BufferInv'
  BY DEF ReaderInv, ReaderTypeOK, BufferInv
<1>4. CallInv'
  BY <1>1 DEF ReaderInv, CallInv, ReaderTypeOK, Rest
<1>5. OutInv'
  <2>1. Consumed' = taken - buffered
    BY <1>1 DEF Consumed, ReaderInv, ReaderTypeOK
  <2>2. rpc' # "idle"
    OBVIOUS
  <2> QED BY <1>1, <2>1, <2>2 DEF OutInv
<1> QED BY <1>2, <1>3, <1>4, <1>5 DEF ReaderInv

LEMMA FillInv == ASSUME ReaderInv, Fill PROVE ReaderInv'
<1> DEFINE i == Least(Available, RFB_BUF_SIZE - buffered)
<1>1. /\ i \in Nat \ {0} /\ i <= arrived - taken /\ i <= RFB_BUF_SIZE - buffered
  BY ReaderAssumption
     DEF Fill, Least, Available, ReaderInv, ReaderTypeOK, CallInv, Rest
<1>2. /\ rpc = "fill" /\ buffered < Rest /\ bufoutptr = 0 /\ ok
      /\ buf' = [c \in Cells |-> IF c \in buffered .. buffered + i - 1
                                 THEN taken + c - buffered ELSE buf[c]]
      /\ buffered' = buffered + i /\ taken' = taken + i
      /\ rpc' = IF buffered' >= Rest THEN "copy" ELSE "fill"
      /\ UNCHANGED <<arrived, closed, bufoutptr, want, out, ok>>
  BY DEF Fill, netvars, ReaderInv, CallInv
<1> HIDE DEF i
<1>3. ReaderTypeOK'
  <2>1. buf' \in [Cells -> Nat]
    BY <1>1, <1>2, ReaderAssumption DEF ReaderInv, ReaderTypeOK, Cells
  <2>2. buffered' \in 0 .. RFB_BUF_SIZE /\ taken' \in Nat
    BY <1>1, <1>2, ReaderAssumption DEF ReaderInv, ReaderTypeOK
  <2> QED BY <1>2, <2>1, <2>2 DEF ReaderInv, ReaderTypeOK
<1>4. BufferInv'
  <2>1. taken' <= arrived' /\ bufoutptr' + buffered' <= RFB_BUF_SIZE
    BY <1>1, <1>2, ReaderAssumption DEF ReaderInv, ReaderTypeOK, BufferInv
  <2>2. ASSUME NEW c \in bufoutptr' .. bufoutptr' + buffered' - 1
        PROVE  buf'[c] = taken' - buffered' + (c - bufoutptr')
    <3>1. c \in Cells /\ c \in Nat
      BY <1>1, <1>2, ReaderAssumption DEF ReaderInv, ReaderTypeOK, Cells
    <3>2. CASE c \in buffered .. buffered + i - 1
      BY <1>1, <1>2, <3>1, <3>2 DEF ReaderInv, ReaderTypeOK
    <3>3. CASE c \notin buffered .. buffered + i - 1
      <4>1. c \in bufoutptr .. bufoutptr + buffered - 1
        BY <1>1, <1>2, <3>1, <3>3 DEF ReaderInv, ReaderTypeOK
      <4>2. buf'[c] = buf[c]
        BY <1>2, <3>1, <3>3
      <4> QED BY <1>1, <1>2, <4>1, <4>2 DEF ReaderInv, ReaderTypeOK, BufferInv
    <3> QED BY <3>2, <3>3
  <2> QED BY <2>1, <2>2 DEF BufferInv
<1>5. CallInv'
  BY <1>1, <1>2 DEF ReaderInv, ReaderTypeOK, CallInv, Rest
<1>6. OutInv'
  <2>1. Consumed' = Consumed
    BY <1>1, <1>2 DEF Consumed, ReaderInv, ReaderTypeOK
  <2> QED BY <1>2, <2>1 DEF OutInv, ReaderInv
<1> QED BY <1>3, <1>4, <1>5, <1>6 DEF ReaderInv

LEMMA CopyInv ==
    ASSUME ReaderInv, Copy
    PROVE  ReaderInv' /\ Len(out') = want /\ Consumed' = Consumed + want
<1> USE DEF Copy, netvars
<1>1. /\ rpc = "copy" /\ ok /\ out \in Seq(Nat) /\ Len(out) \in Nat
      /\ Rest \in Nat /\ Rest <= buffered /\ Rest = want - Len(out)
      /\ Consumed = taken - buffered - Len(out)
  <2>1. Rest >= 0
    BY DEF ReaderInv, CallInv
  <2> QED BY <2>1 DEF ReaderInv, ReaderTypeOK, CallInv, Rest, Consumed
<1>2. /\ Buffered(Rest) \in Seq(Nat)
      /\ Len(Buffered(Rest)) = Rest
      /\ \A i \in 1 .. Rest : Buffered(Rest)[i] = taken - buffered + i - 1
  BY <1>1, BufferedBytes DEF ReaderInv
<1>3. /\ out' \in Seq(Nat)
      /\ Len(out') = want
      /\ \A i \in 1 .. Len(out') : out'[i] = Consumed + i - 1
  <2>1. Consumed \in Int
    BY ConsumedIsInt DEF ReaderInv
  <2>2. \A i \in 1 .. Len(out) : out[i] = Consumed + i - 1
    BY <1>1 DEF ReaderInv, OutInv
  <2>3. \A i \in 1 .. Len(Buffered(Rest)) :
            Buffered(Rest)[i] = Consumed + Len(out) + i - 1
    BY <1>1, <1>2, <2>1 DEF ReaderInv, ReaderTypeOK
  <2> QED BY <1>1, <1>2, <2>1, <2>2, <2>3, Concat DEF ReaderInv, ReaderTypeOK
<1>4. Consumed' = Consumed + want
  BY <1>1 DEF Consumed, ReaderInv, ReaderTypeOK
<1>5. ReaderTypeOK'
  <2>1. bufoutptr' \in 0 .. RFB_BUF_SIZE /\ buffered' \in 0 .. RFB_BUF_SIZE
    BY <1>1, ReaderAssumption DEF ReaderInv, ReaderTypeOK, BufferInv
  <2>2. ok' \in BOOLEAN
    BY DEF ReaderInv, ReaderTypeOK
  <2> QED BY <1>3, <2>1, <2>2 DEF ReaderInv, ReaderTypeOK
<1>6. BufferInv'
  BY <1>1 DEF ReaderInv, ReaderTypeOK, BufferInv
<1>7. CallInv'
  BY <1>1, <1>3 DEF CallInv
<1>8. OutInv'
  <2>1. Consumed' - Len(out') = Consumed
    <3>1. Consumed \in Int /\ want \in Nat
      BY ConsumedIsInt DEF ReaderInv, ReaderTypeOK
    <3> QED BY <1>3, <1>4, <3>1
  <2> QED BY <1>1, <1>3, <2>1 DEF OutInv
<1> QED BY <1>3, <1>4, <1>5, <1>6, <1>7, <1>8 DEF ReaderInv

LEMMA DirectInv ==
    ASSUME ReaderInv, Direct
    PROVE  /\ ReaderInv'
           /\ rpc' = "idle" => Len(out') = want /\ Consumed' = Consumed + want
           /\ rpc' # "idle" => Consumed' = Consumed
<1> DEFINE i == Least(Available, Rest)
           new == [j \in 1 .. i |-> taken + j - 1]
<1>1. /\ rpc = "direct" /\ ok /\ buffered = 0
      /\ out \in Seq(Nat) /\ Len(out) \in Nat /\ want \in Nat
      /\ taken \in Nat /\ arrived \in Nat
      /\ Consumed = taken - Len(out)
  BY DEF Direct, ReaderInv, ReaderTypeOK, CallInv, Consumed
<1>2. i \in Nat \ {0} /\ i <= arrived - taken /\ i <= want - Len(out)
  BY <1>1 DEF Direct, Least, Available, Rest, ReaderInv, CallInv
<1>3. /\ out' = out \o new
      /\ taken' = taken + i
      /\ rpc' = IF Len(out) + i = want THEN "idle" ELSE "direct"
      /\ UNCHANGED <<arrived, closed, buf, bufoutptr, buffered, want, ok>>
  BY DEF Direct, DirectTo, netvars
<1> HIDE DEF i
<1>4. new \in Seq(Nat) /\ Len(new) = i /\ \A j \in 1 .. i : new[j] = taken + j - 1
  BY <1>1, <1>2, RunOfNat
<1> HIDE DEF new
<1>5. /\ out' \in Seq(Nat) /\ Len(out') = Len(out) + i
      /\ \A j \in 1 .. Len(out') : out'[j] = Consumed + j - 1
  <2>1. Consumed \in Int
    BY <1>1
  <2>2. \A j \in 1 .. Len(out) : out[j] = Consumed + j - 1
    BY <1>1 DEF ReaderInv, OutInv
  <2>3. \A j \in 1 .. Len(new) : new[j] = Consumed + Len(out) + j - 1
    BY <1>1, <1>4
  <2> QED BY <1>1, <1>3, <1>4, <2>1, <2>2, <2>3, Concat
<1>6. /\ rpc' = "idle" => Len(out') = want /\ Consumed' = Consumed + want
      /\ rpc' # "idle" => Consumed' = Consumed
  <2>1. ok' /\ buffered' = 0 /\ taken' = taken + i
    BY <1>1, <1>3
  <2>2. CASE rpc' = "idle"
    <3>1. Consumed' = taken + i
      BY <1>1, <1>2, <2>1, <2>2 DEF Consumed
    <3>2. Len(out) + i = want
      BY <1>3, <2>2
    <3>3. Len(out') = want
      BY <1>5, <3>2
    <3>4. Consumed + want = taken + i
      BY <1>1, <1>2, <3>2
    <3> QED BY <2>2, <3>1, <3>3, <3>4
  <2>3. CASE rpc' # "idle"
    <3>1. Consumed' = taken + i - Len(out')
      BY <1>1, <1>2, <2>1, <2>3 DEF Consumed
    <3> QED BY <1>1, <1>2, <1>5, <2>3, <3>1
  <2> QED BY <2>2, <2>3
<1>7. ReaderTypeOK'
  BY <1>1, <1>2, <1>3, <1>5 DEF ReaderInv, ReaderTypeOK
<1>8. BufferInv'
  <2>1. taken' <= arrived' /\ bufoutptr' + buffered' <= RFB_BUF_SIZE
    BY <1>1, <1>2, <1>3 DEF ReaderInv, BufferInv
  <2>2. bufoutptr' .. bufoutptr' + buffered' - 1 = {}
    BY <1>1, <1>3 DEF ReaderInv, ReaderTypeOK
  <2> QED BY <2>1, <2>2 DEF BufferInv
<1>9. CallInv'
  BY <1>1, <1>2, <1>3, <1>5 DEF CallInv, Rest
<1>10. OutInv'
  <2>1. CASE rpc' = "idle"
    <3>1. Consumed' - Len(out') = Consumed
      BY <1>1, <1>6, <2>1
    <3> QED BY <1>1, <1>3, <1>5, <2>1, <3>1 DEF OutInv
  <2>2. CASE rpc' # "idle"
    BY <1>5, <1>6, <2>2 DEF OutInv
  <2> QED BY <2>1, <2>2
<1> QED BY <1>6, <1>7, <1>8, <1>9, <1>10 DEF ReaderInv

LEMMA ReadFailsInv ==
    ASSUME ReaderInv, ReadFails
    PROVE  ReaderInv' /\ Consumed' = Consumed
<1> USE DEF ReadFails, netvars, bufvars
<1>1. Consumed' = Consumed
  BY DEF Consumed
<1>2. ReaderTypeOK'
  BY DEF ReaderInv, ReaderTypeOK
<1>3. BufferInv'
  BY DEF ReaderInv, BufferInv
<1>4. CallInv'
  BY DEF ReaderInv, CallInv, Rest
<1>5. OutInv'
  BY <1>1 DEF ReaderInv, OutInv
<1> QED BY <1>1, <1>2, <1>3, <1>4, <1>5 DEF ReaderInv

LEMMA StepInv == ReaderInv /\ [ReaderNext]_rvars => ReaderInv'
<1> SUFFICES ASSUME ReaderInv, [ReaderNext]_rvars PROVE ReaderInv'
  OBVIOUS
<1>1. CASE (\E sent \in Nat : Arrive(sent)) \/ Close
  BY <1>1, NetworkInv
<1>2. CASE \E n \in Nat : Read(n)
  BY <1>2, CallBufferedInv, CallSocketInv DEF Read
<1>3. CASE InRead
  BY <1>3, FillInv, CopyInv, DirectInv, ReadFailsInv DEF InRead
<1>4. CASE UNCHANGED rvars
  BY <1>4 DEF rvars, netvars, bufvars, callvars, ReaderInv, ReaderTypeOK,
              BufferInv, CallInv, OutInv, Rest, Consumed
<1> QED BY <1>1, <1>2, <1>3, <1>4 DEF ReaderNext

(* The buffer holds the stretch of the stream that comes next, never runs  *)
(* over its end, and what a caller has been given are the next bytes of    *)
(* the stream in their order: whatever the size of the buffer.             *)
THEOREM ReaderIsRight == ReaderSpec => []ReaderInv
BY InitInv, StepInv, PTL DEF ReaderSpec
--------------------------------------------------------------------------------
LEMMA InitStream == ReaderInit => Stream!SInit
<1> SUFFICES ASSUME ReaderInit PROVE Stream!SInit
  OBVIOUS
<1>1. Consumed = 0
  <2>1. taken = 0 /\ buffered = 0
    BY DEF ReaderInit
  <2> DEFINE handed == IF rpc = "idle" /\ ok THEN 0 ELSE Len(out)
  <2>2. handed = 0
    BY Zenon DEF ReaderInit
  <2>3. Consumed = taken - buffered - handed
    BY DEF Consumed
  <2> HIDE DEF handed
  <2> QED BY <2>1, <2>2, <2>3
<1>2. (IF rpc = "idle" THEN -1 ELSE want) = Stream!NotAsking
  BY DEF ReaderInit, Stream!NotAsking
<1>3. (IF rpc = "idle" /\ ok THEN out ELSE <<>>) = <<>>
  BY DEF ReaderInit
<1>4. (~ok) = FALSE
  BY Zenon DEF ReaderInit
<1> QED BY <1>1, <1>2, <1>3, <1>4 DEF Stream!SInit

(* The stream as its variables are read off the reader.                    *)
LEMMA StepStream ==
    ASSUME ReaderInv, ReaderInv', [ReaderNext]_rvars
    PROVE  [Stream!SNext]_(Stream!svars)
<1> USE DEF Stream!svars
<1>1. CASE (\E sent \in Nat : Arrive(sent)) \/ Close
  <2>1. UNCHANGED <<bufvars, callvars>>
    BY <1>1 DEF Arrive, Close
  <2> QED BY <2>1 DEF bufvars, callvars, Consumed
<1>2. CASE \E n \in Nat : Read(n)
  <2>1. PICK n \in Nat : Read(n)
    BY <1>2
  <2>2. rpc = "idle" /\ ok /\ rpc' # "idle" /\ want' = n /\ ok' = ok
    BY <2>1 DEF Read, CallBuffered, CallSocket
  <2>3. Consumed' = Consumed
    <3>1. CASE CallBuffered(n)
      BY <3>1, <2>2 DEF CallBuffered, bufvars, Consumed, ReaderInv, ReaderTypeOK
    <3>2. CASE CallSocket(n)
      <4>1. Len(out') = buffered
        BY <3>2, BufferedBytes DEF CallSocket, ReaderInv, ReaderTypeOK
      <4> QED BY <3>2, <2>2, <4>1 DEF CallSocket, Consumed, ReaderInv, ReaderTypeOK
    <3> QED BY <2>1, <3>1, <3>2 DEF Read
  <2> QED BY <2>2, <2>3 DEF Stream!SNext, Stream!Ask, Stream!NotAsking
<1>3. CASE Fill
  <2>1. Consumed' = Consumed
    <3> DEFINE i == Least(Available, RFB_BUF_SIZE - buffered)
    <3>1. i \in Int
      BY <1>3, ReaderAssumption
         DEF Fill, Least, Available, ReaderInv, ReaderTypeOK
    <3>2. /\ buffered' = buffered + i /\ taken' = taken + i /\ out' = out
          /\ rpc = "fill" /\ rpc' # "idle"
      BY <1>3 DEF Fill
    <3> HIDE DEF i
    <3> QED BY <3>1, <3>2 DEF Consumed, ReaderInv, ReaderTypeOK
  <2> QED BY <1>3, <2>1 DEF Fill
<1>4. CASE Copy \/ Direct
  <2>1. ok /\ ok' /\ rpc # "idle" /\ want' = want /\ ok' = ok /\ want \in Nat
    BY <1>4 DEF Copy, Direct, DirectTo, ReaderInv, CallInv, ReaderTypeOK
  <2>2. CASE rpc' # "idle"
    <3>1. Consumed' = Consumed
      BY <1>4, <2>2, DirectInv DEF Copy
    <3> QED BY <2>1, <2>2, <3>1
  <2>3. CASE rpc' = "idle"
    <3>1. Len(out') = want /\ Consumed' = Consumed + want
      BY <1>4, <2>3, CopyInv, DirectInv
    <3>2. out' = [j \in 1 .. want |-> Consumed + j - 1]
      <4>1. out' \in Seq(Nat) /\ Consumed \in Int
        BY ConsumedIsInt DEF ReaderInv, ReaderTypeOK
      <4>2. Consumed' - Len(out') = Consumed
        BY <2>1, <3>1, <4>1
      <4>3. \A j \in 1 .. Len(out') : out'[j] = Consumed + j - 1
        BY <2>1, <2>3, <4>2 DEF ReaderInv, OutInv
      <4> QED BY <3>1, <4>1, <4>3
    <3> QED BY <2>1, <2>3, <3>1, <3>2 DEF Stream!SNext, Stream!Answer, Stream!NotAsking
  <2> QED BY <2>2, <2>3
<1>5. CASE ReadFails
  <2>1. Consumed' = Consumed
    BY <1>5, ReadFailsInv
  <2>2. rpc # "idle" /\ rpc' = "idle" /\ ~ok' /\ want \in Nat /\ ok
    BY <1>5 DEF ReadFails, ReaderInv, ReaderTypeOK, CallInv
  <2> QED BY <2>1, <2>2 DEF Stream!SNext, Stream!Fail, Stream!NotAsking
<1>6. CASE UNCHANGED rvars
  BY <1>6 DEF rvars, netvars, bufvars, callvars, Consumed
<1> QED BY <1>1, <1>2, <1>3, <1>4, <1>5, <1>6 DEF ReaderNext, InRead

(* ReadFromRFBServer() is the byte stream of ByteStream.tla: no byte is    *)
(* lost, repeated or handed out before its turn, however it was buffered.  *)
THEOREM ReaderIsStream == ReaderSpec => ImplementsStream
<1>1. ReaderInv /\ ReaderInv' /\ [ReaderNext]_rvars => [Stream!SNext]_(Stream!svars)
  BY StepStream
<1> QED BY <1>1, InitStream, ReaderIsRight, PTL
        DEF ReaderSpec, ImplementsStream, Stream!SSpec
--------------------------------------------------------------------------------
(* The protocol above the reader.  Messages on the wire are well formed,   *)
(* the client is in the middle of the first of them, and of the kind its   *)
(* place in the code says.                                                 *)
Encodings == {"raw", "copy", "cursor", "size", "pos", "last"}
Hello == {"version", "count", "sectype", "scheme", "length", "text", "challenge",
          "result", "init", "name"}
Kinds == Hello \cup {"update", "bell", "cuttext", "resize", "colours", "other", "garbage"}
Words == SecurityTypes \cup {"", "ok", "failed", "toomany"}
Rectangle == [enc : Encodings, h : Nat]
LastIsLast(m) == \A i \in DOMAIN m.rects : m.rects[i].enc = "last" => i = Len(m.rects)
Message ==
    {m \in [kind : Kinds, word : Words, n : Nat, rects : Seq(Rectangle)] : LastIsLast(m)}

InRect == {"rect", "raw", "copy", "cursor"}
InUpdate == InRect \cup {"rects"}
Serving == InUpdate \cup {"loop", "type", "unknown", "cutlength", "cuttext", "newsize"}

Reading(k) == wire # <<>> /\ Head(wire).kind = k
UpdateOnItsWay == \E i \in DOMAIN wire : wire[i].kind = "update"

Types ==
    /\ wire \in Seq(Message) /\ screen \in Nat
    /\ asked \in Nat /\ rect \in Nat /\ lines \in Int
    /\ height \in Nat /\ fb \in Nat /\ scales \in BOOLEAN

Places ==
    /\ cpc \in InUpdate => Reading("update")
    /\ cpc \in InRect => rect \in 1 .. Len(Head(wire).rects)
    /\ cpc \in {"cutlength", "cuttext"} => Reading("cuttext")
    /\ cpc = "newsize" => Reading("resize")

Asks == cpc \in Serving => asked > 0 \/ UpdateOnItsWay

Sizes ==
    /\ cpc \in Serving => fb = Allocated(height)
    /\ cpc = "raw" => lines <= R.h /\ R.h <= height

ClientInv == Types /\ Places /\ Asks /\ Sizes
--------------------------------------------------------------------------------
LEMMA MsgType ==
    ASSUME NEW k \in Kinds, NEW w \in Words, NEW n \in Nat
    PROVE  /\ Msg(k, w, n) \in Message
           /\ Msg(k, w, n).kind = k
BY DEF Msg, Message, LastIsLast

LEMMA FieldType ==
    ASSUME NEW k \in Kinds
    PROVE  Field(k) \in Message
BY MsgType DEF Field, Words

LEMMA AllocatedIsNat ==
    ASSUME NEW h \in Nat
    PROVE  Allocated(h) \in Nat
BY ClientAssumption DEF Allocated, Least

LEMMA CurType ==
    ASSUME Types
    PROVE  /\ Cur \in Message
           /\ wire = <<>> => Cur.kind = "garbage" /\ Cur.rects = <<>>
           /\ wire # <<>> => Cur = Head(wire)
<1>1. "garbage" \in Kinds
  BY DEF Kinds
<1>2. Field("garbage") \in Message
  BY <1>1, FieldType
<1>3. Field("garbage").kind = "garbage" /\ Field("garbage").rects = <<>>
  BY DEF Field, Msg
<1> QED BY <1>2, <1>3 DEF Types, Cur

(* The message that has been handled goes; an update behind it stays.      *)
LEMMA Popping ==
    ASSUME Types, Done
    PROVE  /\ wire' \in Seq(Message)
           /\ UpdateOnItsWay /\ ~Reading("update") => UpdateOnItsWay'
<1> DEFINE n == Len(wire)
<1>1. wire \in Seq(Message) /\ n \in Nat /\ DOMAIN wire = 1 .. n
  BY DEF Types
<1>2. wire' = SubSeq(wire, 2, n)
  BY DEF Done
<1>3. /\ wire' \in Seq(Message)
      /\ Len(wire') = IF 2 <= n THEN n - 2 + 1 ELSE 0
      /\ \A i \in 1 .. n - 2 + 1 : wire'[i] = wire[2 + i - 1]
  <2>1. \A i \in 2 .. n : wire[i] \in Message
    BY <1>1
  <2>2. 2 \in Int /\ n \in Int
    BY <1>1
  <2> HIDE DEF n
  <2> QED BY <1>2, <2>1, <2>2, SubSeqProperties
<1>4. ASSUME UpdateOnItsWay, ~Reading("update")
      PROVE  UpdateOnItsWay'
  <2>1. PICK i \in 1 .. n : wire[i].kind = "update"
    BY <1>1, <1>4 DEF UpdateOnItsWay
  <2>2. i # 1
    BY <1>1, <1>4, <2>1 DEF Reading
  <2>3. i - 1 \in 1 .. Len(wire') /\ wire'[i - 1] = wire[i]
    <3> HIDE DEF n
    <3>1. i - 1 \in 1 .. n - 2 + 1 /\ 2 + (i - 1) - 1 = i
      BY <1>1, <2>1, <2>2
    <3>2. wire'[i - 1] = wire[2 + (i - 1) - 1]
      BY <1>3, <3>1
    <3> QED BY <1>1, <1>3, <2>1, <2>2, <3>1, <3>2
  <2>4. DOMAIN wire' = 1 .. Len(wire')
    BY <1>3
  <2> QED BY <2>1, <2>3, <2>4 DEF UpdateOnItsWay
<1> QED BY <1>3, <1>4

(* More messages at the end change nothing for the one being read.         *)
LEMMA Sending ==
    ASSUME ClientInv, NEW ms \in Seq(Message), Send(ms),
           screen' \in Nat, asked' \in Nat, UNCHANGED clivars,
           asked' >= asked \/ \E i \in DOMAIN ms : ms[i].kind = "update"
    PROVE  ClientInv'
<1> USE DEF Send, clivars, hellovars, rectvars, sizevars, ClientInv, Types
<1>1. /\ wire' \in Seq(Message)
      /\ wire # <<>> => wire' # <<>> /\ Head(wire') = Head(wire)
      /\ \A i \in 1 .. Len(wire) : i \in 1 .. Len(wire') /\ wire'[i] = wire[i]
      /\ \A i \in 1 .. Len(ms) : /\ Len(wire) + i \in 1 .. Len(wire')
                                 /\ wire'[Len(wire) + i] = ms[i]
  OBVIOUS
<1>2. Types'
  BY <1>1
<1>3. Places'
  BY <1>1 DEF Places, Reading, InUpdate, InRect
<1>4. (UpdateOnItsWay \/ \E i \in DOMAIN ms : ms[i].kind = "update") => UpdateOnItsWay'
  <2>1. DOMAIN wire = 1 .. Len(wire) /\ DOMAIN ms = 1 .. Len(ms)
        /\ DOMAIN wire' = 1 .. Len(wire')
    BY <1>1
  <2> QED BY <1>1, <2>1 DEF UpdateOnItsWay
<1>5. Asks'
  BY <1>4 DEF Asks
<1>6. Sizes'
  BY <1>1 DEF Sizes, Allocated, R, Cur, Places, Reading, InUpdate, InRect
<1> QED BY <1>2, <1>3, <1>5, <1>6
--------------------------------------------------------------------------------
(* Steps of the server and of the network.                                 *)
LEMMA HelloSends ==
    ASSUME Types, ServerHello
    PROVE  \E ms \in Seq(Message) : Send(ms)
<1>0. /\ \A m1 \in Message : <<m1>> \in Seq(Message)
      /\ \A m1, m2 \in Message : <<m1, m2>> \in Seq(Message)
      /\ \A s, t \in Seq(Message) : s \o t \in Seq(Message)
      /\ <<>> \in Seq(Message)
  OBVIOUS
<1>1. /\ Hello \subseteq Kinds /\ Field("length") \in Message
      /\ Field("text") \in Message /\ Field("challenge") \in Message
      /\ Field("name") \in Message
  BY FieldType DEF Kinds, Hello
<1>2. Reason \in Seq(Message)
  BY <1>1 DEF Reason
<1>3. {"none", "vnc", "failed", "ok", "toomany", ""} \subseteq Words
  BY DEF Words, SecurityTypes
<1>4. CASE Greet
  <2>1. PICK v \in Minors : Send(<<Msg("version", "", v)>>)
    BY <1>4 DEF Greet
  <2>2. Msg("version", "", v) \in Message
    BY <1>1, <1>3, <2>1, MsgType, ClientAssumption DEF Hello
  <2>3. <<Msg("version", "", v)>> \in Seq(Message)
    BY <1>0, <2>2
  <2> QED BY <2>1, <2>3
<1>5. CASE OfferTypes
  <2>1. PICK ts \in TypeLists :
           Send(<<Msg("count", "", Len(ts))>>
                  \o [i \in 1 .. Len(ts) |-> Msg("sectype", ts[i], 0)]
                  \o IF ts = <<>> THEN Reason ELSE <<>>)
    BY <1>5 DEF OfferTypes
  <2>2. ts \in Seq(SecurityTypes) /\ Len(ts) \in Nat
    BY ClientAssumption
  <2>3. Msg("count", "", Len(ts)) \in Message
    BY <1>1, <1>3, <2>2, MsgType DEF Hello
  <2>4. ASSUME NEW i \in 1 .. Len(ts)
        PROVE  Msg("sectype", ts[i], 0) \in Message
    <3>1. ts[i] \in SecurityTypes
      BY <2>2
    <3>2. ts[i] \in Words
      BY <3>1 DEF Words
    <3> QED BY <1>1, <3>2, MsgType DEF Hello
  <2>5. [i \in 1 .. Len(ts) |-> Msg("sectype", ts[i], 0)] \in Seq(Message)
    BY <2>2, <2>4
  <2>6. (IF ts = <<>> THEN Reason ELSE <<>>) \in Seq(Message)
    BY <1>2
  <2>7. <<Msg("count", "", Len(ts))>>
            \o [i \in 1 .. Len(ts) |-> Msg("sectype", ts[i], 0)]
            \o (IF ts = <<>> THEN Reason ELSE <<>>) \in Seq(Message)
    BY <1>0, <2>3, <2>5, <2>6
  <2> QED BY <2>1, <2>7
<1>6. CASE ImposeType
  <2>1. \A w \in {"failed", "none", "vnc"} : Msg("scheme", w, 0) \in Message
    BY <1>1, <1>3, MsgType DEF Hello
  <2>2. /\ <<Msg("scheme", "failed", 0)>> \o Reason \in Seq(Message)
        /\ <<Msg("scheme", "none", 0)>> \in Seq(Message)
        /\ <<Msg("scheme", "vnc", 0), Field("challenge")>> \in Seq(Message)
    BY <1>0, <1>1, <1>2, <2>1
  <2> QED BY <1>6, <2>2 DEF ImposeType
<1>7. ASSUME Result
      PROVE  \E ms \in Seq(Message) : Send(ms)
  <2>1. \A w \in {"ok", "failed", "toomany"} : Msg("result", w, 0) \in Message
    BY <1>1, <1>3, MsgType DEF Hello
  <2>2. /\ <<Msg("result", "ok", 0)>> \in Seq(Message)
        /\ <<Msg("result", "toomany", 0)>> \in Seq(Message)
        /\ <<Msg("result", "failed", 0)>> \in Seq(Message)
    BY <1>0, <2>1
  <2>3. <<Msg("result", "failed", 0)>> \o (IF minor > 7 THEN Reason ELSE <<>>)
            \in Seq(Message)
    BY <1>0, <1>2, <2>2
  <2> QED BY <1>7, <2>2, <2>3 DEF Result
<1>8. CASE TypeChosen
  <2>1. <<Field("challenge")>> \in Seq(Message) /\ <<>> \in Seq(Message)
    BY <1>0, <1>1
  <2> QED BY <1>7, <1>8, <2>1 DEF TypeChosen
<1>9. CASE Checked
  BY <1>7, <1>9 DEF Checked
<1>10. CASE Welcome
  <2>1. Msg("init", "", screen) \in Message
    BY <1>1, <1>3, MsgType DEF Hello, ClientInv, Types
  <2>2. <<Msg("init", "", screen), Field("name")>> \in Seq(Message)
    BY <1>0, <1>1, <2>1
  <2> QED BY <1>10, <2>2 DEF Welcome
<1> QED BY <1>4, <1>5, <1>6, <1>8, <1>9, <1>10 DEF ServerHello

LEMMA ServeSends ==
    ASSUME ClientInv, Serve
    PROVE  \E ms \in Seq(Message) :
               /\ Send(ms) /\ screen' \in Nat /\ asked' \in Nat
               /\ asked' >= asked \/ \E i \in DOMAIN ms : ms[i].kind = "update"
<1>1. SendUpdate \/ SendMessage
  BY DEF Serve
<1>2. \A h \in Heights : h \in Nat
  BY ClientAssumption
<1>3. CASE SendUpdate
  <2>1. PICK rs \in UNION {Updates(h) : h \in Heights} :
           /\ Send(<<Update(rs)>>)
           /\ screen' = IF rs[1].enc = "size" THEN rs[1].h ELSE screen
    BY <1>3 DEF SendUpdate
  <2>2. PICK h \in Heights : rs \in Updates(h)
    OBVIOUS
  <2>3. rs \in Seq(Rectangle) /\ rs[1].h \in Nat
    <3>1. /\ Rect("size", h) \in Rectangle /\ Rect("raw", h) \in Rectangle
          /\ Rect("pos", 0) \in Rectangle /\ Rect("cursor", 0) \in Rectangle
          /\ Rect("copy", 1) \in Rectangle /\ Rect("last", 0) \in Rectangle
      BY <1>2 DEF Rect, Rectangle, Encodings
    <3>2. \A r1, r2, r3 \in Rectangle :
              /\ <<r1, r2>> \in Seq(Rectangle) /\ <<r1, r2>>[1] = r1
              /\ <<r1, r2, r3>> \in Seq(Rectangle) /\ <<r1, r2, r3>>[1] = r1
      OBVIOUS
    <3>3. \/ rs = <<Rect("size", h), Rect("raw", h)>>
          \/ rs = <<Rect("pos", 0), Rect("raw", h)>>
          \/ rs = <<Rect("cursor", 0), Rect("copy", 1), Rect("last", 0)>>
      BY <2>2 DEF Updates
    <3>4. rs \in Seq(Rectangle)
      <4>1. /\ <<Rect("size", h), Rect("raw", h)>> \in Seq(Rectangle)
            /\ <<Rect("pos", 0), Rect("raw", h)>> \in Seq(Rectangle)
            /\ <<Rect("cursor", 0), Rect("copy", 1), Rect("last", 0)>> \in Seq(Rectangle)
        BY <3>1, <3>2
      <4> QED BY <3>3, <4>1
    <3>5. rs[1] \in Rectangle
      BY <3>1, <3>2, <3>3
    <3> QED BY <3>4, <3>5 DEF Rectangle
  <2>4. Update(rs) \in Message /\ Update(rs).kind = "update"
    <3>1. \A i \in 1 .. Len(rs) : rs[i].enc = "last" => i = Len(rs)
      <4>1. CASE rs = <<Rect("size", h), Rect("raw", h)>>
        BY <4>1 DEF Rect
      <4>2. CASE rs = <<Rect("pos", 0), Rect("raw", h)>>
        BY <4>2 DEF Rect
      <4>3. CASE rs = <<Rect("cursor", 0), Rect("copy", 1), Rect("last", 0)>>
        BY <4>3 DEF Rect
      <4> QED BY <2>2, <4>1, <4>2, <4>3 DEF Updates
    <3>2. LastIsLast(Update(rs))
      BY <2>3, <3>1 DEF LastIsLast, Update
    <3> QED BY <2>3, <3>2 DEF Update, Message, Kinds, Words
  <2>5. <<Update(rs)>> \in Seq(Message)
        /\ \E i \in DOMAIN <<Update(rs)>> : <<Update(rs)>>[i].kind = "update"
    BY <2>4
  <2>6. screen' \in Nat /\ asked' \in Nat
    BY <1>3, <2>1, <2>3 DEF SendUpdate, ClientInv, Types
  <2> QED BY <2>1, <2>5, <2>6
<1>4. CASE SendMessage
  <2>1. asked' = asked /\ asked \in Nat /\ screen \in Nat
    BY <1>4 DEF SendMessage, ClientInv, Types
  <2>2. \A n \in Nat, k \in {"bell", "colours", "other", "cuttext", "resize"} :
            Msg(k, "", n) \in Message
    BY MsgType DEF Kinds, Words
  <2>3. Field("bell") \in Message /\ Field("colours") \in Message
        /\ Field("other") \in Message
    BY <2>2 DEF Field
  <2>4. \E m \in Message : Send(<<m>>) /\ screen' \in Nat
    BY <1>2, <1>4, <2>1, <2>2, <2>3, ClientAssumption DEF SendMessage
  <2>5. PICK m \in Message : Send(<<m>>) /\ screen' \in Nat
    BY <2>4
  <2>6. <<m>> \in Seq(Message)
    OBVIOUS
  <2>7. asked' \in Nat /\ asked' >= asked
    BY <2>1
  <2> QED BY <2>5, <2>6, <2>7
<1> QED BY <1>1, <1>3, <1>4

LEMMA OthersStep ==
    ASSUME ClientInv, ServerHello \/ Serve \/ Deliver \/ Disconnect
    PROVE  ClientInv'
<1>1. CASE ServerHello
  <2>1. PICK ms \in Seq(Message) : Send(ms)
    BY <1>1, HelloSends DEF ClientInv
  <2>2. UNCHANGED clivars /\ UNCHANGED <<screen, asked>> /\ asked \in Nat /\ screen \in Nat
    BY <1>1 DEF ServerHello, ClientInv, Types
  <2> QED BY <2>1, <2>2, Sending
<1>2. CASE Deliver \/ Disconnect
  BY <1>2 DEF Deliver, Disconnect, svrvars, clivars, hellovars, rectvars, sizevars,
              ClientInv, Types, Places, Asks, Sizes, Allocated, Reading, UpdateOnItsWay, R, Cur
<1>3. CASE Serve
  BY <1>3, ServeSends, Sending DEF Serve
<1> QED BY <1>1, <1>2, <1>3
--------------------------------------------------------------------------------
(* Steps of the client.  All it does with the reader is to call it.        *)
Called == \E n \in Nat : Read(n)

LEMMA ReadStep ==
    ASSUME NEW n \in Nat, Read(n)
    PROVE  [Called]_rvars
BY DEF Called

LEMMA HandshakeCalls ==
    ASSUME Handshake
    PROVE  \/ cpc' \in Hello /\ Read(1)
           \/ cpc' = "gone" /\ UNCHANGED rvars
<1> USE DEF Hello, GoOn, GiveUp
<1>1. CASE GotVersion
  BY <1>1 DEF GotVersion
<1>2. CASE GotCount
  BY <1>2 DEF GotCount
<1>3. CASE ChooseType
  BY <1>3 DEF ChooseType, Authenticate
<1>4. CASE GotScheme
  BY <1>4 DEF GotScheme, ClientInit
<1>5. CASE GotChallenge
  BY <1>5 DEF GotChallenge
<1>6. CASE GotResult
  BY <1>6 DEF GotResult, ClientInit
<1>7. CASE GotReason
  BY <1>7 DEF GotReason
<1>8. CASE GotInit
  BY <1>8 DEF GotInit
<1> QED BY <1>1, <1>2, <1>3, <1>4, <1>5, <1>6, <1>7, <1>8 DEF Handshake

(* Whether the server can scale is settled by the handshake.               *)
LEMMA HelloScales ==
    ASSUME Handshake, scales \in BOOLEAN
    PROVE  scales' \in BOOLEAN
<1>1. CASE GotVersion \/ ChooseType
  BY <1>1 DEF GotVersion, ChooseType
<1>2. CASE GotCount \/ GotScheme \/ GotChallenge \/ GotResult \/ GotReason \/ GotInit
  BY <1>2 DEF GotCount, GotScheme, GotChallenge, GotResult, GotReason, GotInit, hellovars
<1> QED BY <1>1, <1>2 DEF Handshake

LEMMA ConnectingStep ==
    ASSUME ClientInv, Start \/ Handshake \/ Connected \/ Fails, screen' = screen
    PROVE  ClientInv' /\ [Called]_rvars
<1> USE DEF ClientInv, rectvars, sizevars, hellovars
<1>1. 1 \in Nat /\ Hello \cap Serving = {} /\ "gone" \notin Serving
      /\ InUpdate \subseteq Serving /\ InRect \subseteq Serving
      /\ {"cutlength", "cuttext", "newsize", "raw"} \subseteq Serving
  BY DEF Hello, Serving, InUpdate, InRect
<1>2. ASSUME Types', cpc' \notin Serving
      PROVE  ClientInv'
  BY <1>1, <1>2 DEF Places, Asks, Sizes
<1>3. CASE Start
  <2>1. Types' /\ cpc' \in Hello
    BY <1>3 DEF Start, Types, GoOn, Hello
  <2>2. Read(1)
    BY <1>3 DEF Start, GoOn
  <2> QED BY <1>1, <1>2, <2>1, <2>2, ReadStep
<1>4. CASE Handshake
  <2>1. Done /\ UNCHANGED <<asked, rect, lines, fb>>
        /\ height' \in {Cur.n, height}
    BY <1>4 DEF Handshake
  <2>5. scales' \in BOOLEAN
    BY <1>4, HelloScales DEF Types
  <2>2. Cur.n \in Nat
    BY CurType DEF Message
  <2>3. wire' \in Seq(Message)
    BY <2>1, Popping
  <2>4. Types'
    BY <2>1, <2>2, <2>3, <2>5 DEF Types
  <2> QED BY <1>1, <1>2, <1>4, <2>4, HandshakeCalls, ReadStep
<1>5. CASE Connected
  <2>1. wire' \in Seq(Message)
    BY <1>5, Popping DEF Connected
  <2>2. Types'
    <3>1. height \in Nat /\ fb \in Nat /\ asked \in Nat /\ Allocated(height) \in Nat
      BY AllocatedIsNat DEF Types
    <3>2. scales' = scales /\ scales \in BOOLEAN /\ UNCHANGED <<screen, height, rect, lines>>
      BY <1>5 DEF Connected, Types
    <3>3. fb' \in Nat /\ asked' \in Nat
      BY <1>5, <3>1 DEF Connected
    <3> QED BY <2>1, <3>2, <3>3 DEF Types
  <2>3. CASE cpc' = "loop" /\ fb' = Allocated(height) /\ asked' = asked + 1
    <3>1. Places'
      BY <2>3 DEF Places, InUpdate, InRect
    <3>2. Asks'
      BY <2>3 DEF Asks, Types
    <3>3. Sizes'
      BY <1>5, <2>3 DEF Sizes, Connected, Allocated
    <3> QED BY <1>5, <2>2, <3>1, <3>2, <3>3 DEF Connected, GiveUp
  <2>4. CASE GiveUp
    BY <1>1, <1>2, <2>2, <2>4 DEF GiveUp
  <2> QED BY <1>5, <2>3, <2>4 DEF Connected
<1>6. CASE Fails
  <2>1. Types' /\ cpc' = "gone" /\ UNCHANGED rvars
    BY <1>6 DEF Fails, Types
  <2> QED BY <1>1, <1>2, <2>1
<1> QED BY <1>3, <1>4, <1>5, <1>6

LEMMA SameUpdates == wire' = wire => (UpdateOnItsWay' <=> UpdateOnItsWay)
BY DEF UpdateOnItsWay

(* The end of a message that was no update, or has been asked for anew.    *)
LEMMA EndOfMessage ==
    ASSUME ClientInv, cpc \in Serving, EndMessage, screen' = screen,
           asked' \in Nat, rect' \in Nat, lines' \in Int, height' \in Nat,
           fb' = Allocated(height'), scales' = scales,
           asked' > 0 \/ (asked' = asked /\ ~Reading("update"))
    PROVE  ClientInv' /\ [Called]_rvars
<1> USE DEF ClientInv, EndMessage
<1>1. wire' \in Seq(Message)
      /\ (UpdateOnItsWay /\ ~Reading("update") => UpdateOnItsWay')
  BY Popping
<1>2. cpc' = "loop" /\ UNCHANGED rvars
  OBVIOUS
<1>3. Types' /\ Sizes'
  BY <1>1, <1>2, AllocatedIsNat DEF Types, Sizes, Allocated
<1>4. Places'
  BY <1>2 DEF Places, InUpdate, InRect
<1>5. Asks'
  BY <1>1 DEF Asks, Types
<1> QED BY <1>2, <1>3, <1>4, <1>5

LEMMA MessageStep ==
    ASSUME ClientInv, screen' = screen, scales' = scales,
           Loop \/ GotType \/ GotUnknown \/ GotCutLength \/ GotCutText \/ GotNewSize
    PROVE  ClientInv' /\ [Called]_rvars
<1> USE DEF ClientInv, rectvars, sizevars, At, Returned
<1>1. 1 \in Nat /\ UnknownLength \in Nat
  BY ClientAssumption
<1>2. /\ Cur \in Message /\ Cur.n \in Nat
      /\ wire = <<>> => Cur.kind = "garbage"
      /\ wire # <<>> => Cur = Head(wire)
  BY CurType DEF Message
<1>3. ASSUME cpc \in Serving, SameMessage, Types', UNCHANGED <<asked, height, fb>>,
             \/ cpc' \in {"loop", "type", "unknown", "astray", "gone"}
             \/ cpc' \in {"cutlength", "cuttext"} /\ Reading("cuttext")
             \/ cpc' = "newsize" /\ Reading("resize")
             \/ cpc' = "rects" /\ Reading("update")
      PROVE  ClientInv'
  <2>1. wire' = wire
    BY <1>3 DEF SameMessage
  <2>2. Places'
    BY <1>3, <2>1 DEF Places, InUpdate, InRect, Reading
  <2>3. Asks'
    BY <1>3, <2>1, SameUpdates DEF Asks
  <2>4. Sizes'
    BY <1>3 DEF Sizes, Allocated, Serving, InUpdate, InRect
  <2> QED BY <1>3, <2>2, <2>3, <2>4
<1>4. CASE Loop
  <2>1. Read(1) /\ cpc' = "type" /\ cpc \in Serving /\ SameMessage
        /\ UNCHANGED <<asked, height, fb>>
    BY <1>4 DEF Loop, GoOn, Serving, SameMessage
  <2>2. Types'
    BY <1>4 DEF Loop, Types
  <2> QED BY <1>1, <1>3, <2>1, <2>2, ReadStep
<1>5. CASE GotType
  <2> DEFINE k == MessageAt(out[1]).kind
  <2>1. k # "garbage" => wire # <<>> /\ Reading(k)
    BY <1>2 DEF MessageAt, Field, Msg, Reading
  <2>2. cpc \in Serving /\ UNCHANGED <<asked, rect, lines, height, fb>>
    BY <1>5 DEF GotType, Serving
  <2>3. CASE k = "bell" /\ EndMessage
    <3>1. ~Reading("update")
      BY <2>1, <2>3 DEF Reading
    <3>2. fb' = Allocated(height') /\ height' \in Nat /\ asked' \in Nat /\ rect' \in Nat
          /\ lines' \in Int
      BY <2>2 DEF Types, Sizes
    <3> QED BY <2>2, <2>3, <3>1, <3>2, EndOfMessage
  <2>4. ASSUME SameMessage, NEW p \in {"cutlength", "newsize", "rects", "unknown"},
               NEW n \in Nat, GoOn(p, n),
               p = "cutlength" => k = "cuttext", p = "newsize" => k = "resize",
               p = "rects" => k = "update"
        PROVE  ClientInv' /\ [Called]_rvars
    <3>1. Types'
      BY <2>2, <2>4 DEF Types, SameMessage
    <3>2. cpc' = p /\ Read(n)
      BY <2>4 DEF GoOn
    <3> QED BY <1>3, <2>1, <2>2, <2>4, <3>1, <3>2, ReadStep
  <2>5. \/ k = "bell" /\ EndMessage
        \/ k = "cuttext" /\ GoOn("cutlength", 1) /\ SameMessage
        \/ k = "resize" /\ GoOn("newsize", 1) /\ SameMessage
        \/ k = "update" /\ GoOn("rects", 1) /\ SameMessage
        \/ cpc' \in {"loop", "astray"} /\ SameMessage /\ UNCHANGED rvars
        \/ GoOn("unknown", UnknownLength) /\ SameMessage
    BY <1>5 DEF GotType
  <2>6. CASE cpc' \in {"loop", "astray"} /\ SameMessage /\ UNCHANGED rvars
    <3>1. Types'
      BY <2>2, <2>6 DEF Types, SameMessage
    <3> QED BY <1>3, <2>2, <2>6, <3>1
  <2> HIDE DEF k
  <2> QED BY <1>1, <2>3, <2>4, <2>5, <2>6
<1>6. CASE GotUnknown
  <2>1. Types'
    BY <1>6 DEF GotUnknown, GiveUp, SameMessage, Types
  <2> QED BY <1>3, <1>6, <2>1 DEF GotUnknown, GiveUp, Serving
<1>7. CASE GotCutLength
  <2>1. Types' /\ cpc \in Serving /\ SameMessage /\ UNCHANGED <<asked, height, fb>>
    BY <1>7 DEF GotCutLength, GiveUp, GoOn, SameMessage, Types, Serving
  <2>2. Reading("cuttext")
    BY <1>7 DEF GotCutLength, Places
  <2>3. GiveUp \/ GoOn("cuttext", Cur.n)
    BY <1>7 DEF GotCutLength
  <2> QED BY <1>2, <1>3, <2>1, <2>2, <2>3, ReadStep DEF GiveUp, GoOn
<1>8. CASE GotCutText
  <2>1. ~Reading("update") /\ cpc \in Serving
    BY <1>8 DEF GotCutText, Places, Reading, Serving
  <2>2. fb' = Allocated(height') /\ height' \in Nat /\ asked' = asked /\ asked' \in Nat
        /\ rect' \in Nat /\ lines' \in Int
    BY <1>8, <2>1 DEF GotCutText, Types, Sizes
  <2> QED BY <1>8, <2>1, <2>2, EndOfMessage DEF GotCutText
<1>9. CASE GotNewSize
  <2>1. cpc \in Serving /\ UNCHANGED <<rect, lines>>
    BY <1>9 DEF GotNewSize, NoMemory, Serving
  <2>2. CASE Resize(Cur.n) /\ asked' = asked + 1 /\ EndMessage
    <3>1. fb' = Allocated(height') /\ height' \in Nat /\ asked' > 0 /\ asked' \in Nat
          /\ rect' \in Nat /\ lines' \in Int
      BY <1>2, <2>1, <2>2 DEF Resize, Types
    <3>2. EndMessage
      BY <2>2
    <3>3. asked' > 0 \/ (asked' = asked /\ ~Reading("update"))
      BY <3>1
    <3> QED BY <2>1, <3>1, <3>2, <3>3, EndOfMessage
  <2>3. CASE NoMemory(Cur.n)
    <3>1. Types' /\ cpc' = "gone" /\ UNCHANGED rvars
      BY <1>2, <2>3 DEF NoMemory, GiveUp, SameMessage, Types
    <3>2. Places' /\ Asks' /\ Sizes'
      BY <3>1 DEF Places, Asks, Sizes, Serving, InUpdate, InRect
    <3> QED BY <3>1, <3>2
  <2> QED BY <1>9, <2>2, <2>3 DEF GotNewSize
<1> QED BY <1>4, <1>5, <1>6, <1>7, <1>8, <1>9

LEMMA RectType ==
    ASSUME ClientInv, cpc \in InRect
    PROVE  /\ R \in Rectangle /\ R.h \in Nat
           /\ R = Head(wire).rects[rect] /\ rect \in Nat \ {0}
<1>1. wire # <<>> /\ rect \in 1 .. Len(Head(wire).rects)
  BY DEF ClientInv, Places, Reading, InUpdate
<1>2. Cur \in Message /\ Cur = Head(wire)
  BY <1>1, CurType DEF ClientInv
<1>3. Cur.rects \in Seq(Rectangle)
  BY <1>2 DEF Message
<1>4. R \in Rectangle
  BY <1>1, <1>2, <1>3 DEF R
<1> QED BY <1>1, <1>2, <1>4 DEF R, Rectangle

(* Giving up in the middle of a message.                                   *)
LEMMA GivenUp ==
    ASSUME Types', GiveUp
    PROVE  ClientInv' /\ [Called]_rvars
<1>1. cpc' = "gone" /\ UNCHANGED rvars
  BY DEF GiveUp
<1>2. Places' /\ Asks' /\ Sizes'
  BY <1>1 DEF Places, Asks, Sizes, Serving, InUpdate, InRect
<1> QED BY <1>1, <1>2 DEF ClientInv

LEMMA EndUpdateStep ==
    ASSUME ClientInv, cpc \in InUpdate, screen' = screen, NEW asks \in Nat,
           EndUpdate(asks), lines' \in Int, height' \in Nat,
           fb' = Allocated(height'), scales' = scales
    PROVE  ClientInv' /\ [Called]_rvars
<1>1. asked \in Nat /\ wire \in Seq(Message) /\ cpc \in Serving
  BY DEF ClientInv, Types, Serving
<1>2. CASE EndMessage /\ asked' = asked + asks + 1 /\ rect' = 0
  <2>1. asked' > 0 /\ asked' \in Nat /\ rect' \in Nat
    BY <1>1, <1>2
  <2>2. EndMessage
    BY <1>2
  <2>3. asked' > 0 \/ (asked' = asked /\ ~Reading("update"))
    BY <2>1
  <2> QED BY <1>1, <2>1, <2>2, <2>3, EndOfMessage
<1>3. CASE GiveUp /\ SameMessage /\ asked' = asked /\ rect' = 0
  <2>1. Types'
    BY <1>1, <1>3, AllocatedIsNat DEF ClientInv, Types, SameMessage
  <2> QED BY <1>3, <2>1, GivenUp
<1> QED BY <1>2, <1>3 DEF EndUpdate

LEMMA ToRectStep ==
    ASSUME ClientInv, cpc \in InUpdate, screen' = screen,
           NEW i \in Nat \ {0}, NEW asks \in Nat, ToRect(i, asks),
           lines' \in Int, height' \in Nat, fb' = Allocated(height'), scales' = scales
    PROVE  ClientInv' /\ [Called]_rvars
<1>1. /\ wire \in Seq(Message) /\ asked \in Nat
      /\ Reading("update") /\ Cur = Head(wire) /\ Cur.rects \in Seq(Rectangle)
  BY CurType DEF ClientInv, Types, Places, Reading, Message
<1>2. CASE /\ i <= Len(Cur.rects) /\ rect' = i /\ asked' = asked + asks
           /\ GoOn("rect", 1) /\ SameMessage
  <2>1. wire' = wire /\ cpc' = "rect" /\ Read(1)
    BY <1>2 DEF SameMessage, GoOn
  <2>2. Types'
    BY <1>1, <1>2, <2>1, AllocatedIsNat DEF ClientInv, Types
  <2>3. Places'
    BY <1>1, <1>2, <2>1 DEF Places, Reading, InUpdate, InRect
  <2>4. UpdateOnItsWay'
    BY <1>1, <2>1 DEF Reading, UpdateOnItsWay
  <2>5. Asks' /\ Sizes'
    BY <2>1, <2>4 DEF Asks, Sizes, Allocated
  <2> QED BY <2>1, <2>2, <2>3, <2>5, ReadStep DEF ClientInv
<1>3. CASE EndUpdate(asks)
  BY <1>3, EndUpdateStep
<1> QED BY <1>2, <1>3 DEF ToRect

(* A step within a rectangle.                                              *)
LEMMA WithinRect ==
    ASSUME ClientInv, cpc \in InRect, cpc' \in InRect, screen' = screen, SameMessage,
           UNCHANGED <<rect, asked, sizevars, scales>>, lines' \in Int,
           cpc' = "raw" => lines' <= R.h /\ R.h <= height
    PROVE  ClientInv'
<1> USE DEF ClientInv, SameMessage, sizevars
<1>1. wire' = wire /\ R' = R /\ cpc \in Serving /\ cpc \in InUpdate
  BY DEF R, Cur, Serving, InUpdate
<1>2. Types'
  BY DEF Types
<1>3. Places'
  BY <1>1 DEF Places, Reading, InRect, InUpdate
<1>4. Asks'
  BY <1>1, SameUpdates DEF Asks
<1>5. Sizes'
  BY <1>1 DEF Sizes, Allocated
<1> QED BY <1>2, <1>3, <1>4, <1>5

LEMMA UpdateStep ==
    ASSUME ReaderInv, ClientInv, screen' = screen, scales' = scales,
           GotRects \/ GotPseudoRect \/ GotPixelRect \/ GotLines \/ GotPayload
    PROVE  ClientInv' /\ [Called]_rvars
<1>1. Types /\ fb \in Nat /\ height \in Nat /\ lines \in Int /\ asked \in Nat
  BY DEF ClientInv, Types
<1>2. 0 \in Nat /\ 1 \in Nat \ {0} /\ LinesPerRead \in Nat \ {0}
  BY ClientAssumption
<1>3. cpc \in InUpdate => fb = Allocated(height)
  BY DEF ClientInv, Sizes, Serving
<1>4. CASE GotRects
  <2>1. cpc \in InUpdate /\ ToRect(1, 0) /\ UNCHANGED <<lines, height, fb>>
    BY <1>4 DEF GotRects, At, InUpdate, sizevars
  <2>2. lines' \in Int /\ height' \in Nat /\ fb' = Allocated(height')
    BY <1>1, <1>3, <2>1
  <2> QED BY <1>2, <2>1, <2>2, ToRectStep
<1>5. ASSUME cpc \in InRect
      PROVE  /\ R.h \in Nat /\ rect + 1 \in Nat \ {0} /\ fb = Allocated(height)
             /\ cpc \in InUpdate
  BY <1>3, <1>5, RectType DEF InUpdate
<1>6. CASE GotPseudoRect
  <2>1. cpc \in InRect /\ lines' = lines
    BY <1>6 DEF GotPseudoRect, At, InRect
  <2>2. CASE EndUpdate(0) /\ UNCHANGED sizevars
    <3>1. lines' \in Int /\ height' \in Nat /\ fb' = Allocated(height')
      BY <1>1, <1>5, <2>1, <2>2 DEF sizevars
    <3> QED BY <1>2, <1>5, <2>1, <2>2, <3>1, EndUpdateStep
  <2>3. CASE ToRect(rect + 1, 0) /\ UNCHANGED sizevars
    <3>1. lines' \in Int /\ height' \in Nat /\ fb' = Allocated(height')
      BY <1>1, <1>5, <2>1, <2>3 DEF sizevars
    <3> QED BY <1>2, <1>5, <2>1, <2>3, <3>1, ToRectStep
  <2>4. CASE Resize(R.h) /\ ToRect(rect + 1, 1)
    <3>1. lines' \in Int /\ height' \in Nat /\ fb' = Allocated(height')
      BY <1>1, <1>5, <2>1, <2>4 DEF Resize
    <3> QED BY <1>2, <1>5, <2>1, <2>4, <3>1, ToRectStep
  <2>5. CASE NoMemory(R.h)
    <3>1. Types' /\ GiveUp
      BY <1>1, <1>5, <2>1, <2>5 DEF NoMemory, SameMessage, rectvars, Types
    <3> QED BY <3>1, GivenUp
  <2> QED BY <1>6, <2>2, <2>3, <2>4, <2>5 DEF GotPseudoRect
<1>7. CASE GotPixelRect
  <2>1. /\ cpc \in InRect /\ SameMessage /\ UNCHANGED <<rect, asked, sizevars>>
        /\ R.enc \in {"raw", "copy", "cursor"}
    BY <1>7 DEF GotPixelRect, At, InRect
  <2>2. CASE GiveUp /\ UNCHANGED lines
    <3>1. Types'
      BY <1>1, <2>1, <2>2 DEF SameMessage, sizevars, Types
    <3> QED BY <2>2, <3>1, GivenUp
  <2>3. CASE R.h <= height /\ lines' = R.h /\ GoOn("raw", Least(LinesPerRead, R.h))
    <3>1. Least(LinesPerRead, R.h) \in Nat /\ lines' \in Int /\ lines' <= R.h
      BY <1>2, <1>5, <2>1, <2>3 DEF Least
    <3>2. cpc' \in InRect /\ Read(Least(LinesPerRead, R.h))
      BY <2>3 DEF GoOn, InRect
    <3> QED BY <2>1, <2>3, <3>1, <3>2, WithinRect, ReadStep
  <2>4. CASE R.enc # "raw" /\ GoOn(R.enc, 1) /\ UNCHANGED lines
    <3>1. cpc' \in InRect /\ cpc' # "raw" /\ Read(1) /\ lines' \in Int
      BY <1>1, <2>1, <2>4 DEF GoOn, InRect
    <3> QED BY <1>2, <2>1, <3>1, WithinRect, ReadStep
  <2> QED BY <1>7, <2>2, <2>3, <2>4 DEF GotPixelRect
<1>8. CASE GotLines
  <2>1. cpc = "raw" /\ cpc \in InRect /\ lines' = lines - Len(out) /\ UNCHANGED sizevars
    BY <1>8 DEF GotLines, At, InRect
  <2>2. Len(out) \in Nat
    BY DEF ReaderInv, ReaderTypeOK
  <2>3. lines' \in Int /\ lines' <= R.h /\ R.h <= height
    BY <1>1, <1>5, <2>1, <2>2 DEF ClientInv, Sizes
  <2>4. CASE /\ lines' > 0 /\ GoOn("raw", Least(LinesPerRead, lines')) /\ SameMessage
             /\ UNCHANGED <<rect, asked>>
    <3>1. Least(LinesPerRead, lines') \in Nat
      BY <1>2, <2>3, <2>4 DEF Least
    <3>2. cpc' \in InRect /\ Read(Least(LinesPerRead, lines'))
      BY <2>4 DEF GoOn, InRect
    <3> QED BY <2>1, <2>3, <2>4, <3>1, <3>2, WithinRect, ReadStep
  <2>5. CASE ToRect(rect + 1, 0)
    <3>1. height' \in Nat /\ fb' = Allocated(height')
      BY <1>1, <1>5, <2>1 DEF sizevars
    <3> QED BY <1>2, <1>5, <2>1, <2>3, <2>5, <3>1, ToRectStep
  <2> QED BY <1>8, <2>4, <2>5 DEF GotLines
<1>9. CASE GotPayload
  <2>1. cpc \in InRect /\ ToRect(rect + 1, 0) /\ UNCHANGED <<lines, sizevars>>
    BY <1>9 DEF GotPayload, At, InRect
  <2>2. lines' \in Int /\ height' \in Nat /\ fb' = Allocated(height')
    BY <1>1, <1>5, <2>1 DEF sizevars
  <2> QED BY <1>2, <1>5, <2>1, <2>2, ToRectStep
<1> QED BY <1>4, <1>6, <1>7, <1>8, <1>9
--------------------------------------------------------------------------------
LEMMA ClientStarts == Init => ReaderInv /\ ClientInv
<1> SUFFICES ASSUME Init PROVE ReaderInv /\ ClientInv
  OBVIOUS
<1>1. ReaderInv
  BY InitInv DEF Init
<1>2. screen \in Nat /\ cpc \notin Serving
  BY ClientAssumption DEF Init, Serving, InUpdate, InRect
<1>3. Types
  <2>1. scales \in BOOLEAN
    BY DEF Init
  <2>2. /\ wire \in Seq(Message) /\ asked \in Nat /\ rect \in Nat /\ lines \in Int
        /\ height \in Nat /\ fb \in Nat
    BY DEF Init
  <2> QED BY <1>2, <2>1, <2>2 DEF Types
<1>4. Places /\ Asks /\ Sizes
  BY <1>2 DEF Places, Asks, Sizes, Serving, InUpdate, InRect
<1> QED BY <1>1, <1>3, <1>4 DEF ClientInv

(* Whatever the protocol does, it does no more to the reader than a caller *)
(* may do, and the network no more than bring bytes.                       *)
LEMMA ClientCalls ==
    ASSUME ReaderInv, ClientInv, Client, screen' = screen
    PROVE  ClientInv' /\ (InRead \/ [Called]_rvars)
<1>1. CASE InRead /\ UNCHANGED <<heard, asked, wire, base, clivars>>
  <2>1. ClientInv'
    BY <1>1 DEF clivars, hellovars, rectvars, sizevars, ClientInv, Types,
                Places, Asks, Sizes, Allocated, Reading, UpdateOnItsWay, R, Cur
  <2> QED BY <1>1, <2>1
<1>2. CASE Start \/ Handshake \/ Connected \/ Fails
  BY <1>2, ConnectingStep
<1>3. CASE HandleRFBServerMessage
  BY <1>3, MessageStep, UpdateStep DEF HandleRFBServerMessage, hellovars
<1> QED BY <1>1, <1>2, <1>3 DEF Client

LEMMA ClientStep ==
    ASSUME ReaderInv, ClientInv, [Next]_vars
    PROVE  ClientInv' /\ [ReaderNext]_rvars
<1>1. CASE ServerHello \/ Serve
  BY <1>1, OthersStep DEF ServerHello, Serve
<1>2. CASE Deliver
  <2>1. arrived' \in Nat /\ Arrive(arrived')
    BY <1>2 DEF Deliver, Arrive, ReaderInv, ReaderTypeOK
  <2> QED BY <1>2, <2>1, OthersStep DEF ReaderNext
<1>3. CASE Disconnect
  BY <1>3, OthersStep DEF Disconnect, ReaderNext
<1>4. CASE Client /\ UNCHANGED svrvars
  BY <1>4, ClientCalls DEF svrvars, Called, ReaderNext
<1>5. CASE UNCHANGED vars
  BY <1>5 DEF vars, svrvars, clivars, hellovars, rectvars, sizevars, ClientInv,
              Types, Places, Asks, Sizes, Allocated, Reading, UpdateOnItsWay, R, Cur
<1> QED BY <1>1, <1>2, <1>3, <1>4, <1>5 DEF Next

(* The messages on the wire and the client's place in the first of them    *)
(* agree, and so do its reader's buffer and the stream, for any sequence   *)
(* of messages and any number of them.                                     *)
THEOREM ClientIsRight == Spec => [](ReaderInv /\ ClientInv)
<1>1. ReaderInv /\ ClientInv /\ [Next]_vars => (ReaderInv /\ ClientInv)'
  BY ClientStep, StepInv
<1> QED BY <1>1, ClientStarts, PTL DEF Spec

(* The protocol calls ReadFromRFBServer() only as a caller may: what it is *)
(* given are the bytes of the server's stream, every one once and in order.*)
THEOREM ClientReadsStream == Spec => ImplementsStream
<1>1. Init => Stream!SInit
  BY InitStream DEF Init
<1>2. ReaderInv /\ ClientInv /\ (ReaderInv /\ ClientInv)' /\ [Next]_vars
          => [Stream!SNext]_(Stream!svars)
  BY ClientStep, StepStream
<1> QED BY <1>1, <1>2, ClientIsRight, PTL DEF Spec, ImplementsStream, Stream!SSpec

(* While it waits for a message the client has a request out or an update  *)
(* on its way: it never waits for a server that waits to be asked.         *)
THEOREM AsksAgain == Spec => []KeepsAsking
<1>1. ReaderInv /\ ClientInv => KeepsAsking
  BY DEF ClientInv, Asks, KeepsAsking, UpdateOnItsWay, Serving
<1> QED BY <1>1, ClientIsRight, PTL

(* Lines are painted only into a frame buffer that has them, however often *)
(* the screen changed its size; only a surface cut to MaxSurface for a     *)
(* server that can scale is painted past, and then by no rectangle that is *)
(* higher than the screen.                                                 *)
THEOREM PaintsInBuffer == Spec => []PaintsInside
<1>1. ReaderInv /\ ClientInv => PaintsInside
  <2> SUFFICES ASSUME ClientInv, cpc = "raw"
               PROVE  lines <= R.h /\ (R.h <= fb \/ (scales /\ fb = MaxSurface /\ R.h <= height))
    BY DEF PaintsInside
  <2>1. fb = Allocated(height) /\ lines <= R.h /\ R.h <= height
    BY DEF ClientInv, Sizes, Serving, InUpdate, InRect
  <2> QED BY <2>1 DEF Allocated, Least
<1> QED BY <1>1, ClientIsRight, PTL
--------------------------------------------------------------------------------
(* The sizes of the messages add up: more messages make more bytes, and a  *)
(* message that goes takes its bytes with it.                              *)
LEMMA PayloadIsNat == ASSUME NEW r \in Rectangle PROVE Payload(r) \in Nat
BY DEF Payload, Rectangle

LEMMA RectBytesAddUp ==
    ASSUME NEW rs \in Seq(Rectangle)
    PROVE  /\ Sum(RectBytes(rs), 0) = 0
           /\ \A i \in 0 .. Len(rs) : Sum(RectBytes(rs), i) \in Nat
           /\ \A i \in 1 .. Len(rs) :
                  /\ Payload(rs[i]) \in Nat
                  /\ Sum(RectBytes(rs), i) = Sum(RectBytes(rs), i - 1) + 1 + Payload(rs[i])
<1> DEFINE f == RectBytes(rs)
<1>1. \A i \in 1 .. Len(rs) : Payload(rs[i]) \in Nat /\ f[i] = 1 + Payload(rs[i])
  <2>1. \A i \in 1 .. Len(rs) : rs[i] \in Rectangle
    OBVIOUS
  <2> QED BY <2>1, PayloadIsNat DEF RectBytes
<1>2. \A i \in 1 .. Len(rs) : f[i] \in Nat
  BY <1>1
<1> HIDE DEF f
<1>3. \A i \in 0 .. Len(rs) : Sum(f, i) \in Nat
  BY <1>2, SumType
<1>4. Sum(f, 0) = 0
  BY SumNext
<1>5. ASSUME NEW i \in 1 .. Len(rs)
      PROVE  Sum(f, i) = Sum(f, i - 1) + 1 + Payload(rs[i])
  <2>1. i - 1 \in Nat /\ (i - 1) + 1 = i /\ i - 1 \in 0 .. Len(rs)
    OBVIOUS
  <2>2. Sum(f, (i - 1) + 1) = Sum(f, i - 1) + f[(i - 1) + 1]
    BY <2>1, SumNext
  <2>3. Sum(f, i) = Sum(f, i - 1) + f[i]
    BY <2>1, <2>2
  <2>4. Sum(f, i - 1) \in Nat
    BY <1>3, <2>1
  <2>5. f[i] = 1 + Payload(rs[i]) /\ Payload(rs[i]) \in Nat
    BY <1>1
  <2> QED BY <2>3, <2>4, <2>5
<1> QED BY <1>1, <1>3, <1>4, <1>5 DEF f

LEMMA SizeIs ==
    ASSUME NEW m \in Message
    PROVE  /\ SizeOf(m) \in Nat \ {0}
           /\ m.kind \notin {"update", "cuttext", "resize", "colours"} => SizeOf(m) = 1
           /\ m.kind \in {"resize", "colours"} => SizeOf(m) = 2
           /\ m.kind = "cuttext" => SizeOf(m) = 2 + m.n
           /\ m.kind = "update" =>
                  SizeOf(m) = 2 + Sum(RectBytes(m.rects), Len(m.rects))
<1>1. m.rects \in Seq(Rectangle) /\ m.n \in Nat
  BY DEF Message
<1>2. Sum(RectBytes(m.rects), Len(m.rects)) \in Nat
  BY <1>1, RectBytesAddUp
<1> QED BY <1>1, <1>2 DEF SizeOf

LEMMA BytesAreNat ==
    ASSUME NEW ms \in Seq(Message)
    PROVE  /\ \A i \in 1 .. Len(ms) : MessageBytes(ms)[i] \in Nat
           /\ Sum(MessageBytes(ms), Len(ms)) \in Nat
<1>1. \A i \in 1 .. Len(ms) : MessageBytes(ms)[i] \in Nat
  <2>1. \A i \in 1 .. Len(ms) : ms[i] \in Message
    OBVIOUS
  <2> QED BY <2>1, SizeIs DEF MessageBytes
<1> DEFINE f == MessageBytes(ms)
<1> HIDE DEF f
<1>2. \A i \in 0 .. Len(ms) : Sum(f, i) \in Nat
  <2>1. \A i \in 1 .. Len(ms) : f[i] \in Nat
    BY <1>1 DEF f
  <2> QED BY <2>1, SumType
<1> QED BY <1>1, <1>2 DEF f

LEMMA BytesOfParts ==
    ASSUME NEW s, NEW t, NEW k \in Nat, NEW n \in Nat, NEW m \in Nat, m = k + n,
           \A i \in 1 .. m : MessageBytes(s \o t)[i] \in Int,
           \A i \in 1 .. k : MessageBytes(s)[i] = MessageBytes(s \o t)[i],
           \A i \in 1 .. n : MessageBytes(t)[i] = MessageBytes(s \o t)[k + i]
    PROVE  Sum(MessageBytes(s \o t), m)
               = Sum(MessageBytes(s), k) + Sum(MessageBytes(t), n)
<1> DEFINE f == MessageBytes(s \o t)
           a == MessageBytes(s)
           b == MessageBytes(t)
<1> HIDE DEF f, a, b
<1>1. /\ \A i \in 1 .. m : f[i] \in Int
      /\ \A i \in 1 .. k : a[i] = f[i]
      /\ \A i \in 1 .. n : b[i] = f[k + i]
  BY DEF f, a, b
<1>2. Sum(f, m) = Sum(f, k) + Sum(b, n)
  BY <1>1, SumSplit
<1>3. Sum(a, k) = Sum(f, k)
  BY <1>1, SumSame
<1> QED BY <1>2, <1>3 DEF f, a, b

LEMMA MoreBytes ==
    ASSUME NEW s \in Seq(Message), NEW t \in Seq(Message)
    PROVE  Sum(MessageBytes(s \o t), Len(s \o t))
               = Sum(MessageBytes(s), Len(s)) + Sum(MessageBytes(t), Len(t))
<1>1. /\ s \o t \in Seq(Message) /\ Len(s) \in Nat /\ Len(t) \in Nat
      /\ Len(s \o t) \in Nat /\ Len(s \o t) = Len(s) + Len(t)
  OBVIOUS
<1>2. \A i \in 1 .. Len(s \o t) : MessageBytes(s \o t)[i] \in Int
  <2>1. \A i \in 1 .. Len(s \o t) : MessageBytes(s \o t)[i] \in Nat
    BY <1>1, BytesAreNat
  <2> QED BY <2>1
<1>3. /\ \A i \in 1 .. Len(s) : MessageBytes(s)[i] = MessageBytes(s \o t)[i]
      /\ \A i \in 1 .. Len(t) : MessageBytes(t)[i] = MessageBytes(s \o t)[Len(s) + i]
  BY DEF MessageBytes
<1> QED BY <1>1, <1>2, <1>3, BytesOfParts

LEMMA HeadBytes ==
    ASSUME NEW s \in Seq(Message), s # <<>>
    PROVE  Sum(MessageBytes(s), Len(s))
               = SizeOf(Head(s)) + Sum(MessageBytes(Tail(s)), Len(Tail(s)))
<1>1. /\ Head(s) \in Message /\ <<Head(s)>> \in Seq(Message) /\ Tail(s) \in Seq(Message)
      /\ s = <<Head(s)>> \o Tail(s)
  OBVIOUS
<1> DEFINE h == <<Head(s)>>
<1>2. Sum(MessageBytes(h), Len(h)) = SizeOf(Head(s))
  <2>1. Len(h) = 1 /\ MessageBytes(h)[1] = SizeOf(Head(s))
    BY DEF MessageBytes
  <2> DEFINE f == MessageBytes(h)
  <2> HIDE DEF f
  <2>2. Sum(f, 0) = 0 /\ Sum(f, 0 + 1) = Sum(f, 0) + f[0 + 1]
    BY SumNext
  <2>3. f[1] \in Nat
    BY <1>1, <2>1, SizeIs DEF f
  <2>4. Sum(f, 1) = f[1]
    BY <2>2, <2>3
  <2> QED BY <2>1, <2>4 DEF f
<1>3. Sum(MessageBytes(h \o Tail(s)), Len(h \o Tail(s)))
          = Sum(MessageBytes(h), Len(h)) + Sum(MessageBytes(Tail(s)), Len(Tail(s)))
  BY <1>1, MoreBytes
<1> QED BY <1>1, <1>2, <1>3

LEMMA TailIs ==
    ASSUME NEW s \in Seq(Message), s # <<>>
    PROVE  SubSeq(s, 2, Len(s)) = Tail(s)
<1> DEFINE n == Len(s)
           t == SubSeq(s, 2, n)
<1>1. n \in Nat \ {0} /\ \A i \in 2 .. n : s[i] \in Message
  OBVIOUS
<1>2. /\ Tail(s) \in Seq(Message) /\ Len(Tail(s)) = n - 1
      /\ \A i \in 1 .. n - 1 : Tail(s)[i] = s[i + 1]
  OBVIOUS
<1>3. /\ t \in Seq(Message)
      /\ Len(t) = IF 2 <= n THEN n - 2 + 1 ELSE 0
      /\ \A i \in 1 .. n - 2 + 1 : t[i] = s[2 + i - 1]
  <2>1. 2 \in Int /\ n \in Int
    BY <1>1
  <2> HIDE DEF n
  <2> QED BY <1>1, <2>1, SubSeqProperties
<1> HIDE DEF t, n
<1>4. Len(t) = Len(Tail(s))
  BY <1>1, <1>2, <1>3
<1>5. \A i \in 1 .. Len(t) : t[i] = Tail(s)[i]
  BY <1>1, <1>2, <1>3, <1>4
<1>6. t = Tail(s)
  BY <1>2, <1>3, <1>4, <1>5, SeqEqual
<1> QED BY <1>6 DEF t, n

(* What the server has sent never grows less.                              *)
LEMMA SentGrows ==
    ASSUME wire \in Seq(Message), base \in Nat
    PROVE  /\ Sent \in Nat /\ Sent >= base /\ SizeOf(Cur) \in Nat \ {0}
           /\ wire = <<>> => Sent = base
           /\ \A ms \in Seq(Message) :
                  Send(ms) /\ base' = base => Sent' \in Nat /\ Sent' >= Sent
           /\ Done => Sent' \in Nat /\ Sent' >= Sent /\ base' \in Nat
<1>0. Sum(MessageBytes(wire), Len(wire)) \in Nat
  BY BytesAreNat
<1>1. Sent \in Nat /\ Sent >= base
  BY <1>0 DEF Sent
<1>2. wire = <<>> => Sent = base
  <2>1. Sum(MessageBytes(wire), 0) = 0
    BY SumNext
  <2> QED BY <2>1 DEF Sent
<1>3. ASSUME NEW ms \in Seq(Message), Send(ms), base' = base
      PROVE  Sent' \in Nat /\ Sent' >= Sent
  <2>1. Sum(MessageBytes(ms), Len(ms)) \in Nat
    BY BytesAreNat
  <2>2. Sum(MessageBytes(wire'), Len(wire'))
            = Sum(MessageBytes(wire), Len(wire)) + Sum(MessageBytes(ms), Len(ms))
    BY <1>3, MoreBytes DEF Send
  <2>3. Sent' = base + Sum(MessageBytes(wire'), Len(wire'))
    BY <1>3 DEF Sent
  <2>4. Sent = base + Sum(MessageBytes(wire), Len(wire))
    BY DEF Sent
  <2> QED BY <1>0, <2>1, <2>2, <2>3, <2>4
<1>4. Cur \in Message /\ SizeOf(Cur) \in Nat \ {0}
  <2>1. Field("garbage") \in Message
    BY FieldType DEF Kinds
  <2>2. Cur \in Message
    BY <2>1 DEF Cur
  <2> QED BY <2>2, SizeIs
<1>5. ASSUME Done
      PROVE  Sent' \in Nat /\ Sent' >= Sent /\ base' \in Nat
  <2>1. base' = base + SizeOf(Cur) /\ (wire # <<>> => wire' = Tail(wire))
    BY <1>5, TailIs DEF Done
  <2>2. Sent' = base' + Sum(MessageBytes(wire'), Len(wire'))
    BY DEF Sent
  <2>3. CASE wire = <<>>
    <3>1. wire' = <<>>
      BY <1>5, <2>3 DEF Done
    <3>2. Sum(MessageBytes(wire'), Len(wire')) = 0
      <4>1. Len(wire') = 0
        BY <3>1
      <4>2. Sum(MessageBytes(wire'), 0) = 0
        BY SumNext
      <4> QED BY <4>1, <4>2
    <3>3. Sent' = base' /\ base' \in Nat
      BY <1>4, <2>1, <2>2, <3>2
    <3> QED BY <1>2, <1>4, <2>1, <2>3, <3>3
  <2>4. CASE wire # <<>>
    <3>1. Cur = Head(wire)
      BY <2>4 DEF Cur
    <3>2. Sum(MessageBytes(wire), Len(wire))
              = SizeOf(Cur) + Sum(MessageBytes(wire'), Len(wire'))
      BY <2>1, <2>4, <3>1, HeadBytes
    <3>3. Sum(MessageBytes(wire'), Len(wire')) \in Nat
      <4>1. wire' \in Seq(Message)
        BY <2>1, <2>4
      <4> QED BY <4>1, BytesAreNat
    <3>4. Sent = base + Sum(MessageBytes(wire), Len(wire))
      BY DEF Sent
    <3> QED BY <1>4, <2>1, <2>2, <3>2, <3>3, <3>4
  <2> QED BY <2>3, <2>4
<1> QED BY <1>1, <1>2, <1>3, <1>4, <1>5
--------------------------------------------------------------------------------
(* Where the client stands in the stream: the bytes it reads, or has read, *)
(* begin p bytes after the beginning of the message it is in the middle    *)
(* of, and are n.                                                          *)
Stands(p, n) == First = base + p /\ want = n

(* The bytes of an update before its rectangle i.                          *)
Before(i) == 2 + Sum(RectBytes(Cur.rects), i - 1)

(* It has left the body of a message unread.                               *)
LeftBody == Reading("colours") /\ Consumed = base + 1

Standing ==
    /\ cpc \in {"start", "loop"} => Returned
    /\ cpc = "start" => Consumed = base
    /\ cpc = "loop" => Consumed = base \/ LeftBody
    /\ cpc \in Hello => Stands(0, 1)
    /\ cpc = "type" => Stands(0, 1) \/ (Reading("colours") /\ Stands(1, 1))
    /\ cpc = "astray" => Reading("colours")
    /\ cpc \in {"cutlength", "newsize", "rects"} => Stands(1, 1)
    /\ cpc = "cuttext" => Stands(2, Cur.n)
    /\ cpc = "rect" => Stands(Before(rect), 1)
    /\ cpc \in {"copy", "cursor"} => Stands(Before(rect) + 1, 1) /\ R.enc = cpc
    /\ cpc = "raw" => /\ R.enc = "raw" /\ lines \in 0 .. R.h
                      /\ Stands(Before(rect) + 1 + (R.h - lines), Least(LinesPerRead, lines))

(* The network brings no more than was sent.                               *)
Counts ==
    /\ base \in Nat /\ minor \in Nat /\ left \in Int
    /\ arrived <= Sent
--------------------------------------------------------------------------------
(* What a read does to the client's place in the stream.                   *)
LEMMA ReadStands ==
    ASSUME ReaderInv, NEW n \in Nat, Read(n)
    PROVE  First' = Consumed /\ want' = n /\ Returned
<1>1. rpc = "idle" /\ ok /\ rpc' # "idle" /\ want' = n
  BY DEF Read, CallBuffered, CallSocket
<1>2. Consumed' = Consumed
  <2>1. CASE CallBuffered(n)
    BY <2>1, <1>1 DEF CallBuffered, bufvars, Consumed, ReaderInv, ReaderTypeOK
  <2>2. CASE CallSocket(n)
    <3>1. Len(out') = buffered
      BY <2>2, BufferedBytes DEF CallSocket, ReaderInv, ReaderTypeOK
    <3> QED BY <2>2, <1>1, <3>1 DEF CallSocket, Consumed, ReaderInv, ReaderTypeOK
  <2> QED BY <2>1, <2>2 DEF Read
<1> QED BY <1>1, <1>2 DEF First, Returned

LEMMA ReadingStands ==
    ASSUME ReaderInv, InRead
    PROVE  /\ First' = First /\ want' = want /\ ~Returned
           /\ arrived' = arrived /\ closed' = closed
<1>0. ReaderInv'
  BY FillInv, CopyInv, DirectInv, ReadFailsInv DEF InRead
<1>1. /\ want' = want /\ arrived' = arrived /\ closed' = closed
      /\ rpc # "idle" /\ ok
  BY DEF InRead, Fill, Copy, Direct, DirectTo, ReadFails, netvars, bufvars, ReaderInv, CallInv
<1>2. First = Consumed /\ First \in Int /\ want \in Nat
  BY <1>1, ConsumedIsInt DEF First, ReaderInv, ReaderTypeOK
<1>3. CASE Fill
  <2> DEFINE i == Least(Available, RFB_BUF_SIZE - buffered)
  <2>1. i \in Int
    BY <1>3, ReaderAssumption
       DEF Fill, Least, Available, ReaderInv, ReaderTypeOK
  <2>2. /\ buffered' = buffered + i /\ taken' = taken + i /\ out' = out
        /\ rpc' # "idle"
    BY <1>3 DEF Fill
  <2> HIDE DEF i
  <2>3. Consumed' = Consumed
    BY <1>1, <2>1, <2>2 DEF Consumed, ReaderInv, ReaderTypeOK
  <2> QED BY <1>1, <1>2, <2>2, <2>3 DEF First, Returned
<1>4. CASE Copy \/ Direct
  <2>1. ok' = ok /\ (rpc' = "idle" => Len(out') = want /\ Consumed' = Consumed + want)
        /\ (rpc' # "idle" => Consumed' = Consumed)
    <3>1. CASE Copy
      BY <3>1, CopyInv DEF Copy
    <3>2. CASE Direct
      BY <3>2, DirectInv DEF Direct, DirectTo
    <3> QED BY <1>4, <3>1, <3>2
  <2> QED BY <1>1, <1>2, <2>1 DEF First, Returned
<1>5. CASE ReadFails
  <2>1. Consumed' = Consumed /\ ~ok'
    BY <1>5, ReadFailsInv DEF ReadFails
  <2> QED BY <1>1, <1>2, <2>1 DEF First, Returned
<1> QED BY <1>3, <1>4, <1>5 DEF InRead

(* A read that has returned has brought the client as far as it asked, and *)
(* no further than what has arrived.                                       *)
LEMMA ReturnedStands ==
    ASSUME ReaderInv, Returned, base \in Nat, NEW p \in Nat, NEW n \in Nat, Stands(p, n)
    PROVE  /\ Consumed = base + p + n /\ Len(out) = n
           /\ n > 0 => out[1] = base + p
           /\ Consumed <= arrived
<1>1. /\ rpc = "idle" /\ ok /\ Len(out) = want /\ want = n /\ First = base + p
      /\ First = Consumed - Len(out)
  BY DEF Returned, ReaderInv, CallInv, Stands, First
<1>2. Consumed \in Int /\ Consumed <= arrived
  <2>1. Consumed = taken - buffered
    BY <1>1 DEF Consumed, ReaderInv, ReaderTypeOK
  <2> QED BY <2>1 DEF ReaderInv, ReaderTypeOK, BufferInv
<1>3. n > 0 => out[1] = base + p
  <2>1. \A i \in 1 .. Len(out) : out[i] = (Consumed - Len(out)) + i - 1
    BY <1>1 DEF ReaderInv, OutInv
  <2>2. n > 0 => out[1] = (Consumed - Len(out)) + 1 - 1
    BY <1>1, <2>1
  <2> QED BY <1>1, <1>2, <2>2
<1> QED BY <1>1, <1>2, <1>3

(* Nothing but a read changes it.                                          *)
LEMMA SameStands ==
    ASSUME UNCHANGED <<bufvars, callvars>>
    PROVE  /\ First' = First /\ Consumed' = Consumed /\ want' = want
           /\ (Returned' <=> Returned) /\ out' = out
BY DEF bufvars, callvars, First, Consumed, Returned
--------------------------------------------------------------------------------
LEMMA HelloKinds ==
    /\ Hello \cap {"loop", "gone", "astray", "type", "unknown", "start"} = {}
    /\ Hello \cap {"cutlength", "newsize", "rects", "cuttext", "rect", "copy",
                   "cursor", "raw"} = {}
    /\ Hello \cap {"update", "cuttext", "resize", "colours"} = {}
BY DEF Hello

(* The places where the client may come to stand after a message.          *)
LEMMA StandsAtEnd ==
    ASSUME Returned, cpc' = "loop", UNCHANGED rvars, Consumed = base'
    PROVE  Standing'
<1>1. Returned' /\ Consumed' = base'
  BY DEF rvars, netvars, bufvars, callvars, Returned, Consumed
<1> QED BY <1>1, HelloKinds DEF Standing

LEMMA StandsAstray ==
    ASSUME Returned, UNCHANGED rvars, SameMessage, Reading("colours"),
           cpc' = "astray" \/ (cpc' = "loop" /\ Consumed = base + 1)
    PROVE  Standing'
<1>1. Returned' /\ Consumed' = Consumed
  BY DEF rvars, netvars, bufvars, callvars, Returned, Consumed
<1>2. Reading("colours")' /\ base' = base
  BY DEF SameMessage, Reading
<1> QED BY <1>1, <1>2, HelloKinds DEF Standing, LeftBody

LEMMA StandsNowhere ==
    ASSUME cpc' \in {"gone", "unknown"}
    PROVE  Standing'
BY HelloKinds DEF Standing

LEMMA StandsAtStart ==
    ASSUME ReaderInv, cpc' \in Hello \cup {"type"}, Read(1), Consumed = base'
    PROVE  Standing'
<1>1. First' = base' + 0 /\ want' = 1
  <2>1. Consumed \in Int
    BY ConsumedIsInt DEF ReaderInv
  <2> QED BY <2>1, ReadStands
<1>2. Stands(0, 1)'
  BY <1>1 DEF Stands
<1> QED BY <1>2, HelloKinds DEF Standing

(* Within an update: before a rectangle, or behind the last of them.       *)
LEMMA BeforeIs ==
    ASSUME Types, Reading("update")
    PROVE  /\ Cur \in Message /\ Cur.rects \in Seq(Rectangle)
           /\ Before(1) = 2
           /\ \A i \in 1 .. Len(Cur.rects) :
                  /\ Before(i) \in Nat /\ Payload(Cur.rects[i]) \in Nat
                  /\ Before(i + 1) = Before(i) + 1 + Payload(Cur.rects[i])
           /\ Before(Len(Cur.rects) + 1) = SizeOf(Cur)
<1>1. Cur \in Message /\ Cur.kind = "update"
  BY CurType DEF Reading
<1>2. Cur.rects \in Seq(Rectangle)
  BY <1>1 DEF Message
<1> DEFINE f == RectBytes(Cur.rects)
           n == Len(Cur.rects)
<1>3. n \in Nat
  BY <1>2
<1>4. /\ Sum(f, 0) = 0
      /\ \A i \in 0 .. n : Sum(f, i) \in Nat
      /\ \A i \in 1 .. n : /\ Payload(Cur.rects[i]) \in Nat
                           /\ Sum(f, i) = Sum(f, i - 1) + 1 + Payload(Cur.rects[i])
  BY <1>2, RectBytesAddUp
<1>5. SizeOf(Cur) = 2 + Sum(f, n)
  BY <1>1, SizeIs
<1>6. \A i \in 1 .. n + 1 : Before(i) = 2 + Sum(f, i - 1)
  BY DEF Before
<1> HIDE DEF f, n
<1>7. ASSUME NEW i \in 1 .. n
      PROVE  Before(i) \in Nat /\ Before(i + 1) = Before(i) + 1 + Payload(Cur.rects[i])
  <2>1. i - 1 \in 0 .. n /\ i + 1 \in 1 .. n + 1 /\ i \in 1 .. n + 1 /\ (i + 1) - 1 = i
    BY <1>3
  <2>2. Before(i) = 2 + Sum(f, i - 1) /\ Before(i + 1) = 2 + Sum(f, i)
    BY <1>6, <2>1
  <2>3. Sum(f, i - 1) \in Nat /\ Payload(Cur.rects[i]) \in Nat
    BY <1>4, <2>1
  <2>4. Sum(f, i) = Sum(f, i - 1) + 1 + Payload(Cur.rects[i])
    BY <1>4
  <2> QED BY <2>2, <2>3, <2>4
<1>8. Before(1) = 2
  <2>1. 1 \in 1 .. n + 1 /\ 1 - 1 = 0
    BY <1>3
  <2>2. Before(1) = 2 + Sum(f, 0)
    BY <1>6, <2>1
  <2> QED BY <1>4, <2>2
<1>9. Before(n + 1) = SizeOf(Cur)
  <2>1. n + 1 \in 1 .. n + 1 /\ (n + 1) - 1 = n
    BY <1>3
  <2> QED BY <1>5, <1>6, <2>1
<1> QED BY <1>1, <1>2, <1>4, <1>7, <1>8, <1>9 DEF n

LEMMA StandsAfterUpdate ==
    ASSUME Types, Reading("update"), Returned,
           Consumed = base + Before(Len(Cur.rects) + 1),
           NEW asks \in Nat, EndUpdate(asks)
    PROVE  Standing'
<1>1. CASE EndMessage
  <2>1. base' = base + SizeOf(Cur) /\ cpc' = "loop" /\ UNCHANGED rvars
    BY <1>1 DEF EndMessage, Done
  <2> QED BY <2>1, BeforeIs, StandsAtEnd
<1>2. CASE GiveUp
  BY <1>2, StandsNowhere DEF GiveUp
<1> QED BY <1>1, <1>2 DEF EndUpdate

LEMMA StandsAtRect ==
    ASSUME ReaderInv, Types, Reading("update"), Returned,
           NEW i \in 1 .. Len(Cur.rects) + 1, Consumed = base + Before(i),
           NEW asks \in Nat, ToRect(i, asks)
    PROVE  Standing'
<1>1. Len(Cur.rects) \in Nat
  BY BeforeIs
<1>2. CASE i <= Len(Cur.rects) /\ rect' = i /\ GoOn("rect", 1) /\ SameMessage
  <2>1. Cur' = Cur /\ base' = base /\ cpc' = "rect" /\ Read(1)
    BY <1>2 DEF SameMessage, Cur, GoOn
  <2>2. Before(rect)' = Before(i)
    BY <1>2, <2>1 DEF Before
  <2>3. Stands(Before(rect), 1)'
    BY <2>1, <2>2, ReadStands DEF Stands
  <2> QED BY <2>1, <2>3, HelloKinds DEF Standing
<1>3. CASE i > Len(Cur.rects) /\ EndUpdate(asks)
  <2>1. i = Len(Cur.rects) + 1
    BY <1>1, <1>3
  <2> QED BY <1>3, <2>1, StandsAfterUpdate
<1> QED BY <1>2, <1>3 DEF ToRect
--------------------------------------------------------------------------------
(* The steps of the client by which it goes from place to place.           *)
LEMMA MessageStands ==
    ASSUME ReaderInv, ClientInv, Counts, Standing,
           Loop \/ GotType \/ GotUnknown \/ GotCutLength \/ GotCutText \/ GotNewSize
    PROVE  Standing'
<1>0. Types /\ Places /\ base \in Nat
  BY DEF ClientInv, Counts
<1>1. Cur \in Message /\ Cur.n \in Nat /\ (wire # <<>> => Cur = Head(wire))
  BY <1>0, CurType DEF Message
<1>2. CASE Loop
  <2>1. base' = base /\ wire' = wire /\ cpc' = "type" /\ Read(1)
        /\ (Consumed = base \/ LeftBody)
    BY <1>2 DEF Loop, At, GoOn, Standing
  <2>2. CASE Consumed = base
    BY <2>1, <2>2, StandsAtStart
  <2>3. CASE LeftBody
    <3>1. Reading("colours")'
      BY <2>1, <2>3 DEF LeftBody, Reading
    <3>2. Stands(1, 1)'
      BY <2>1, <2>3, ReadStands DEF Stands, LeftBody
    <3> QED BY <2>1, <3>1, <3>2, HelloKinds DEF Standing
  <2> QED BY <2>1, <2>2, <2>3
<1>3. CASE GotType
  <2> DEFINE k == MessageAt(out[1]).kind
  <2>1. /\ Returned /\ (Stands(0, 1) \/ (Reading("colours") /\ Stands(1, 1)))
        /\ \/ k = "bell" /\ EndMessage
           \/ k = "cuttext" /\ GoOn("cutlength", 1) /\ SameMessage
           \/ k = "resize" /\ GoOn("newsize", 1) /\ SameMessage
           \/ k = "update" /\ GoOn("rects", 1) /\ SameMessage
           \/ k = "colours" /\ cpc' = "loop" /\ SameMessage /\ UNCHANGED rvars
           \/ out[1] # base /\ cpc' = "astray" /\ SameMessage /\ UNCHANGED rvars
           \/ out[1] = base /\ GoOn("unknown", UnknownLength) /\ SameMessage
    BY <1>3 DEF GotType, At, Standing
  <2>2. CASE Reading("colours") /\ Stands(1, 1)
    <3>1. out[1] # base
      BY <1>0, <2>1, <2>2, ReturnedStands
    <3>2. MessageAt(out[1]) = Field("garbage")
      BY <3>1 DEF MessageAt
    <3>3. k = "garbage"
      <4>1. Field("garbage").kind = "garbage"
        BY DEF Field, Msg
      <4> QED BY <3>2, <4>1
    <3> HIDE DEF k
    <3> QED BY <2>1, <2>2, <3>1, <3>3, StandsAstray
  <2>3. CASE Stands(0, 1)
    <3>1. Consumed = base + 1 /\ out[1] = base
      BY <1>0, <2>1, <2>3, ReturnedStands
    <3>2. k = Cur.kind
      BY <3>1 DEF MessageAt
    <3>3. CASE k = "bell" /\ EndMessage
      <4>1. SizeOf(Cur) = 1
        BY <1>1, <3>2, <3>3, SizeIs
      <4>2. base' = base + 1 /\ cpc' = "loop" /\ UNCHANGED rvars
        BY <3>3, <4>1 DEF EndMessage, Done
      <4> QED BY <2>1, <3>1, <4>2, StandsAtEnd
    <3>4. CASE \E p \in {"cutlength", "newsize", "rects"} : GoOn(p, 1) /\ SameMessage
      <4>1. /\ cpc' \in {"cutlength", "newsize", "rects"} /\ Read(1)
            /\ base' = base
        BY <3>4 DEF GoOn, SameMessage
      <4>2. Stands(1, 1)'
        BY <3>1, <4>1, ReadStands DEF Stands
      <4> QED BY <4>1, <4>2, HelloKinds DEF Standing
    <3>5. CASE k = "colours" /\ cpc' = "loop" /\ SameMessage /\ UNCHANGED rvars
      <4>1. wire # <<>>
        BY <1>0, <3>2, <3>5, CurType
      <4>2. Reading("colours")
        BY <1>1, <3>2, <3>5, <4>1 DEF Reading
      <4> QED BY <2>1, <3>1, <3>5, <4>2, StandsAstray
    <3>6. CASE GoOn("unknown", UnknownLength)
      BY <3>6, StandsNowhere DEF GoOn
    <3> HIDE DEF k
    <3> QED BY <2>1, <3>1, <3>3, <3>4, <3>5, <3>6
  <2> QED BY <2>1, <2>2, <2>3
<1>4. CASE GotUnknown
  BY <1>4, StandsNowhere DEF GotUnknown, GiveUp
<1>5. CASE GotCutLength
  <2>1. Returned /\ Stands(1, 1) /\ SameMessage
    BY <1>5 DEF GotCutLength, At, Standing
  <2>2. Consumed = base + 2
    BY <1>0, <2>1, ReturnedStands
  <2>3. CASE GiveUp
    BY <2>3, StandsNowhere DEF GiveUp
  <2>4. CASE GoOn("cuttext", Cur.n)
    <3>1. cpc' = "cuttext" /\ Read(Cur.n) /\ base' = base /\ Cur' = Cur
      BY <2>1, <2>4 DEF GoOn, SameMessage, Cur
    <3>2. Stands(2, Cur.n)'
      BY <1>1, <2>2, <3>1, ReadStands DEF Stands
    <3> QED BY <3>1, <3>2, HelloKinds DEF Standing
  <2> QED BY <1>5, <2>3, <2>4 DEF GotCutLength
<1>6. CASE GotCutText
  <2>1. Returned /\ Stands(2, Cur.n) /\ EndMessage /\ Reading("cuttext")
    BY <1>0, <1>6 DEF GotCutText, At, Standing, Places
  <2>2. Consumed = base + 2 + Cur.n
    BY <1>0, <1>1, <2>1, ReturnedStands
  <2>3. SizeOf(Cur) = 2 + Cur.n
    BY <1>1, <2>1, SizeIs DEF Reading
  <2>4. base' = base + SizeOf(Cur) /\ cpc' = "loop" /\ UNCHANGED rvars
    BY <2>1 DEF EndMessage, Done
  <2>5. Consumed = base'
    BY <1>0, <1>1, <2>2, <2>3, <2>4
  <2> QED BY <2>1, <2>4, <2>5, StandsAtEnd
<1>7. CASE GotNewSize
  <2>1. Returned /\ Stands(1, 1) /\ Reading("resize")
    BY <1>0, <1>7 DEF GotNewSize, At, Standing, Places
  <2>2. Consumed = base + 2 /\ SizeOf(Cur) = 2
    BY <1>0, <1>1, <2>1, ReturnedStands, SizeIs DEF Reading
  <2>3. CASE EndMessage
    <3>1. base' = base + SizeOf(Cur) /\ cpc' = "loop" /\ UNCHANGED rvars
      BY <2>3 DEF EndMessage, Done
    <3> QED BY <2>1, <2>2, <3>1, StandsAtEnd
  <2>4. CASE NoMemory(Cur.n)
    BY <2>4, StandsNowhere DEF NoMemory, GiveUp
  <2> QED BY <1>7, <2>3, <2>4 DEF GotNewSize
<1> QED BY <1>2, <1>3, <1>4, <1>5, <1>6, <1>7

LEMMA UpdateStands ==
    ASSUME ReaderInv, ClientInv, Counts, Standing,
           GotRects \/ GotPseudoRect \/ GotPixelRect \/ GotLines \/ GotPayload
    PROVE  Standing'
<1>0. Types /\ base \in Nat /\ cpc \in InUpdate /\ Returned /\ Reading("update")
  BY DEF ClientInv, Counts, Places, InUpdate, InRect, At,
         GotRects, GotPseudoRect, GotPixelRect, GotLines, GotPayload
<1>1. /\ Cur \in Message /\ Cur.rects \in Seq(Rectangle) /\ Len(Cur.rects) \in Nat
      /\ Before(1) = 2
      /\ \A i \in 1 .. Len(Cur.rects) :
             /\ Before(i) \in Nat /\ Payload(Cur.rects[i]) \in Nat
             /\ Before(i + 1) = Before(i) + 1 + Payload(Cur.rects[i])
  BY <1>0, BeforeIs
<1>2. 0 \in Nat /\ 1 \in Nat
  OBVIOUS
<1>3. CASE GotRects
  <2>1. Stands(1, 1) /\ ToRect(1, 0)
    BY <1>3 DEF GotRects, At, Standing
  <2>2. Consumed = base + 2
    BY <1>0, <2>1, ReturnedStands
  <2>3. 1 \in 1 .. Len(Cur.rects) + 1 /\ Consumed = base + Before(1)
    BY <1>1, <2>2
  <2> QED BY <1>0, <1>2, <2>1, <2>3, StandsAtRect
<1>4. ASSUME cpc \in InRect
      PROVE  /\ rect \in 1 .. Len(Cur.rects) /\ R = Cur.rects[rect] /\ R \in Rectangle
             /\ R.h \in Nat /\ Before(rect) \in Nat
             /\ Before(rect + 1) = Before(rect) + 1 + Payload(R)
             /\ rect + 1 \in 1 .. Len(Cur.rects) + 1
  <2>1. rect \in 1 .. Len(Cur.rects)
    BY <1>0, <1>4, CurType DEF ClientInv, Places, Reading
  <2> QED BY <1>1, <1>4, <2>1, RectType DEF R
<1>5. ASSUME cpc \in InRect, Consumed = base + Before(rect + 1),
             NEW asks \in Nat, ToRect(rect + 1, asks)
      PROVE  Standing'
  BY <1>0, <1>4, <1>5, StandsAtRect
<1>6. CASE cpc = "rect"
  <2>1. cpc \in InRect /\ Stands(Before(rect), 1)
    BY <1>6 DEF Standing, InRect
  <2>2. Consumed = base + Before(rect) + 1
    BY <1>0, <1>2, <1>4, <2>1, ReturnedStands
  <2>3. ASSUME R.enc \in {"last", "pos", "size"}
        PROVE  Consumed = base + Before(rect + 1)
    <3>1. Payload(R) = 0
      BY <2>3 DEF Payload
    <3> QED BY <1>0, <1>4, <2>1, <2>2, <3>1
  <2>4. CASE R.enc = "last" /\ EndUpdate(0)
    <3>1. rect = Len(Cur.rects)
      BY <1>1, <1>4, <2>1, <2>4 DEF Message, LastIsLast
    <3> QED BY <1>0, <1>2, <2>3, <2>4, <3>1, StandsAfterUpdate
  <2>5. CASE R.enc \in {"pos", "size"} /\ \E n \in {0, 1} : ToRect(rect + 1, n)
    BY <1>5, <2>1, <2>3, <2>5
  <2>6. CASE NoMemory(R.h)
    BY <2>6, StandsNowhere DEF NoMemory, GiveUp
  <2>7. CASE GotPseudoRect
    BY <2>4, <2>5, <2>6, <2>7 DEF GotPseudoRect
  <2>8. CASE GotPixelRect
    <3>1. /\ base' = base /\ rect' = rect /\ Cur' = Cur /\ R' = R
          /\ Before(rect)' = Before(rect)
      BY <2>8 DEF GotPixelRect, SameMessage, Cur, R, Before
    <3>2. CASE GiveUp
      BY <3>2, StandsNowhere DEF GiveUp
    <3>3. CASE R.enc = "raw" /\ lines' = R.h /\ GoOn("raw", Least(LinesPerRead, R.h))
      <4>1. Least(LinesPerRead, R.h) \in Nat
        BY <1>4, <2>1, ClientAssumption DEF Least
      <4>2. cpc' = "raw" /\ First' = Consumed /\ want' = Least(LinesPerRead, R.h)
        BY <3>3, <4>1, ReadStands DEF GoOn
      <4>3. /\ R'.enc = "raw" /\ lines' \in 0 .. R'.h /\ R'.h - lines' = 0
            /\ Least(LinesPerRead, lines)' = Least(LinesPerRead, R.h)
        BY <1>4, <2>1, <3>1, <3>3 DEF Least
      <4>4. Stands(Before(rect) + 1 + (R.h - lines), Least(LinesPerRead, lines))'
        <5>1. Before(rect) \in Nat
          BY <1>4, <2>1
        <5>2. (Before(rect) + 1 + (R.h - lines))' = Before(rect) + 1
          BY <3>1, <4>3, <5>1
        <5>3. First' = base' + (Before(rect) + 1)
          BY <1>0, <2>2, <3>1, <4>2, <5>1
        <5> QED BY <4>2, <4>3, <5>2, <5>3 DEF Stands
      <4> QED BY <4>2, <4>3, <4>4, HelloKinds DEF Standing
    <3>4. CASE R.enc \in {"copy", "cursor"} /\ GoOn(R.enc, 1)
      <4>1. cpc' = R.enc /\ First' = Consumed /\ want' = 1
        BY <1>2, <3>4, ReadStands DEF GoOn
      <4>2. Stands(Before(rect) + 1, 1)'
        BY <1>0, <1>4, <2>1, <2>2, <3>1, <4>1 DEF Stands
      <4> QED BY <3>1, <3>4, <4>1, <4>2, HelloKinds DEF Standing
    <3> QED BY <2>8, <3>2, <3>3, <3>4 DEF GotPixelRect
  <2> QED BY <1>6, <2>7, <2>8, <1>0 DEF GotRects, GotPseudoRect, GotPixelRect, GotLines, GotPayload, At
<1>7. CASE GotLines
  <2> DEFINE n == Least(LinesPerRead, lines)
             p == Before(rect) + 1 + (R.h - lines)
  <2>1. /\ cpc = "raw" /\ cpc \in InRect /\ R.enc = "raw" /\ lines \in 0 .. R.h
        /\ Stands(p, n)
    BY <1>7 DEF GotLines, At, Standing, InRect
  <2>2. n \in Nat /\ n <= lines /\ p \in Nat
    BY <1>4, <2>1, ClientAssumption DEF Least
  <2>3. Consumed = base + p + n /\ Len(out) = n
    <3> HIDE DEF p, n
    <3> QED BY <1>0, <2>1, <2>2, ReturnedStands
  <2>4. lines' = lines - n /\ lines' \in 0 .. R.h
    <3>1. lines' = lines - Len(out)
      BY <1>7 DEF GotLines
    <3>2. R.h \in Nat
      BY <1>4, <2>1
    <3> HIDE DEF p, n
    <3> QED BY <2>1, <2>2, <2>3, <3>1, <3>2
  <2>5. Consumed = base + Before(rect) + 1 + (R.h - lines')
    <3>1. p + n = Before(rect) + 1 + (R.h - lines')
      <4> HIDE DEF n
      <4> QED BY <1>4, <2>1, <2>2, <2>4
    <3>2. /\ p \in Nat /\ n \in Nat /\ base \in Nat /\ Before(rect) \in Nat /\ R.h \in Nat
          /\ lines' \in Nat
      BY <1>0, <1>4, <2>1, <2>2, <2>4
    <3>3. base + p + n = base + (p + n)
      <4> HIDE DEF p, n
      <4> QED BY <3>2
    <3>4. base + (Before(rect) + 1 + (R.h - lines')) = base + Before(rect) + 1 + (R.h - lines')
      BY <3>2
    <3> HIDE DEF p, n
    <3> QED BY <2>3, <3>1, <3>3, <3>4
  <2> HIDE DEF p, n
  <2>6. CASE GoOn("raw", Least(LinesPerRead, lines')) /\ SameMessage /\ UNCHANGED <<rect, asked>>
    <3>1. /\ base' = base /\ rect' = rect /\ Cur' = Cur /\ R' = R
          /\ Before(rect)' = Before(rect)
      BY <2>6 DEF SameMessage, Cur, R, Before
    <3>2. Least(LinesPerRead, lines') \in Nat
      BY <1>4, <2>1, <2>4, ClientAssumption DEF Least
    <3>3. cpc' = "raw" /\ First' = Consumed /\ want' = Least(LinesPerRead, lines')
      BY <2>6, <3>2, ReadStands DEF GoOn
    <3>4. Least(LinesPerRead, lines)' = Least(LinesPerRead, lines')
      BY DEF Least
    <3>5. Stands(Before(rect) + 1 + (R.h - lines), Least(LinesPerRead, lines))'
      <4>1. Before(rect) \in Nat /\ R.h \in Nat /\ lines' \in Nat /\ lines' <= R.h
        BY <1>4, <2>1, <2>4
      <4>2. (Before(rect) + 1 + (R.h - lines))' = Before(rect) + 1 + (R.h - lines')
        BY <3>1
      <4>3. First' = base' + (Before(rect) + 1 + (R.h - lines'))
        BY <1>0, <2>5, <3>1, <3>3, <4>1
      <4> QED BY <3>3, <3>4, <4>2, <4>3 DEF Stands
    <3> QED BY <2>1, <2>4, <3>1, <3>3, <3>5, HelloKinds DEF Standing
  <2>7. CASE lines' = 0 /\ ToRect(rect + 1, 0)
    <3>1. Payload(R) = R.h
      BY <2>1 DEF Payload
    <3>2. Consumed = base + Before(rect + 1)
      <4>1. /\ Before(rect) \in Nat /\ R.h \in Nat
            /\ Before(rect + 1) = Before(rect) + 1 + Payload(R)
        BY <1>4, <2>1
      <4> QED BY <1>0, <2>5, <2>7, <3>1, <4>1
    <3> QED BY <1>2, <1>5, <2>1, <2>7, <3>2
  <2> QED BY <1>7, <2>6, <2>7 DEF GotLines
<1>8. CASE GotPayload
  <2>1. /\ cpc \in InRect /\ R.enc \in {"copy", "cursor"} /\ Stands(Before(rect) + 1, 1)
        /\ ToRect(rect + 1, 0)
    BY <1>8 DEF GotPayload, At, Standing, InRect
  <2>2. Before(rect) + 1 \in Nat /\ Payload(R) = 1
    BY <1>4, <2>1 DEF Payload
  <2>3. Consumed = base + (Before(rect) + 1) + 1
    BY <1>0, <1>2, <2>1, <2>2, ReturnedStands
  <2>4. Consumed = base + Before(rect + 1)
    BY <1>0, <1>4, <2>1, <2>2, <2>3
  <2> QED BY <1>2, <1>5, <2>1, <2>4
<1> QED BY <1>3, <1>6, <1>7, <1>8 DEF GotPseudoRect, GotPixelRect, At
--------------------------------------------------------------------------------
(* The dialogue before the first update, as it is once k messages on the   *)
(* wire have been read: what is behind them, and what the server is at.    *)
NothingAfter(k) == Len(wire) = k
Comes(k, w) == k < Len(wire) /\ wire[k + 1].kind = w

Explains(k) ==
    srv = "done" /\ NothingAfter(k + 2) /\ Comes(k, "length") /\ Comes(k + 1, "text")

Judged(k) ==
    /\ Comes(k, "result") /\ heard = <<>>
    /\ \/ wire[k + 1].word = "ok" /\ NothingAfter(k + 1) /\ srv = "clientinit"
       \/ wire[k + 1].word = "failed" /\ minor > 7 /\ Explains(k + 1)
       \/ wire[k + 1].word = "failed" /\ minor <= 7 /\ srv = "done"
       \/ wire[k + 1].word = "toomany" /\ srv = "done"

AwaitsResult(k) ==
    \/ /\ NothingAfter(k) /\ choice = "none" /\ minor > 7
       /\ srv = "type" /\ heard = <<"type">>
    \/ NothingAfter(k) /\ srv = "response" /\ heard = <<"response">>
    \/ Judged(k)

AwaitsChallenge(k) ==
    \/ NothingAfter(k) /\ choice = "vnc" /\ srv = "type" /\ heard = <<"type">>
    \/ /\ Comes(k, "challenge") /\ NothingAfter(k + 1)
       /\ srv = "response" /\ heard = <<>>

(* The server will go on to the client's initialisation.                   *)
AwaitsClient(k) ==
    /\ NothingAfter(k)
    /\ \/ srv = "type" /\ heard = <<"type">>
       \/ srv = "clientinit" /\ heard = <<>>

AtVersion ==
    /\ heard = <<>> /\ choice = NoType
    /\ \/ srv = "greet" /\ NothingAfter(0)
       \/ srv = "version" /\ Comes(0, "version") /\ NothingAfter(1)

AtCount ==
    /\ minor > 6 /\ choice = NoType
    /\ \/ srv = "version" /\ heard = <<"version">> /\ NothingAfter(0)
       \/ /\ srv = "type" /\ heard = <<>> /\ Comes(0, "count")
          /\ wire[1].n = Len(wire) - 1 /\ wire[1].n > 0
          /\ \A i \in 2 .. Len(wire) : wire[i].kind = "sectype"
       \/ Comes(0, "count") /\ wire[1].n = 0 /\ Explains(1)

AtScheme ==
    /\ minor <= 6
    /\ \/ srv = "version" /\ heard = <<"version">> /\ NothingAfter(0)
       \/ /\ Comes(0, "scheme")
          /\ \/ wire[1].word = "failed" /\ Explains(1)
             \/ /\ wire[1].word = "none" /\ NothingAfter(1)
                /\ srv = "clientinit" /\ heard = <<>>
             \/ /\ wire[1].word = "vnc" /\ Comes(1, "challenge") /\ NothingAfter(2)
                /\ srv = "response" /\ heard = <<>>

Chosen(k) ==
    \/ choice = NoType /\ NothingAfter(k) /\ srv = "type" /\ heard = <<>>
    \/ choice = "vnc" /\ AwaitsChallenge(k)
    \/ choice = "none" /\ minor > 7 /\ AwaitsResult(k)
    \/ choice = "none" /\ minor <= 7 /\ AwaitsClient(k)

AtSectype ==
    /\ left > 0 /\ left <= Len(wire)
    /\ \A i \in 1 .. left : wire[i].kind = "sectype"
    /\ Chosen(left)

AtInit ==
    \/ srv = "clientinit" /\ heard = <<"clientinit">> /\ NothingAfter(0)
    \/ /\ srv = "type" /\ heard = <<"type", "clientinit">> /\ NothingAfter(0)
       /\ choice = "none" /\ minor <= 7
    \/ srv = "serve" /\ Comes(0, "init") /\ Comes(1, "name")

Dialogue ==
    /\ cpc \in {"start", "version"} => AtVersion
    /\ cpc = "count" => AtCount
    /\ cpc = "scheme" => AtScheme
    /\ cpc = "sectype" => AtSectype
    /\ cpc = "challenge" => AwaitsChallenge(0)
    /\ cpc = "result" => AwaitsResult(0)
    /\ cpc = "init" => AtInit
    /\ cpc = "name" => srv = "serve" /\ Comes(0, "name")
    /\ cpc = "length" => Explains(0)
    /\ cpc = "text" => srv = "done" /\ Comes(0, "text")

SyncInv == Counts /\ Standing /\ Dialogue
--------------------------------------------------------------------------------
(* In the handshake the next message, where there is one, is the one the   *)
(* client reads.                                                           *)
LEMMA HelloIsNext ==
    ASSUME Types, Counts, Dialogue, cpc \in Hello, wire # <<>>
    PROVE  Cur = wire[1] /\ Cur.kind = cpc /\ SizeOf(Cur) = 1
<1>1. Cur = wire[1] /\ Cur \in Message /\ Len(wire) \in Nat \ {0}
  BY CurType DEF Types
<1>2. \A k : Comes(0, k) => wire[1].kind = k
  BY DEF Comes
<1>3. ~NothingAfter(0)
  BY <1>1 DEF NothingAfter
<1>4. wire[1].kind = cpc
  <2>1. CASE cpc = "version"
    BY <1>2, <1>3, <2>1 DEF Dialogue, AtVersion
  <2>2. CASE cpc = "count"
    BY <1>2, <1>3, <2>2 DEF Dialogue, AtCount
  <2>3. CASE cpc = "scheme"
    BY <1>2, <1>3, <2>3 DEF Dialogue, AtScheme
  <2>4. CASE cpc = "sectype"
    <3>1. 1 \in 1 .. left
      BY <2>4 DEF Dialogue, AtSectype, Counts
    <3> QED BY <2>4, <3>1 DEF Dialogue, AtSectype
  <2>5. CASE cpc = "challenge"
    BY <1>2, <1>3, <2>5 DEF Dialogue, AwaitsChallenge
  <2>6. CASE cpc = "result"
    BY <1>2, <1>3, <2>6 DEF Dialogue, AwaitsResult, Judged
  <2>7. CASE cpc = "init"
    BY <1>2, <1>3, <2>7 DEF Dialogue, AtInit
  <2>8. CASE cpc = "name"
    BY <1>2, <2>8 DEF Dialogue
  <2>9. CASE cpc = "length"
    BY <1>2, <2>9 DEF Dialogue, Explains
  <2>10. CASE cpc = "text"
    BY <1>2, <2>10 DEF Dialogue
  <2> QED BY <2>1, <2>2, <2>3, <2>4, <2>5, <2>6, <2>7, <2>8, <2>9, <2>10 DEF Hello
<1>5. SizeOf(Cur) = 1
  BY <1>1, <1>4, SizeIs, HelloKinds
<1> QED BY <1>1, <1>4, <1>5

(* And once a read has returned there is one.                              *)
LEMMA HelloArrived ==
    ASSUME ReaderInv, Types, SyncInv, cpc \in Hello, Returned
    PROVE  /\ wire # <<>> /\ Cur = wire[1] /\ Cur.kind = cpc /\ SizeOf(Cur) = 1
           /\ Consumed = base + 1 /\ out[1] = base
<1>1. base \in Nat /\ arrived \in Nat /\ arrived <= Sent /\ Stands(0, 1)
  BY DEF SyncInv, Counts, Standing, ReaderInv, ReaderTypeOK
<1>2. Consumed = base + 1 /\ out[1] = base /\ Consumed <= arrived
  BY <1>1, ReturnedStands
<1>3. wire # <<>>
  <2>1. Sent \in Nat /\ (wire = <<>> => Sent = base)
    BY <1>1, SentGrows DEF Types
  <2> QED BY <1>1, <1>2, <2>1
<1> QED BY <1>2, <1>3, HelloIsNext DEF SyncInv
--------------------------------------------------------------------------------
(* A message that has been read goes, and the rest is nearer by one.       *)
LEMMA Nearer ==
    ASSUME Types, wire # <<>>, Done
    PROVE  /\ Len(wire') = Len(wire) - 1 /\ Len(wire') \in Nat
           /\ \A i \in 1 .. Len(wire') : wire'[i] = wire[i + 1]
           /\ \A k \in Nat \ {0} :
                  /\ NothingAfter(k) => NothingAfter(k - 1)'
                  /\ \A w : Comes(k, w) => Comes(k - 1, w)'
<1>1. /\ Len(wire') = Len(wire) - 1 /\ Len(wire') \in Nat
      /\ \A i \in 1 .. Len(wire') : wire'[i] = wire[i + 1]
  <2>1. wire' = Tail(wire)
    BY TailIs DEF Done, Types
  <2> QED BY <2>1 DEF Types
<1>2. Len(wire) \in Nat
  BY DEF Types
<1>3. ASSUME NEW k \in Nat \ {0}
      PROVE  NothingAfter(k) => NothingAfter(k - 1)'
  BY <1>1, <1>2 DEF NothingAfter
<1>4. ASSUME NEW k \in Nat \ {0}, NEW w, Comes(k, w)
      PROVE  Comes(k - 1, w)'
  <2>1. k - 1 < Len(wire') /\ (k - 1) + 1 = k /\ k \in 1 .. Len(wire')
    BY <1>1, <1>2, <1>4 DEF Comes
  <2>2. wire'[k] = wire[k + 1]
    BY <1>1, <2>1
  <2> QED BY <1>4, <2>1, <2>2 DEF Comes
<1> QED BY <1>1, <1>3, <1>4

(* More messages at the end take nothing away.                             *)
LEMMA Behind ==
    ASSUME Types, NEW ms \in Seq(Message), Send(ms)
    PROVE  /\ Len(wire') = Len(wire) + Len(ms) /\ Len(wire) \in Nat /\ Len(wire') \in Nat
           /\ \A i \in 1 .. Len(wire) : wire'[i] = wire[i]
           /\ \A i \in 1 .. Len(ms) : wire'[Len(wire) + i] = ms[i]
           /\ \A k \in Nat : \A w : Comes(k, w) => Comes(k, w)'
<1>1. /\ Len(wire') = Len(wire) + Len(ms) /\ Len(wire) \in Nat /\ Len(wire') \in Nat
      /\ \A i \in 1 .. Len(wire) : wire'[i] = wire[i]
      /\ \A i \in 1 .. Len(ms) : wire'[Len(wire) + i] = ms[i]
  BY DEF Types, Send
<1>2. ASSUME NEW k \in Nat, NEW w, Comes(k, w)
      PROVE  Comes(k, w)'
  <2>1. k + 1 \in 1 .. Len(wire) /\ k < Len(wire')
    BY <1>1, <1>2 DEF Comes
  <2>2. wire'[k + 1] = wire[k + 1]
    BY <1>1, <2>1
  <2> QED BY <1>2, <2>1, <2>2 DEF Comes
<1> QED BY <1>1, <1>2
--------------------------------------------------------------------------------
(* What the server sends in the handshake.                                 *)
LEMMA MsgIs ==
    ASSUME NEW k \in Hello, NEW w \in Words, NEW n \in Nat
    PROVE  /\ Msg(k, w, n) \in Message
           /\ Msg(k, w, n).kind = k /\ Msg(k, w, n).word = w /\ Msg(k, w, n).n = n
<1>1. k \in Kinds
  BY DEF Kinds
<1>2. Msg(k, w, n) \in Message
  BY <1>1, MsgType
<1> QED BY <1>2 DEF Msg

LEMMA FieldIs ==
    ASSUME NEW k \in Hello
    PROVE  Field(k) \in Message /\ Field(k).kind = k
<1>1. k \in Kinds
  BY DEF Kinds
<1> QED BY <1>1, FieldType DEF Field, Msg

LEMMA OneBehind ==
    ASSUME Types, NEW m \in Message, Send(<<m>>), NEW k \in Nat, NothingAfter(k)
    PROVE  NothingAfter(k + 1)' /\ wire'[k + 1] = m /\ Comes(k, m.kind)'
<1> DEFINE s == <<m>>
<1>1. s \in Seq(Message) /\ Len(s) = 1 /\ s[1] = m /\ Send(s)
  OBVIOUS
<1> HIDE DEF s
<1>2. Len(wire') = k + 1 /\ wire'[k + 1] = m
  <2>1. Len(wire') = k + 1 /\ \A i \in 1 .. 1 : wire'[k + i] = s[i]
    BY <1>1, Behind DEF NothingAfter
  <2> QED BY <1>1, <2>1
<1> QED BY <1>2 DEF NothingAfter, Comes

LEMMA TwoBehind ==
    ASSUME Types, NEW m \in Message, NEW m2 \in Message, Send(<<m, m2>>),
           NEW k \in Nat, NothingAfter(k)
    PROVE  /\ NothingAfter(k + 2)'
           /\ wire'[k + 1] = m /\ Comes(k, m.kind)'
           /\ Comes(k + 1, m2.kind)'
<1> DEFINE s == <<m, m2>>
<1>1. s \in Seq(Message) /\ Len(s) = 2 /\ s[1] = m /\ s[2] = m2 /\ Send(s)
  OBVIOUS
<1> HIDE DEF s
<1>2. Len(wire') = k + 2 /\ wire'[k + 1] = m /\ wire'[k + 2] = m2
  <2>1. Len(wire') = k + 2 /\ \A i \in 1 .. 2 : wire'[k + i] = s[i]
    BY <1>1, Behind DEF NothingAfter
  <2> QED BY <1>1, <2>1
<1>3. wire'[(k + 1) + 1] = m2
  BY <1>2
<1> QED BY <1>2, <1>3 DEF NothingAfter, Comes

LEMMA Glue ==
    ASSUME NEW t \in Seq(Message), NEW r \in Seq(Message), Len(t) = 1, Len(r) = 2
    PROVE  /\ t \o r \in Seq(Message) /\ Len(t \o r) = 3
           /\ (t \o r)[1] = t[1] /\ (t \o r)[2] = r[1] /\ (t \o r)[3] = r[2]
<1>1. /\ t \o r \in Seq(Message) /\ Len(t \o r) = Len(t) + Len(r)
      /\ \A i \in 1 .. Len(t) + Len(r) :
             (t \o r)[i] = IF i <= Len(t) THEN t[i] ELSE r[i - Len(t)]
  BY ConcatProperties, Zenon
<1>2. /\ 1 \in 1 .. 1 + 2 /\ 2 \in 1 .. 1 + 2 /\ 3 \in 1 .. 1 + 2 /\ 1 + 2 = 3
      /\ 1 <= 1 /\ ~(2 <= 1) /\ ~(3 <= 1) /\ 2 - 1 = 1 /\ 3 - 1 = 2
  OBVIOUS
<1>3. \A i \in 1 .. 1 + 2 : (t \o r)[i] = IF i <= 1 THEN t[i] ELSE r[i - 1]
  BY <1>1, Zenon
<1>4. (t \o r)[1] = t[1]
  BY <1>2, <1>3, Zenon
<1>5. (t \o r)[2] = r[1]
  <2>1. (t \o r)[2] = IF 2 <= 1 THEN t[2] ELSE r[2 - 1]
    BY <1>2, <1>3, Zenon
  <2> QED BY <2>1
<1>6. (t \o r)[3] = r[2]
  <2>1. (t \o r)[3] = IF 3 <= 1 THEN t[3] ELSE r[3 - 1]
    BY <1>2, <1>3, Zenon
  <2> QED BY <2>1
<1>7. Len(t \o r) = 3
  BY <1>1, <1>2, Zenon
<1> QED BY <1>1, <1>4, <1>5, <1>6, <1>7

LEMMA ReasonBehind ==
    ASSUME Types, NEW m \in Message, Send(<<m>> \o Reason), srv' = "done",
           NEW k \in Nat, NothingAfter(k)
    PROVE  wire'[k + 1] = m /\ Comes(k, m.kind)' /\ Explains(k + 1)'
<1>1. /\ Field("length") \in Message /\ Field("text") \in Message
      /\ Field("length").kind = "length" /\ Field("text").kind = "text"
  BY FieldIs DEF Hello
<1> DEFINE s == <<m>> \o Reason
<1>2. /\ Reason \in Seq(Message) /\ Len(Reason) = 2
      /\ Reason[1] = Field("length") /\ Reason[2] = Field("text")
  BY <1>1 DEF Reason
<1>3. /\ s \in Seq(Message) /\ Len(s) = 3
      /\ s[1] = m /\ s[2] = Field("length") /\ s[3] = Field("text")
  <2> DEFINE t == <<m>>
             r == Reason
  <2>1. t \in Seq(Message) /\ Len(t) = 1 /\ t[1] = m
    OBVIOUS
  <2>2. /\ r \in Seq(Message) /\ Len(r) = 2
        /\ r[1] = Field("length") /\ r[2] = Field("text") /\ s = t \o r
    BY <1>2
  <2> HIDE DEF t, r, s
  <2> QED BY <2>1, <2>2, Glue
<1> HIDE DEF s
<1>4. /\ Len(wire') = k + 3 /\ wire'[k + 1] = m
      /\ wire'[k + 2] = Field("length") /\ wire'[k + 3] = Field("text")
  <2>1. /\ Len(wire') = k + 3
        /\ \A i \in 1 .. 3 : wire'[k + i] = s[i]
    BY <1>3, Behind DEF NothingAfter, s
  <2> QED BY <1>3, <2>1
<1>5. Comes(k, m.kind)' /\ Comes(k + 1, "length")' /\ Comes((k + 1) + 1, "text")'
  <2>1. (k + 1) + 1 = k + 2 /\ ((k + 1) + 1) + 1 = k + 3
    OBVIOUS
  <2> QED BY <1>1, <1>4, <2>1 DEF Comes
<1>6. NothingAfter((k + 1) + 2)'
  BY <1>4 DEF NothingAfter
<1> QED BY <1>4, <1>5, <1>6 DEF Explains

LEMMA ResultSent ==
    ASSUME Types, Result, minor \in Nat, minor' = minor, heard' = <<>>,
           NEW k \in Nat, NothingAfter(k)
    PROVE  Judged(k)'
<1>1. \A w \in {"ok", "failed", "toomany"} :
          Msg("result", w, 0) \in Message /\ Msg("result", w, 0).kind = "result"
          /\ Msg("result", w, 0).word = w
  <2>1. "result" \in Hello /\ {"ok", "failed", "toomany"} \subseteq Words /\ 0 \in Nat
    BY DEF Hello, Words
  <2> QED BY <2>1, MsgIs
<1>2. CASE Send(<<Msg("result", "ok", 0)>>) /\ srv' = "clientinit"
  BY <1>1, <1>2, OneBehind DEF Judged
<1>3. CASE /\ Send(<<Msg("result", "failed", 0)>> \o IF minor > 7 THEN Reason ELSE <<>>)
           /\ srv' = "done"
  <2>1. CASE minor > 7
    BY <1>1, <1>3, <2>1, ReasonBehind DEF Judged
  <2>2. CASE ~(minor > 7)
    <3>1. Send(<<Msg("result", "failed", 0)>>)
      BY <1>1, <1>3, <2>2 DEF Send
    <3> QED BY <1>1, <1>3, <2>2, <3>1, OneBehind DEF Judged
  <2> QED BY <2>1, <2>2
<1>4. CASE Send(<<Msg("result", "toomany", 0)>>) /\ srv' = "done"
  BY <1>1, <1>4, OneBehind DEF Judged
<1> QED BY <1>2, <1>3, <1>4 DEF Result

(* What the server is waited for it sends, or it stays what it is.         *)
HelloKept == UNCHANGED <<choice, minor, left, cpc>>

LEMMA HelloSteps ==
    ASSUME ServerHello
    PROVE  /\ HelloKept
           /\ Greet \/ OfferTypes \/ ImposeType \/ TypeChosen \/ Checked \/ Welcome
BY DEF ServerHello, HelloKept, clivars, hellovars

(* When it does what.                                                      *)
LEMMA HelloGuards ==
    /\ Greet => srv = "greet" /\ srv' = "version" /\ heard' = heard
    /\ OfferTypes => srv = "version" /\ minor > 6
    /\ ImposeType => srv = "version" /\ minor <= 6
    /\ TypeChosen => srv = "type"
    /\ Checked => srv = "response" /\ Result
    /\ Welcome => srv = "clientinit" /\ srv' = "serve"
    /\ OfferTypes \/ ImposeType \/ TypeChosen \/ Checked \/ Welcome =>
           heard # <<>> /\ heard' = Tail(heard)
BY DEF Greet, OfferTypes, ImposeType, TypeChosen, Checked, Welcome, Hears

LEMMA ChallengeSent ==
    ASSUME Types, minor \in Nat, ServerHello, NEW k \in Nat, AwaitsChallenge(k)
    PROVE  AwaitsChallenge(k)'
<1>1. /\ srv \in {"type", "response"} /\ (srv = "response" => heard = <<>>)
      /\ (srv = "type" => choice # "none" /\ NothingAfter(k) /\ heard = <<"type">>)
  BY DEF AwaitsChallenge
<1>2. CASE TypeChosen
  <2>1. Send(<<Field("challenge")>>) /\ srv' = "response" /\ heard' = Tail(heard)
        /\ srv = "type"
    BY <1>1, <1>2 DEF TypeChosen, Hears
  <2>2. Field("challenge") \in Message /\ Field("challenge").kind = "challenge"
    BY FieldIs DEF Hello
  <2>3. heard' = <<>>
    BY <1>1, <2>1
  <2> QED BY <1>1, <2>1, <2>2, <2>3, OneBehind DEF AwaitsChallenge
<1>3. CASE Checked
  BY <1>1, <1>3 DEF Checked, Hears
<1> QED BY <1>1, <1>2, <1>3, HelloSteps DEF Greet, OfferTypes, ImposeType, Welcome

LEMMA ResultComes ==
    ASSUME Types, minor \in Nat, ServerHello, NEW k \in Nat, AwaitsResult(k)
    PROVE  AwaitsResult(k)'
<1>1. CASE /\ NothingAfter(k) /\ choice = "none" /\ minor > 7
           /\ srv = "type" /\ heard = <<"type">>
  <2>1. Result /\ heard' = Tail(heard)
    BY <1>1, HelloSteps
       DEF TypeChosen, Hears, Greet, OfferTypes, ImposeType, Checked, Welcome
  <2>2. heard' = <<>> /\ minor' = minor
    BY <1>1, <2>1, HelloSteps DEF HelloKept
  <2> QED BY <1>1, <2>1, <2>2, ResultSent DEF AwaitsResult
<1>2. CASE NothingAfter(k) /\ srv = "response" /\ heard = <<"response">>
  <2>1. Result /\ heard' = Tail(heard)
    BY <1>2, HelloSteps
       DEF TypeChosen, Hears, Greet, OfferTypes, ImposeType, Checked, Welcome
  <2>2. heard' = <<>> /\ minor' = minor
    BY <1>2, <2>1, HelloSteps DEF HelloKept
  <2> QED BY <1>2, <2>1, <2>2, ResultSent DEF AwaitsResult
<1>3. CASE Judged(k)
  <2>1. srv = "done" \/ (srv = "clientinit" /\ heard = <<>>)
    BY <1>3 DEF Judged, Explains
  <2> QED BY <2>1, HelloSteps
          DEF TypeChosen, Hears, Greet, OfferTypes, ImposeType, Checked, Welcome
<1> QED BY <1>1, <1>2, <1>3 DEF AwaitsResult

LEMMA ClientLetIn ==
    ASSUME Types, minor <= 7, minor \in Nat, choice = "none", ServerHello,
           NEW k \in Nat, AwaitsClient(k)
    PROVE  AwaitsClient(k)'
<1>1. srv = "type" /\ heard = <<"type">>
  BY HelloSteps
     DEF AwaitsClient, TypeChosen, Hears, Greet, OfferTypes, ImposeType, Checked, Welcome
<1>2. Send(<<>>) /\ srv' = "clientinit" /\ heard' = Tail(heard)
  BY <1>1, HelloSteps
     DEF TypeChosen, Hears, Greet, OfferTypes, ImposeType, Checked, Welcome
<1>3. wire' = wire /\ heard' = <<>>
  BY <1>1, <1>2 DEF Send, Types
<1> QED BY <1>2, <1>3 DEF AwaitsClient, NothingAfter

LEMMA VersionSent ==
    ASSUME Types, ServerHello, AtVersion
    PROVE  AtVersion'
<1>1. srv = "greet" /\ NothingAfter(0)
  <2>1. Greet
    BY HelloSteps, HelloGuards DEF AtVersion
  <2> QED BY <2>1, HelloGuards DEF AtVersion
<1>2. heard' = heard /\ srv' = "version" /\ choice' = choice
      /\ \E v \in Minors : Send(<<Msg("version", "", v)>>)
  BY <1>1, HelloSteps, HelloGuards DEF Greet, HelloKept
<1>3. PICK v \in Minors : Send(<<Msg("version", "", v)>>)
  BY <1>2
<1>4. /\ Msg("version", "", v) \in Message
      /\ Msg("version", "", v).kind = "version"
  <2>1. "version" \in Hello /\ "" \in Words /\ v \in Nat
    BY ClientAssumption DEF Hello, Words
  <2>2. Msg("version", "", v) \in Message
    BY <2>1, MsgIs
  <2> QED BY <2>2 DEF Msg
<1>5. NothingAfter(0 + 1)' /\ Comes(0, "version")'
  BY <1>1, <1>3, <1>4, OneBehind
<1>6. choice' = NoType /\ heard' = <<>>
  BY <1>2 DEF AtVersion, NoType
<1>7. NothingAfter(1)'
  <2>1. 0 + 1 = 1
    OBVIOUS
  <2> QED BY <1>5, <2>1 DEF NothingAfter
<1> QED BY <1>2, <1>5, <1>6, <1>7 DEF AtVersion

(* The list of the types, or an empty one and the reason.                  *)
LEMMA CountSent ==
    ASSUME Types, minor \in Nat, ServerHello, AtCount
    PROVE  AtCount'
<1>0. HelloKept
  BY HelloSteps
<1>1. srv = "version" /\ heard = <<"version">> /\ NothingAfter(0) /\ OfferTypes
  <2>1. srv = "version" \/ srv = "done" \/ (srv = "type" /\ heard = <<>>)
    BY DEF AtCount, Explains
  <2>2. OfferTypes
    BY <2>1, HelloSteps, HelloGuards DEF AtCount
  <2> QED BY <2>1, <2>2, HelloGuards DEF AtCount, Explains
<1>2. heard' = <<>>
  BY <1>1, HelloGuards
<1>3. PICK ts \in TypeLists :
          /\ Send(<<Msg("count", "", Len(ts))>>
                  \o [i \in 1 .. Len(ts) |-> Msg("sectype", ts[i], 0)]
                  \o IF ts = <<>> THEN Reason ELSE <<>>)
          /\ srv' = IF ts = <<>> THEN "done" ELSE "type"
  BY <1>1 DEF OfferTypes
<1>4. ts \in Seq(SecurityTypes) /\ Len(ts) \in Nat /\ (ts = <<>> <=> Len(ts) = 0)
  BY ClientAssumption
<1> DEFINE m == Msg("count", "", Len(ts))
           types == [i \in 1 .. Len(ts) |-> Msg("sectype", ts[i], 0)]
           n == Len(ts)
<1>5. m \in Message /\ m.kind = "count" /\ m.n = n
  <2>1. "count" \in Hello /\ "" \in Words
    BY DEF Hello, Words
  <2>2. Msg("count", "", Len(ts)) \in Message
    BY <1>4, <2>1, MsgIs
  <2> QED BY <2>2 DEF Msg
<1>6. /\ types \in Seq(Message) /\ Len(types) = n
      /\ \A i \in 1 .. n : types[i].kind = "sectype"
  <2>1. ASSUME NEW i \in 1 .. Len(ts)
        PROVE  /\ Msg("sectype", ts[i], 0) \in Message
               /\ Msg("sectype", ts[i], 0).kind = "sectype"
    <3>1. ts[i] \in SecurityTypes
      BY <1>4
    <3>2. ts[i] \in Words /\ "sectype" \in Hello
      BY <3>1 DEF Words, Hello
    <3> QED BY <3>2, MsgIs, FieldIs
  <2> QED BY <1>4, <2>1
<1> HIDE DEF m, types, n
<1>7. CASE ts = <<>>
  <2>1. n = 0 /\ types = <<>>
    BY <1>4, <1>6, <1>7 DEF n
  <2>2. Send(<<m>> \o Reason) /\ srv' = "done"
    <3>1. <<m>> \o types = <<m>>
      BY <1>5, <2>1
    <3> QED BY <1>3, <1>7, <3>1 DEF m, types
  <2>3. wire'[0 + 1] = m /\ Comes(0, "count")' /\ Explains(0 + 1)'
    BY <1>1, <1>5, <2>2, ReasonBehind
  <2> QED BY <1>0, <1>5, <2>1, <2>3 DEF AtCount, HelloKept
<1>8. CASE ts # <<>>
  <2>1. n \in Nat /\ n > 0
    BY <1>4, <1>8 DEF n
  <2> DEFINE s == <<m>> \o types
  <2>2. /\ s \in Seq(Message) /\ Len(s) = 1 + n /\ s[1] = m
        /\ \A i \in 2 .. 1 + n : s[i].kind = "sectype"
    <3>1. <<m>> \in Seq(Message) /\ Len(<<m>>) = 1 /\ <<m>>[1] = m
      BY <1>5
    <3>2. /\ s \in Seq(Message) /\ Len(s) = 1 + n
          /\ \A i \in 1 .. 1 + n : s[i] = IF i <= 1 THEN <<m>>[i] ELSE types[i - 1]
      <4> DEFINE h == <<m>>
      <4>1. h \in Seq(Message) /\ Len(h) = 1
        BY <3>1
      <4>2. /\ h \o types \in Seq(Message) /\ Len(h \o types) = Len(h) + Len(types)
            /\ \A i \in 1 .. Len(h) + Len(types) :
                   (h \o types)[i] = IF i <= Len(h) THEN h[i] ELSE types[i - Len(h)]
        <5> HIDE DEF h
        <5> QED BY <1>6, <4>1, ConcatProperties, Zenon
      <4>3. Len(h) = 1 /\ Len(types) = n
        BY <1>6, <4>1
      <4> HIDE DEF h
      <4>4. /\ h \o types \in Seq(Message) /\ Len(h \o types) = 1 + n
            /\ \A i \in 1 .. 1 + n :
                   (h \o types)[i] = IF i <= 1 THEN h[i] ELSE types[i - 1]
        BY <4>2, <4>3, Zenon
      <4> QED BY <4>4 DEF h
    <3> HIDE DEF s
    <3> QED BY <1>6, <2>1, <3>1, <3>2
  <2>3. Send(s) /\ srv' = "type"
    <3>1. s \o <<>> = s
      BY <2>2
    <3> HIDE DEF s
    <3>2. Send(s \o IF ts = <<>> THEN Reason ELSE <<>>)
      BY <1>3 DEF s, m, types
    <3> QED BY <1>3, <1>8, <3>1, <3>2
  <2> HIDE DEF s
  <2>4. Len(wire') = 1 + n /\ \A i \in 1 .. 1 + n : wire'[i] = s[i]
    <3>1. Len(wire') = 0 + Len(s) /\ \A i \in 1 .. Len(s) : wire'[0 + i] = s[i]
      BY <1>1, <2>2, <2>3, Behind DEF NothingAfter
    <3> QED BY <2>1, <2>2, <3>1
  <2>5. Comes(0, "count")' /\ wire'[1].n = Len(wire') - 1 /\ wire'[1].n > 0
    BY <1>5, <2>1, <2>2, <2>4 DEF Comes
  <2>6. \A i \in 2 .. Len(wire') : wire'[i].kind = "sectype"
    BY <2>1, <2>2, <2>4
  <2> QED BY <1>0, <1>1, <1>2, <2>3, <2>5, <2>6 DEF AtCount, HelloKept
<1> QED BY <1>7, <1>8

LEMMA SchemeSent ==
    ASSUME Types, minor \in Nat, ServerHello, AtScheme
    PROVE  AtScheme'
<1>0. HelloKept
  BY HelloSteps
<1>1. srv = "version" /\ heard = <<"version">> /\ NothingAfter(0) /\ ImposeType
  <2>1. \/ srv = "version" /\ heard = <<"version">> /\ NothingAfter(0)
        \/ srv = "done" \/ (srv \in {"clientinit", "response"} /\ heard = <<>>)
    BY DEF AtScheme, Explains
  <2>2. ImposeType
    BY <2>1, HelloSteps, HelloGuards DEF AtScheme
  <2> QED BY <2>1, <2>2, HelloGuards
<1>2. heard' = <<>>
  BY <1>1, HelloGuards
<1>3. ASSUME NEW w \in {"failed", "none", "vnc"}
      PROVE  /\ Msg("scheme", w, 0) \in Message
             /\ Msg("scheme", w, 0).kind = "scheme" /\ Msg("scheme", w, 0).word = w
  <2>1. "scheme" \in Hello /\ w \in Words /\ 0 \in Nat
    BY DEF Hello, Words, SecurityTypes
  <2> QED BY <2>1, MsgIs, FieldIs
<1>4. Field("challenge") \in Message /\ Field("challenge").kind = "challenge"
  BY FieldIs DEF Hello
<1>5. CASE Send(<<Msg("scheme", "failed", 0)>> \o Reason) /\ srv' = "done"
  BY <1>0, <1>1, <1>3, <1>5, ReasonBehind DEF AtScheme, HelloKept
<1>6. CASE Send(<<Msg("scheme", "none", 0)>>) /\ srv' = "clientinit"
  BY <1>0, <1>1, <1>2, <1>3, <1>6, OneBehind DEF AtScheme, HelloKept
<1>7. CASE Send(<<Msg("scheme", "vnc", 0), Field("challenge")>>) /\ srv' = "response"
  BY <1>0, <1>1, <1>2, <1>3, <1>4, <1>7, TwoBehind DEF AtScheme, HelloKept
<1> QED BY <1>1, <1>5, <1>6, <1>7 DEF ImposeType

LEMMA ChosenKept ==
    ASSUME Types, minor \in Nat, ServerHello, NEW k \in Nat, Chosen(k)
    PROVE  Chosen(k)'
<1>1. HelloKept
  BY HelloSteps
<1>2. CASE choice = NoType /\ srv = "type" /\ heard = <<>>
  BY <1>2, HelloSteps, HelloGuards
<1>3. CASE choice = "vnc" /\ AwaitsChallenge(k)
  BY <1>1, <1>3, ChallengeSent DEF Chosen, HelloKept
<1>4. CASE choice = "none" /\ minor > 7 /\ AwaitsResult(k)
  BY <1>1, <1>4, ResultComes DEF Chosen, HelloKept
<1>5. CASE choice = "none" /\ minor <= 7 /\ AwaitsClient(k)
  BY <1>1, <1>5, ClientLetIn DEF Chosen, HelloKept
<1> QED BY <1>2, <1>3, <1>4, <1>5 DEF Chosen

LEMMA InitSent ==
    ASSUME Types, minor \in Nat, ServerHello, AtInit
    PROVE  AtInit'
<1>1. HelloKept
  BY HelloSteps
<1>2. CASE srv = "clientinit" /\ heard = <<"clientinit">> /\ NothingAfter(0)
  <2>1. Send(<<Msg("init", "", screen), Field("name")>>) /\ srv' = "serve"
    BY <1>2, HelloSteps
       DEF TypeChosen, Hears, Greet, OfferTypes, ImposeType, Checked, Welcome
  <2>2. /\ Msg("init", "", screen) \in Message /\ Msg("init", "", screen).kind = "init"
        /\ Field("name") \in Message /\ Field("name").kind = "name"
    <3>1. "init" \in Hello /\ "name" \in Hello /\ "" \in Words /\ screen \in Nat
      BY DEF Hello, Words, Types
    <3>2. Msg("init", "", screen) \in Message
      BY <3>1, MsgIs
    <3>3. Field("name") \in Message /\ Field("name").kind = "name"
      BY <3>1, FieldIs
    <3> QED BY <3>2, <3>3 DEF Msg
  <2>3. Comes(0, "init")' /\ Comes(0 + 1, "name")'
    BY <1>2, <2>1, <2>2, TwoBehind
  <2>4. 0 + 1 = 1
    OBVIOUS
  <2>5. Comes(1, "name")'
    BY <2>3, <2>4 DEF Comes
  <2> QED BY <2>1, <2>3, <2>5 DEF AtInit
<1>3. CASE /\ srv = "type" /\ heard = <<"type", "clientinit">> /\ NothingAfter(0)
           /\ choice = "none" /\ minor <= 7
  <2>1. Send(<<>>) /\ srv' = "clientinit" /\ heard' = Tail(heard)
    BY <1>3, HelloSteps
       DEF TypeChosen, Hears, Greet, OfferTypes, ImposeType, Checked, Welcome
  <2>2. wire' = wire /\ heard' = <<"clientinit">>
    BY <1>3, <2>1 DEF Send, Types
  <2> QED BY <1>3, <2>1, <2>2 DEF AtInit, NothingAfter
<1>4. srv # "serve"
  BY HelloSteps DEF TypeChosen, Greet, OfferTypes, ImposeType, Checked, Welcome
<1> QED BY <1>2, <1>3, <1>4 DEF AtInit
--------------------------------------------------------------------------------
(* What the server does keeps the dialogue.                                *)
LEMMA HelloDialogue ==
    ASSUME Types, Counts, Dialogue, ServerHello
    PROVE  Dialogue'
<1>1. HelloKept /\ minor \in Nat /\ left \in Int
  BY HelloSteps DEF Counts
<1>2. PICK ms \in Seq(Message) : Send(ms)
  BY HelloSends
<1>3. /\ Len(wire') = Len(wire) + Len(ms) /\ Len(wire) \in Nat /\ Len(wire') \in Nat
      /\ \A i \in 1 .. Len(wire) : wire'[i] = wire[i]
  BY <1>2, Behind
<1>4. ASSUME AtSectype
      PROVE  AtSectype'
  <2>1. Chosen(left)
    BY <1>4 DEF AtSectype
  <2>2. ASSUME NEW k \in Nat, Chosen(k)
        PROVE  Chosen(k)'
    BY <1>1, <2>2, ChosenKept
  <2>3. left' = left /\ left \in Nat
    BY <1>1, <1>4 DEF HelloKept, AtSectype
  <2>4. Chosen(left)'
    <3>1. ASSUME NEW k \in Nat, k = left
          PROVE  Chosen(left)'
      <4>1. Chosen(k)' /\ left' = k
        BY <2>1, <2>2, <2>3, <3>1
      <4> QED BY <4>1
    <3> QED BY <2>3, <3>1
  <2>5. left' > 0 /\ left' <= Len(wire') /\ \A i \in 1 .. left' : wire'[i].kind = "sectype"
    BY <1>3, <1>4, <2>3 DEF AtSectype
  <2> QED BY <2>4, <2>5 DEF AtSectype
<1>5. ASSUME srv \in {"serve", "done"}
      PROVE  FALSE
  BY <1>5, HelloSteps, HelloGuards
<1>6. cpc' = cpc
  BY <1>1 DEF HelloKept
<1>7. cpc \in {"start", "version"} => AtVersion'
  BY VersionSent DEF Dialogue
<1>8. cpc = "count" => AtCount'
  BY <1>1, CountSent DEF Dialogue
<1>9. cpc = "scheme" => AtScheme'
  BY <1>1, SchemeSent DEF Dialogue
<1>10. cpc = "sectype" => AtSectype'
  BY <1>4 DEF Dialogue
<1>11. cpc = "challenge" => AwaitsChallenge(0)'
  BY <1>1, ChallengeSent DEF Dialogue
<1>12. cpc = "result" => AwaitsResult(0)'
  BY <1>1, ResultComes DEF Dialogue
<1>13. cpc = "init" => AtInit'
  BY <1>1, InitSent DEF Dialogue
<1>14. cpc \notin {"name", "length", "text"}
  BY <1>5 DEF Dialogue, Explains
<1> QED BY <1>6, <1>7, <1>8, <1>9, <1>10, <1>11, <1>12, <1>13, <1>14 DEF Dialogue

LEMMA ServeDialogue ==
    ASSUME Types, Dialogue, srv = "serve", NEW ms \in Seq(Message), Send(ms),
           UNCHANGED <<srv, cpc>>
    PROVE  Dialogue'
<1>1. /\ ~AtVersion /\ ~AtCount /\ ~AtScheme /\ ~Explains(0)
      /\ \A k : ~AwaitsChallenge(k) /\ ~AwaitsResult(k) /\ ~AwaitsClient(k)
  BY DEF AtVersion, AtCount, AtScheme, Explains, AwaitsChallenge, AwaitsResult,
         AwaitsClient, Judged
<1>2. ~AtSectype
  BY <1>1 DEF AtSectype, Chosen
<1>3. \A k \in Nat : \A w : Comes(k, w) => Comes(k, w)'
  BY Behind
<1>4. AtInit => AtInit'
  BY <1>3 DEF AtInit
<1>5. Comes(0, "name") => Comes(0, "name")'
  BY <1>3
<1>6. cpc \in {"init", "name"} \/ cpc \notin Hello \cup {"start"}
  BY <1>1, <1>2 DEF Dialogue, Hello
<1>7. /\ cpc = "init" => AtInit'
      /\ cpc = "name" => srv' = "serve" /\ Comes(0, "name")'
  BY <1>4, <1>5 DEF Dialogue
<1> QED BY <1>6, <1>7 DEF Dialogue, Hello
--------------------------------------------------------------------------------
(* What the client reads and says keeps it, too.                           *)
LEMMA ExplainsNearer ==
    ASSUME Types, wire # <<>>, Done, srv' = srv, NEW k \in Nat, Explains(k + 1)
    PROVE  Explains(k)'
<1>1. \A j \in Nat \ {0} :
          /\ NothingAfter(j) => NothingAfter(j - 1)'
          /\ \A w : Comes(j, w) => Comes(j - 1, w)'
  BY Nearer
<1>2. /\ k + 1 \in Nat \ {0} /\ (k + 1) - 1 = k
      /\ (k + 1) + 1 \in Nat \ {0} /\ ((k + 1) + 1) - 1 = k + 1
      /\ (k + 1) + 2 \in Nat \ {0} /\ ((k + 1) + 2) - 1 = k + 2
  OBVIOUS
<1>3. NothingAfter((k + 1) + 2) /\ Comes(k + 1, "length") /\ Comes((k + 1) + 1, "text")
      /\ srv = "done"
  BY DEF Explains
<1>4. NothingAfter(k + 2)' /\ Comes(k, "length")' /\ Comes(k + 1, "text")'
  <2>1. NothingAfter(((k + 1) + 2) - 1)' /\ Comes((k + 1) - 1, "length")'
        /\ Comes(((k + 1) + 1) - 1, "text")'
    BY <1>1, <1>2, <1>3
  <2> QED BY <1>2, <2>1 DEF NothingAfter, Comes
<1> QED BY <1>3, <1>4 DEF Explains

LEMMA JudgedNearer ==
    ASSUME Types, wire # <<>>, Done, UNCHANGED <<srv, minor, heard>>,
           NEW k \in Nat, Judged(k + 1)
    PROVE  Judged(k)'
<1>1. /\ Len(wire') = Len(wire) - 1 /\ Len(wire') \in Nat
      /\ \A i \in 1 .. Len(wire') : wire'[i] = wire[i + 1]
      /\ \A j \in Nat \ {0} :
             /\ NothingAfter(j) => NothingAfter(j - 1)'
             /\ \A w : Comes(j, w) => Comes(j - 1, w)'
  BY Nearer
<1>2. k + 1 \in Nat \ {0} /\ k + 2 \in Nat \ {0} /\ Len(wire) \in Nat
  BY DEF Types
<1>3. Comes(k, "result")' /\ wire'[k + 1] = wire[(k + 1) + 1]
  <2>1. Comes(k + 1, "result")
    BY DEF Judged
  <2>2. k + 1 \in 1 .. Len(wire')
    BY <1>1, <1>2, <2>1 DEF Comes
  <2>3. wire'[k + 1] = wire[(k + 1) + 1]
    BY <1>1, <2>2
  <2> QED BY <1>1, <1>2, <2>1, <2>2, <2>3 DEF Comes
<1>4. NothingAfter((k + 1) + 1) => NothingAfter(k + 1)'
  BY <1>1, <1>2 DEF NothingAfter
<1>5. Explains((k + 1) + 1) => Explains(k + 1)'
  BY <1>2, ExplainsNearer
<1> QED BY <1>3, <1>4, <1>5 DEF Judged

LEMMA ResultNearer ==
    ASSUME Types, wire # <<>>, Done, UNCHANGED <<srv, minor, heard, choice>>,
           NEW k \in Nat, AwaitsResult(k + 1)
    PROVE  AwaitsResult(k)'
<1>1. NothingAfter(k + 1) => NothingAfter(k)'
  BY Nearer DEF NothingAfter
<1>2. Judged(k + 1) => Judged(k)'
  BY JudgedNearer
<1> QED BY <1>1, <1>2 DEF AwaitsResult

LEMMA ChallengeNearer ==
    ASSUME Types, wire # <<>>, Done, UNCHANGED <<srv, heard>>,
           NEW k \in Nat, choice' = "vnc", AwaitsChallenge(k + 1)
    PROVE  AwaitsChallenge(k)'
<1>1. /\ Len(wire') = Len(wire) - 1 /\ Len(wire) \in Nat
      /\ \A j \in Nat \ {0} : \A w : Comes(j, w) => Comes(j - 1, w)'
  BY Nearer DEF Types
<1>2. NothingAfter(k + 1) => NothingAfter(k)'
  BY <1>1 DEF NothingAfter
<1>3. NothingAfter((k + 1) + 1) => NothingAfter(k + 1)'
  BY <1>1 DEF NothingAfter
<1>4. Comes(k + 1, "challenge") => Comes(k, "challenge")'
  <2>1. k + 1 \in Nat \ {0} /\ (k + 1) - 1 = k
    OBVIOUS
  <2>2. Comes(k + 1, "challenge") => Comes((k + 1) - 1, "challenge")'
    BY <1>1, <2>1
  <2> QED BY <2>1, <2>2 DEF Comes
<1> QED BY <1>2, <1>3, <1>4 DEF AwaitsChallenge

(* A step of the handshake, with what it has read.                         *)
LEMMA HelloReads ==
    ASSUME ReaderInv, Types, SyncInv, Handshake
    PROVE  /\ cpc \in Hello /\ Returned /\ wire # <<>> /\ Done
           /\ Cur = wire[1] /\ Cur.kind = cpc /\ SizeOf(Cur) = 1 /\ Cur \in Message
           /\ Consumed = base + 1
           /\ Len(wire') = Len(wire) - 1 /\ Len(wire') \in Nat /\ Len(wire) \in Nat
<1>1. cpc \in Hello /\ Returned /\ Done
  BY DEF Handshake, At, GotVersion, GotCount, ChooseType, GotScheme, GotChallenge,
         GotResult, GotReason, GotInit, Hello
<1>2. wire # <<>>
  BY <1>1, HelloArrived
<1> QED BY <1>1, <1>2, HelloArrived, Nearer, CurType DEF Types

LEMMA ChosenNearer ==
    ASSUME Types, minor \in Nat, wire # <<>>, Done, UNCHANGED <<srv, minor>>,
           NEW k \in Nat, Chosen(k + 1),
           choice' = IF choice = NoType /\ Cur.word \in Supported THEN Cur.word ELSE choice,
           heard' = heard \o IF choice' # choice THEN <<"type">> ELSE <<>>
    PROVE  Chosen(k)'
<1>1. NothingAfter(k + 1) => NothingAfter(k)'
  BY Nearer DEF NothingAfter
<1>2. CASE choice = NoType /\ NothingAfter(k + 1) /\ srv = "type" /\ heard = <<>>
  <2>1. CASE choice' = choice
    BY <1>1, <1>2, <2>1 DEF Chosen
  <2>2. CASE choice' # choice
    <3>1. choice' \in {"none", "vnc"} /\ heard' = <<"type">>
      BY <1>2, <2>2 DEF Supported
    <3>2. CASE choice' = "vnc"
      BY <1>1, <1>2, <3>1, <3>2 DEF Chosen, AwaitsChallenge
    <3>3. CASE choice' = "none" /\ minor > 7
      BY <1>1, <1>2, <3>1, <3>3 DEF Chosen, AwaitsResult
    <3>4. CASE choice' = "none" /\ ~(minor > 7)
      <4>1. AwaitsClient(k)'
        BY <1>1, <1>2, <3>1 DEF AwaitsClient
      <4> QED BY <3>4, <4>1 DEF Chosen
    <3> QED BY <3>1, <3>2, <3>3, <3>4
  <2> QED BY <2>1, <2>2
<1>3. ASSUME choice \in {"vnc", "none"}, heard \in {<<>>, <<"type">>, <<"response">>}
      PROVE  choice' = choice /\ heard' = heard
  BY <1>3 DEF NoType
<1>4. CASE choice = "vnc" /\ AwaitsChallenge(k + 1)
  <2>1. heard \in {<<>>, <<"type">>}
    BY <1>4 DEF AwaitsChallenge
  <2>2. choice' = "vnc" /\ heard' = heard
    BY <1>3, <1>4, <2>1
  <2> QED BY <1>4, <2>2, ChallengeNearer DEF Chosen
<1>5. CASE choice = "none" /\ minor > 7 /\ AwaitsResult(k + 1)
  <2>1. heard \in {<<>>, <<"type">>, <<"response">>}
    BY <1>5 DEF AwaitsResult, Judged
  <2>2. choice' = "none" /\ heard' = heard /\ choice' = choice
    BY <1>3, <1>5, <2>1
  <2>3. AwaitsResult(k)'
    BY <1>5, <2>2, ResultNearer
  <2> QED BY <1>5, <2>2, <2>3 DEF Chosen
<1>6. CASE choice = "none" /\ minor <= 7 /\ AwaitsClient(k + 1)
  <2>1. heard \in {<<>>, <<"type">>}
    BY <1>6 DEF AwaitsClient
  <2>2. choice' = "none" /\ heard' = heard
    BY <1>3, <1>6, <2>1
  <2>3. AwaitsClient(k)'
    BY <1>1, <1>6, <2>2 DEF AwaitsClient
  <2> QED BY <1>6, <2>2, <2>3 DEF Chosen
<1> QED BY <1>2, <1>4, <1>5, <1>6 DEF Chosen

(* Where a step of the handshake leads.                                    *)
LEMMA VersionRead ==
    ASSUME ReaderInv, Types, SyncInv, Handshake, srv' = srv, GotVersion
    PROVE  Dialogue'
<1>1. /\ wire # <<>> /\ Len(wire') = Len(wire) - 1 /\ Len(wire) \in Nat
      /\ cpc = "version" /\ AtVersion
  BY HelloReads DEF GotVersion, At, SyncInv, Dialogue
<1>2. srv = "version" /\ NothingAfter(0)' /\ heard = <<>> /\ choice = NoType
  BY <1>1 DEF AtVersion, NothingAfter
<1>3. /\ minor' = Least(8, Cur.n) /\ heard' = <<"version">> /\ choice' = NoType
      /\ cpc' = IF minor' > 6 THEN "count" ELSE "scheme"
  BY <1>2 DEF GotVersion, Says, GoOn
<1>4. minor' \in Nat
  BY <1>3, HelloReads DEF Least, Message
<1>5. CASE minor' > 6
  <2>1. AtCount' /\ cpc' = "count"
    BY <1>2, <1>3, <1>5 DEF AtCount
  <2> QED BY <2>1 DEF Dialogue
<1>6. CASE minor' <= 6
  <2>1. AtScheme' /\ cpc' = "scheme"
    BY <1>2, <1>3, <1>4, <1>6 DEF AtScheme
  <2> QED BY <2>1 DEF Dialogue
<1> QED BY <1>4, <1>5, <1>6

LEMMA CountRead ==
    ASSUME ReaderInv, Types, SyncInv, Handshake, srv' = srv, GotCount
    PROVE  Dialogue'
<1>1. /\ wire # <<>> /\ Len(wire') = Len(wire) - 1 /\ Len(wire) \in Nat
      /\ Len(wire') \in Nat /\ Done /\ Cur = wire[1]
      /\ cpc = "count" /\ AtCount
  BY HelloReads DEF GotCount, At, SyncInv, Dialogue
<1>2. /\ left' = wire[1].n /\ UNCHANGED <<heard, minor, choice>>
      /\ cpc' = IF left' = 0 THEN "length" ELSE "sectype"
  BY <1>1 DEF GotCount, GoOn
<1>3. ~NothingAfter(0)
  BY <1>1 DEF NothingAfter
<1>4. CASE /\ srv = "type" /\ heard = <<>>
           /\ wire[1].n = Len(wire) - 1 /\ wire[1].n > 0
           /\ \A i \in 2 .. Len(wire) : wire[i].kind = "sectype"
  <2>1. /\ \A i \in 1 .. Len(wire') : wire'[i] = wire[i + 1]
        /\ left' = Len(wire') /\ left' > 0 /\ cpc' = "sectype"
    BY <1>1, <1>2, <1>4, Nearer
  <2>2. \A i \in 1 .. left' : wire'[i].kind = "sectype"
    <3>1. \A i \in 1 .. Len(wire') : i + 1 \in 2 .. Len(wire)
      BY <1>1
    <3> QED BY <1>4, <2>1, <3>1
  <2>3. Chosen(left)'
    BY <1>1, <1>2, <1>4, <2>1 DEF Chosen, NothingAfter, AtCount
  <2>4. AtSectype'
    BY <1>1, <2>1, <2>2, <2>3 DEF AtSectype
  <2> QED BY <2>1, <2>4 DEF Dialogue
<1>5. CASE wire[1].n = 0 /\ Explains(1)
  <2>1. Explains(0 + 1) /\ cpc' = "length"
    BY <1>2, <1>5
  <2>2. Explains(0)'
    BY <1>1, <2>1, ExplainsNearer
  <2> QED BY <2>1, <2>2 DEF Dialogue
<1> QED BY <1>1, <1>3, <1>4, <1>5 DEF AtCount

LEMMA SchemeRead ==
    ASSUME ReaderInv, Types, SyncInv, Handshake, srv' = srv, GotScheme
    PROVE  Dialogue'
<1>1. /\ wire # <<>> /\ Len(wire') = Len(wire) - 1 /\ Len(wire) \in Nat
      /\ Len(wire') \in Nat /\ Done /\ Cur = wire[1]
      /\ cpc = "scheme" /\ AtScheme
  BY HelloReads DEF GotScheme, At, SyncInv, Dialogue
<1>2. /\ choice' = wire[1].word /\ minor' = minor
      /\ \/ wire[1].word = "failed" /\ heard' = heard /\ cpc' = "length"
         \/ /\ wire[1].word = "none" /\ heard' = Append(heard, "clientinit")
            /\ cpc' = "init"
         \/ wire[1].word = "vnc" /\ heard' = heard /\ cpc' = "challenge"
  BY <1>1 DEF GotScheme, ClientInit, Says, Silent, GoOn
<1>3. ~NothingAfter(0)
  BY <1>1 DEF NothingAfter
<1>4. CASE wire[1].word = "failed" /\ Explains(1)
  <2>1. Explains(0 + 1) /\ cpc' = "length"
    BY <1>2, <1>4
  <2>2. Explains(0)'
    BY <1>1, <2>1, ExplainsNearer
  <2> QED BY <2>1, <2>2 DEF Dialogue
<1>5. CASE /\ wire[1].word = "none" /\ NothingAfter(1)
           /\ srv = "clientinit" /\ heard = <<>>
  <2>1. cpc' = "init" /\ heard' = <<"clientinit">>
    BY <1>2, <1>5
  <2>2. AtInit'
    BY <1>1, <1>5, <2>1 DEF AtInit, NothingAfter
  <2> QED BY <2>1, <2>2 DEF Dialogue
<1>6. CASE /\ wire[1].word = "vnc" /\ Comes(1, "challenge") /\ NothingAfter(2)
           /\ srv = "response" /\ heard = <<>>
  <2>1. cpc' = "challenge" /\ heard' = <<>> /\ choice' = "vnc" /\ UNCHANGED <<srv, heard>>
    BY <1>2, <1>6
  <2>2. AwaitsChallenge(0 + 1)
    BY <1>6 DEF AwaitsChallenge
  <2>3. AwaitsChallenge(0)'
    BY <1>1, <2>1, <2>2, ChallengeNearer
  <2> QED BY <2>1, <2>3 DEF Dialogue
<1> QED BY <1>1, <1>3, <1>4, <1>5, <1>6 DEF AtScheme

LEMMA PairIs ==
    ASSUME NEW S, NEW a \in S, NEW b \in S
    PROVE  <<a>> \o <<b>> = <<a, b>>
<1> DEFINE s == <<a>>
           t == <<b>>
           u == <<a, b>>
<1>1. /\ s \in Seq(S) /\ t \in Seq(S) /\ u \in Seq(S)
      /\ Len(s) = 1 /\ Len(t) = 1 /\ Len(u) = 2
      /\ s[1] = a /\ t[1] = b /\ u[1] = a /\ u[2] = b
  OBVIOUS
<1> HIDE DEF s, t, u
<1>2. /\ s \o t \in Seq(S) /\ Len(s \o t) = Len(s) + Len(t)
      /\ \A i \in 1 .. Len(s) + Len(t) :
             (s \o t)[i] = IF i <= Len(s) THEN s[i] ELSE t[i - Len(s)]
  BY <1>1, ConcatProperties, Zenon
<1>3. \A i \in 1 .. 1 + 1 : (s \o t)[i] = IF i <= 1 THEN s[i] ELSE t[i - 1]
  BY <1>1, <1>2, Zenon
<1>4. /\ 1 + 1 = 2 /\ 1 \in 1 .. 1 + 1 /\ 2 \in 1 .. 1 + 1
      /\ ~(2 <= 1) /\ 2 - 1 = 1 /\ 1 <= 1
  OBVIOUS
<1>5. Len(s \o t) = 2
  <2>1. Len(s \o t) = 1 + 1
    BY <1>1, <1>2, Zenon
  <2> QED BY <1>4, <2>1, Zenon
<1>6. (s \o t)[1] = a
  BY <1>1, <1>3, <1>4, Zenon
<1>7. (s \o t)[2] = b
  <2>1. (s \o t)[2] = t[2 - 1]
    BY <1>3, <1>4, Zenon
  <2> QED BY <1>1, <1>4, <2>1, Zenon
<1>8. \A i \in 1 .. 2 : (s \o t)[i] = u[i]
  <2>1. \A i \in 1 .. 2 : i = 1 \/ i = 2
    OBVIOUS
  <2> QED BY <1>1, <1>6, <1>7, <2>1, Zenon
<1>9. s \o t = u
  <2>1. Len(s \o t) = Len(u) /\ \A i \in 1 .. Len(s \o t) : (s \o t)[i] = u[i]
    BY <1>1, <1>5, <1>8, Zenon
  <2> QED BY <1>1, <1>2, <2>1, SeqEqual, Zenon
<1> QED BY <1>9 DEF s, t, u

(* What the client says when it chooses a type and needs no password.      *)
LEMMA SaysBoth ==
    /\ <<"type">> \o <<"clientinit">> = <<"type", "clientinit">>
    /\ <<>> \o <<"type">> = <<"type">>
    /\ <<"type">> \o <<>> = <<"type">>
    /\ <<>> \o <<>> = <<>>
    /\ <<>> \o <<"clientinit">> = <<"clientinit">>
<1> DEFINE S == {"type", "clientinit"}
<1>1. "type" \in S /\ "clientinit" \in S
  OBVIOUS
<1> HIDE DEF S
<1>2. <<"type">> \o <<"clientinit">> = <<"type", "clientinit">>
  BY <1>1, PairIs
<1>3. /\ <<>> \o <<"type">> = <<"type">>
      /\ <<"type">> \o <<>> = <<"type">>
      /\ <<>> \o <<>> = <<>>
      /\ <<>> \o <<"clientinit">> = <<"clientinit">>
  OBVIOUS
<1> QED BY <1>2, <1>3

LEMMA TypeRead ==
    ASSUME ReaderInv, Types, SyncInv, Handshake, srv' = srv, ChooseType
    PROVE  Dialogue'
<1> DEFINE say == IF choice' # choice THEN <<"type">> ELSE <<>>
<1>1. /\ wire # <<>> /\ Len(wire') = Len(wire) - 1 /\ Len(wire) \in Nat
      /\ Len(wire') \in Nat /\ Done /\ Cur = wire[1]
      /\ cpc = "sectype" /\ AtSectype /\ minor \in Nat /\ left \in Int
  BY HelloReads DEF ChooseType, At, SyncInv, Dialogue, Counts
<1>2. /\ minor' = minor /\ left' = left - 1
      /\ choice' = IF choice = NoType /\ Cur.word \in Supported THEN Cur.word ELSE choice
      /\ \/ left' > 0 /\ heard' = heard \o say /\ cpc' = "sectype"
         \/ cpc' = "gone"
         \/ /\ left' = 0 /\ choice' = "none" /\ minor <= 7
            /\ heard' = heard \o say \o <<"clientinit">> /\ cpc' = "init"
         \/ /\ left' = 0 /\ choice' # NoType /\ ~(choice' = "none" /\ minor <= 7)
            /\ heard' = heard \o say
            /\ cpc' = IF choice' = "none" THEN "result" ELSE "challenge"
  BY DEF ChooseType, GoOn, GiveUp, Authenticate
<1>3. left' \in Nat /\ left = left' + 1 /\ left <= Len(wire) /\ Chosen(left)
      /\ \A i \in 1 .. left : wire[i].kind = "sectype"
  BY <1>1, <1>2 DEF AtSectype
<1>4. ASSUME NEW k \in Nat, left = k + 1, heard' = heard \o say
      PROVE  Chosen(k)'
  <2>1. Chosen(k + 1)
    BY <1>3, <1>4
  <2> QED BY <1>1, <1>2, <1>4, <2>1, ChosenNearer
<1> HIDE DEF say
<1>5. CASE left' > 0 /\ heard' = heard \o say /\ cpc' = "sectype"
  <2>1. Chosen(left)'
    <3>1. ASSUME NEW k \in Nat, k = left'
          PROVE  Chosen(left)'
      <4>1. Chosen(k)'
        BY <1>3, <1>4, <1>5, <3>1
      <4> QED BY <3>1, <4>1
    <3> QED BY <1>3, <3>1
  <2>2. left' <= Len(wire') /\ \A i \in 1 .. left' : wire'[i].kind = "sectype"
    <3>1. \A i \in 1 .. Len(wire') : wire'[i] = wire[i + 1]
      BY <1>1, Nearer
    <3>2. left' <= Len(wire')
      BY <1>1, <1>3
    <3>3. ASSUME NEW k \in Nat, NEW n \in Nat, k <= n
          PROVE  \A i \in 1 .. k : i \in 1 .. n /\ i + 1 \in 1 .. k + 1
      BY <3>3
    <3>4. \A i \in 1 .. left' : i \in 1 .. Len(wire') /\ i + 1 \in 1 .. left
      BY <1>1, <1>3, <3>2, <3>3, Zenon
    <3> QED BY <1>3, <3>1, <3>2, <3>4, Zenon
  <2>3. AtSectype'
    BY <1>5, <2>1, <2>2 DEF AtSectype
  <2> QED BY <1>5, <2>3 DEF Dialogue
<1>6. CASE cpc' = "gone"
  BY <1>6 DEF Dialogue
<1>7. CASE /\ left' = 0 /\ choice' = "none" /\ minor <= 7
           /\ heard' = heard \o say \o <<"clientinit">> /\ cpc' = "init"
  <2>1. Chosen(0 + 1)
    BY <1>3, <1>7
  <2>2. NothingAfter(0)' \/ ~NothingAfter(1)
    BY <1>1 DEF NothingAfter
  <2>3. CASE choice = NoType /\ NothingAfter(1) /\ srv = "type" /\ heard = <<>>
    <3>1. heard' = <<"type", "clientinit">>
      <4>1. say = <<"type">>
        BY <1>7, <2>3 DEF say, NoType
      <4> QED BY <1>7, <2>3, <4>1, SaysBoth, Zenon
    <3> QED BY <1>2, <1>7, <2>2, <2>3, <3>1 DEF Dialogue, AtInit
  <2>4. CASE choice = "none" /\ AwaitsClient(1)
    <3>1. say = <<>>
      BY <1>2, <1>7, <2>4 DEF say
    <3>2. CASE srv = "type" /\ heard = <<"type">>
      <4>1. heard' = <<"type", "clientinit">>
        BY <1>7, <3>1, <3>2, SaysBoth, Zenon
      <4> QED BY <1>2, <1>7, <2>2, <2>4, <3>2, <4>1 DEF Dialogue, AtInit, AwaitsClient
    <3>3. CASE srv = "clientinit" /\ heard = <<>>
      <4>1. heard' = <<"clientinit">>
        BY <1>7, <3>1, <3>3, SaysBoth, Zenon
      <4> QED BY <1>2, <1>7, <2>2, <2>4, <3>3, <4>1 DEF Dialogue, AtInit, AwaitsClient
    <3> QED BY <2>4, <3>2, <3>3 DEF AwaitsClient
  <2>5. choice # "vnc"
    BY <1>2, <1>7 DEF NoType
  <2>6. choice = "none" => AwaitsClient(1)
    BY <1>1, <1>7, <2>1 DEF Chosen, NoType
  <2> QED BY <2>1, <2>3, <2>4, <2>5, <2>6 DEF Chosen
<1>8. CASE /\ left' = 0 /\ choice' # NoType /\ ~(choice' = "none" /\ minor <= 7)
           /\ heard' = heard \o say
           /\ cpc' = IF choice' = "none" THEN "result" ELSE "challenge"
  <2>1. Chosen(0)'
    <3>1. left = 0 + 1
      BY <1>3, <1>8
    <3> QED BY <1>4, <1>8, <3>1
  <2>2. CASE choice' = "none"
    <3>1. AwaitsResult(0)' /\ cpc' = "result"
      BY <1>2, <1>8, <2>1, <2>2 DEF Chosen
    <3> QED BY <3>1 DEF Dialogue
  <2>3. CASE choice' # "none"
    <3>1. AwaitsChallenge(0)' /\ cpc' = "challenge"
      BY <1>8, <2>1, <2>3 DEF Chosen
    <3> QED BY <3>1 DEF Dialogue
  <2> QED BY <2>2, <2>3
<1> QED BY <1>2, <1>5, <1>6, <1>7, <1>8

LEMMA ChallengeRead ==
    ASSUME ReaderInv, Types, SyncInv, Handshake, srv' = srv, GotChallenge
    PROVE  Dialogue'
<1>1. /\ wire # <<>> /\ Len(wire') = Len(wire) - 1 /\ Len(wire) \in Nat
      /\ cpc = "challenge" /\ AwaitsChallenge(0)
  BY HelloReads DEF GotChallenge, At, SyncInv, Dialogue
<1>2. srv = "response" /\ heard = <<>> /\ NothingAfter(0)'
  BY <1>1 DEF AwaitsChallenge, NothingAfter
<1>3. CASE heard' = Append(heard, "response") /\ cpc' = "result"
  <2>1. heard' = <<"response">>
    BY <1>2, <1>3
  <2>2. AwaitsResult(0)'
    BY <1>2, <2>1 DEF AwaitsResult
  <2> QED BY <1>3, <2>2 DEF Dialogue
<1>4. CASE cpc' = "gone"
  BY <1>4 DEF Dialogue
<1> QED BY <1>3, <1>4 DEF GotChallenge, Says, GoOn, GiveUp

LEMMA ResultRead ==
    ASSUME ReaderInv, Types, SyncInv, Handshake, srv' = srv, GotResult
    PROVE  Dialogue'
<1>1. /\ wire # <<>> /\ Len(wire') = Len(wire) - 1 /\ Len(wire) \in Nat
      /\ Len(wire') \in Nat /\ Done /\ Cur = wire[1]
      /\ cpc = "result" /\ AwaitsResult(0)
  BY HelloReads DEF GotResult, At, SyncInv, Dialogue
<1>2. Judged(0)
  BY <1>1 DEF AwaitsResult, NothingAfter
<1>3. CASE Cur.word = "ok" /\ ClientInit
  <2>1. NothingAfter(1) /\ srv = "clientinit" /\ heard = <<>>
    BY <1>1, <1>2, <1>3 DEF Judged
  <2>2. cpc' = "init" /\ heard' = <<"clientinit">> /\ NothingAfter(0)'
    BY <1>1, <1>3, <2>1 DEF ClientInit, Says, GoOn, NothingAfter
  <2> QED BY <2>1, <2>2 DEF AtInit, Dialogue
<1>4. CASE Cur.word = "failed" /\ minor > 7 /\ GoOn("length", 1)
  <2>1. Explains(0 + 1)
    <3>1. minor \in Nat
      BY DEF SyncInv, Counts
    <3> QED BY <1>1, <1>2, <1>4, <3>1 DEF Judged
  <2>2. Explains(0)' /\ cpc' = "length"
    BY <1>1, <1>4, <2>1, ExplainsNearer DEF GoOn
  <2> QED BY <2>2 DEF Dialogue
<1>5. CASE GiveUp
  BY <1>5 DEF GiveUp, Dialogue
<1> QED BY <1>3, <1>4, <1>5 DEF GotResult

LEMMA ReasonRead ==
    ASSUME ReaderInv, Types, SyncInv, Handshake, srv' = srv, GotReason
    PROVE  Dialogue'
<1>1. CASE At("length") /\ GoOn("text", 1)
  <2>1. wire # <<>> /\ Done /\ Explains(0) /\ cpc' = "text"
    BY <1>1, HelloReads DEF At, GoOn, SyncInv, Dialogue
  <2>2. srv = "done" /\ Comes(0 + 1, "text")
    BY <2>1 DEF Explains
  <2>3. Comes(0, "text")'
    <3>1. 1 \in Nat \ {0} /\ 1 - 1 = 0 /\ 0 + 1 = 1
      OBVIOUS
    <3>2. Comes(1 - 1, "text")'
      BY <2>1, <2>2, <3>1, Nearer
    <3> QED BY <3>1, <3>2 DEF Comes
  <2> QED BY <2>1, <2>2, <2>3 DEF Dialogue
<1>2. CASE GiveUp
  BY <1>2 DEF GiveUp, Dialogue
<1> QED BY <1>1, <1>2 DEF GotReason

LEMMA InitRead ==
    ASSUME ReaderInv, Types, SyncInv, Handshake, srv' = srv, GotInit
    PROVE  Dialogue'
<1>1. wire # <<>> /\ Done /\ AtInit /\ cpc' = "name" /\ Len(wire) \in Nat
  BY HelloReads DEF GotInit, At, GoOn, SyncInv, Dialogue
<1>2. ~NothingAfter(0)
  BY <1>1, HelloReads DEF NothingAfter
<1>3. srv = "serve" /\ Comes(1, "name")
  BY <1>1, <1>2 DEF AtInit
<1>4. Comes(0, "name")'
  <2>1. 1 \in Nat \ {0} /\ 1 - 1 = 0
    OBVIOUS
  <2>2. Comes(1 - 1, "name")'
    BY <1>1, <1>3, <2>1, Nearer
  <2> QED BY <2>1, <2>2 DEF Comes
<1> QED BY <1>1, <1>3, <1>4 DEF Dialogue

LEMMA HandshakeDialogue ==
    ASSUME ReaderInv, Types, SyncInv, Handshake, srv' = srv
    PROVE  Dialogue'
BY VersionRead, CountRead, TypeRead, SchemeRead, ChallengeRead, ResultRead, ReasonRead,
   InitRead DEF Handshake

(* After the handshake there is nothing left to agree on.                  *)
LEMMA DialogueOver ==
    ASSUME cpc' \notin Hello \cup {"start"}
    PROVE  Dialogue'
BY DEF Hello, Dialogue

LEMMA DialogueSame ==
    ASSUME Dialogue, UNCHANGED <<srv, heard, wire, minor, left, choice>>,
           cpc' = cpc \/ (cpc = "start" /\ cpc' = "version")
    PROVE  Dialogue'
<1>1. /\ AtVersion' = AtVersion /\ AtCount' = AtCount /\ AtScheme' = AtScheme
      /\ AtSectype' = AtSectype /\ AtInit' = AtInit
      /\ AwaitsChallenge(0)' = AwaitsChallenge(0) /\ AwaitsResult(0)' = AwaitsResult(0)
      /\ Explains(0)' = Explains(0)
      /\ Comes(0, "name")' = Comes(0, "name") /\ Comes(0, "text")' = Comes(0, "text")
  BY DEF AtVersion, AtCount, AtScheme, AtSectype, AtInit, Chosen, AwaitsChallenge,
         AwaitsResult, AwaitsClient, Judged, Explains, Comes, NothingAfter
<1> QED BY <1>1 DEF Dialogue
--------------------------------------------------------------------------------
(* The rest of a step: the client's place in the stream, and the counts.   *)
LEMMA ConnectingStands ==
    ASSUME ReaderInv, Types, SyncInv, Start \/ Handshake \/ Connected \/ Fails
    PROVE  Standing'
<1>0. Counts /\ Standing /\ Dialogue /\ base \in Nat
  BY DEF SyncInv, Counts
<1>1. CASE Start
  <2>1. Consumed = base /\ base' = base /\ cpc' = "version" /\ Read(1)
    BY <1>0, <1>1 DEF Start, At, GoOn, Standing
  <2> QED BY <2>1, StandsAtStart DEF Hello
<1>2. CASE Handshake
  <2>1. Consumed = base'
    BY <1>2, HelloReads DEF Done
  <2>2. CASE cpc' = "gone"
    BY <2>2, StandsNowhere
  <2>3. CASE cpc' # "gone"
    <3>1. cpc' \in Hello /\ Read(1)
      BY <1>2, <2>3, HandshakeCalls
    <3> QED BY <2>1, <3>1, StandsAtStart
  <2> QED BY <2>2, <2>3
<1>3. CASE Connected
  <2>1. Done /\ Returned /\ cpc \in Hello
    BY <1>3 DEF Connected, At, Hello
  <2>2. Consumed = base'
    BY <2>1, HelloArrived DEF Done
  <2>3. CASE cpc' = "loop" /\ UNCHANGED rvars
    BY <2>1, <2>2, <2>3, StandsAtEnd
  <2>4. CASE GiveUp
    BY <2>4, StandsNowhere DEF GiveUp
  <2> QED BY <1>3, <2>3, <2>4 DEF Connected
<1>4. CASE Fails
  BY <1>4, StandsNowhere DEF Fails
<1> QED BY <1>1, <1>2, <1>3, <1>4

(* Nothing moves the client but what it does itself.                       *)
LEMMA OthersStand ==
    ASSUME Types, Places, Standing, UNCHANGED <<bufvars, callvars, base, clivars>>,
           wire' = wire \/ \E ms \in Seq(Message) : Send(ms)
    PROVE  Standing'
<1>1. /\ First' = First /\ Consumed' = Consumed /\ want' = want
      /\ (Returned' <=> Returned) /\ base' = base
      /\ UNCHANGED <<cpc, rect, lines>>
  BY SameStands DEF clivars, rectvars
<1>2. ASSUME cpc \in {"cuttext", "rect", "copy", "cursor", "raw"}
      PROVE  Cur' = Cur /\ R' = R /\ Before(rect)' = Before(rect)
  <2>1. wire # <<>> /\ wire \in Seq(Message)
    BY <1>2 DEF Types, Places, Reading, InUpdate, InRect
  <2>2. wire' # <<>> /\ Head(wire') = Head(wire)
    BY <2>1 DEF Send
  <2>3. Cur' = Cur
    BY <2>1, <2>2 DEF Cur
  <2> QED BY <1>1, <2>3 DEF R, Before
<1>12. Reading("colours") => Reading("colours")'
  BY DEF Reading, Send, Types
<1>3. \A p, n : Stands(p, n) => First' = base' + p /\ want' = n
  BY <1>1 DEF Stands
<1>4. /\ cpc \in {"start", "loop"} => Returned'
      /\ cpc = "start" => Consumed' = base'
      /\ cpc = "loop" => Consumed' = base' \/ LeftBody'
  BY <1>1, <1>12 DEF Standing, LeftBody
<1>5. /\ cpc \in Hello => Stands(0, 1)'
      /\ cpc = "type" => Stands(0, 1)' \/ (Reading("colours")' /\ Stands(1, 1)')
      /\ cpc = "astray" => Reading("colours")'
  BY <1>1, <1>12 DEF Standing, Stands
<1>6. cpc \in {"cutlength", "newsize", "rects"} => Stands(1, 1)'
  BY <1>1 DEF Standing, Stands
<1>7. cpc = "cuttext" => Stands(2, Cur.n)'
  BY <1>1, <1>2 DEF Standing, Stands
<1>8. cpc = "rect" => Stands(Before(rect), 1)'
  BY <1>1, <1>2 DEF Standing, Stands
<1>9. cpc \in {"copy", "cursor"} => Stands(Before(rect) + 1, 1)' /\ R'.enc = cpc
  BY <1>1, <1>2 DEF Standing, Stands
<1>10. cpc = "raw" => /\ R'.enc = "raw" /\ lines' \in 0 .. R'.h
                      /\ Stands(Before(rect) + 1 + (R.h - lines), Least(LinesPerRead, lines))'
  BY <1>1, <1>2 DEF Standing, Stands, Least
<1>11. cpc' = cpc
  BY <1>1
<1> QED BY <1>4, <1>5, <1>6, <1>7, <1>8, <1>9, <1>10, <1>11 DEF Standing

(* A read that goes on, or comes to its end.                               *)
LEMMA InReadStands ==
    ASSUME ReaderInv, Standing, InRead, UNCHANGED <<wire, base, clivars>>
    PROVE  Standing'
<1>1. /\ First' = First /\ want' = want /\ base' = base /\ Cur' = Cur /\ R' = R
      /\ UNCHANGED <<cpc, rect, lines>> /\ Before(rect)' = Before(rect)
      /\ cpc \notin {"start", "loop"} /\ Reading("colours")' = Reading("colours")
  <2>1. First' = First /\ want' = want /\ ~Returned
    BY ReadingStands
  <2>2. UNCHANGED <<wire, base, cpc, rect, lines>>
    BY DEF clivars, rectvars
  <2>3. Cur' = Cur
    BY <2>2 DEF Cur
  <2> QED BY <2>1, <2>2, <2>3 DEF R, Before, Standing, Reading
<1>2. /\ cpc \in Hello => Stands(0, 1)'
      /\ cpc = "type" => Stands(0, 1)' \/ (Reading("colours")' /\ Stands(1, 1)')
      /\ cpc = "astray" => Reading("colours")'
  BY <1>1 DEF Standing, Stands
<1>3. cpc \in {"cutlength", "newsize", "rects"} => Stands(1, 1)'
  BY <1>1 DEF Standing, Stands
<1>4. cpc = "cuttext" => Stands(2, Cur.n)'
  BY <1>1 DEF Standing, Stands
<1>5. cpc = "rect" => Stands(Before(rect), 1)'
  BY <1>1 DEF Standing, Stands
<1>6. cpc \in {"copy", "cursor"} => Stands(Before(rect) + 1, 1)' /\ R'.enc = cpc
  BY <1>1 DEF Standing, Stands
<1>7. cpc = "raw" => /\ R'.enc = "raw" /\ lines' \in 0 .. R'.h
                     /\ Stands(Before(rect) + 1 + (R.h - lines), Least(LinesPerRead, lines))'
  BY <1>1 DEF Standing, Stands, Least
<1>8. cpc' = cpc
  BY <1>1
<1> QED BY <1>1, <1>2, <1>3, <1>4, <1>5, <1>6, <1>7, <1>8 DEF Standing
--------------------------------------------------------------------------------
LEMMA SameRead == ASSUME NEW n \in Nat, Read(n) PROVE arrived' = arrived
BY DEF Read, CallBuffered, CallSocket, netvars

(* A step of the client takes at most one message off the wire, and no     *)
(* byte from the network but by its reads.                                 *)
LEMMA ConnectingCounts ==
    ASSUME Start \/ Handshake \/ Connected \/ Fails
    PROVE  SameMessage \/ Done
BY DEF Start, Handshake, Connected, Fails, SameMessage

LEMMA RectCounts ==
    ASSUME NEW i, NEW asks, ToRect(i, asks)
    PROVE  SameMessage \/ Done
BY DEF ToRect, EndUpdate, EndMessage, SameMessage

LEMMA MessageCounts ==
    ASSUME HandleRFBServerMessage
    PROVE  /\ SameMessage \/ Done
           /\ UNCHANGED hellovars
<1>1. SameMessage \/ Done
  <2>1. CASE Loop
    BY <2>1 DEF Loop, SameMessage
  <2>2. CASE GotType
    BY <2>2 DEF GotType, EndMessage
  <2>3. CASE GotUnknown \/ GotCutLength \/ GotCutText \/ GotNewSize
    BY <2>3 DEF GotUnknown, GotCutLength, GotCutText, GotNewSize, NoMemory, EndMessage
  <2>4. CASE GotRects \/ GotLines \/ GotPayload
    BY <2>4, RectCounts DEF GotRects, GotLines, GotPayload
  <2>5. CASE GotPseudoRect
    BY <2>5, RectCounts DEF GotPseudoRect, EndUpdate, EndMessage, NoMemory
  <2>6. CASE GotPixelRect
    BY <2>6 DEF GotPixelRect
  <2> QED BY <2>1, <2>2, <2>3, <2>4, <2>5, <2>6 DEF HandleRFBServerMessage
<1> QED BY <1>1 DEF HandleRFBServerMessage

LEMMA RectPlaces ==
    ASSUME NEW i, NEW asks, ToRect(i, asks)
    PROVE  cpc' \in {"rect", "loop", "gone"}
BY DEF ToRect, EndUpdate, EndMessage, GoOn, GiveUp

LEMMA MessagePlaces ==
    ASSUME HandleRFBServerMessage
    PROVE  cpc' \notin Hello \cup {"start"}
<1> DEFINE places == {"loop", "gone", "astray", "type", "unknown", "cutlength", "cuttext",
                      "newsize", "rects", "rect", "raw", "copy", "cursor"}
<1>1. cpc' \in places
  <2>1. CASE Loop \/ GotUnknown \/ GotCutLength \/ GotCutText \/ GotNewSize
    BY <2>1 DEF Loop, GotUnknown, GotCutLength, GotCutText, GotNewSize, NoMemory,
                EndMessage, GoOn, GiveUp
  <2>2. CASE GotType
    BY <2>2 DEF GotType, EndMessage, GoOn
  <2>3. CASE GotRects \/ GotPayload
    BY <2>3, RectPlaces DEF GotRects, GotPayload
  <2>4. CASE GotLines
    BY <2>4, RectPlaces DEF GotLines, GoOn
  <2>5. CASE GotPseudoRect
    BY <2>5, RectPlaces DEF GotPseudoRect, EndUpdate, EndMessage, NoMemory, GiveUp
  <2>6. CASE GotPixelRect
    BY <2>6 DEF GotPixelRect, GoOn, GiveUp
  <2> QED BY <2>1, <2>2, <2>3, <2>4, <2>5, <2>6 DEF HandleRFBServerMessage
<1> QED BY <1>1 DEF Hello

(* What the handshake makes of the version and of the number of types.     *)
LEMMA HelloCounts ==
    ASSUME Types, Counts, Handshake
    PROVE  minor' \in Nat /\ left' \in Int
<1>1. Cur.n \in Nat /\ minor \in Nat /\ left \in Int
  BY CurType DEF Message, Counts
<1>2. CASE GotVersion
  BY <1>1, <1>2 DEF GotVersion, Least
<1>3. CASE GotCount
  BY <1>1, <1>3 DEF GotCount
<1>4. CASE ChooseType
  BY <1>1, <1>4 DEF ChooseType
<1>5. CASE GotScheme \/ GotChallenge \/ GotResult \/ GotReason \/ GotInit
  BY <1>1, <1>5 DEF GotScheme, GotChallenge, GotResult, GotReason, GotInit, hellovars
<1> QED BY <1>2, <1>3, <1>4, <1>5 DEF Handshake

LEMMA ClientCounts ==
    ASSUME ReaderInv, ClientInv, Counts, Client,
           InRead \/ [Called]_rvars
    PROVE  Counts'
<1>1. Types /\ base \in Nat /\ arrived <= Sent /\ minor \in Nat /\ left \in Int
      /\ arrived \in Nat /\ wire \in Seq(Message)
  BY DEF ClientInv, Counts, ReaderInv, ReaderTypeOK, Types
<1>2. SameMessage \/ Done
  <2>1. CASE InRead /\ UNCHANGED <<heard, asked, wire, base, clivars>>
    BY <2>1 DEF SameMessage
  <2> QED BY <2>1, ConnectingCounts, MessageCounts DEF Client
<1>3. base' \in Nat /\ Sent' \in Nat /\ Sent' >= Sent /\ Sent \in Nat
  <2>1. CASE SameMessage
    <3>1. Sent' = Sent /\ base' = base
      BY <2>1 DEF SameMessage, Sent
    <3> QED BY <1>1, <3>1, SentGrows
  <2>2. CASE Done
    BY <1>1, <2>2, SentGrows
  <2> QED BY <1>2, <2>1, <2>2
<1>4. minor' \in Nat /\ left' \in Int
  <2>1. CASE Handshake
    BY <1>1, <2>1, HelloCounts
  <2>2. CASE HandleRFBServerMessage
    BY <1>1, <2>2, MessageCounts DEF hellovars
  <2>3. CASE InRead /\ UNCHANGED <<heard, asked, wire, base, clivars>>
    BY <1>1, <2>3 DEF clivars, hellovars
  <2>4. CASE Start \/ Connected \/ Fails
    BY <1>1, <2>4 DEF Start, Connected, Fails, hellovars
  <2> QED BY <2>1, <2>2, <2>3, <2>4 DEF Client
<1>5. arrived' = arrived
  <2>1. CASE InRead
    BY <2>1, ReadingStands
  <2>2. CASE ~InRead
    <3>1. (\E n \in Nat : Read(n)) \/ UNCHANGED rvars
      BY <2>2 DEF Called
    <3> QED BY <3>1, SameRead DEF rvars, netvars
  <2> QED BY <2>1, <2>2
<1> QED BY <1>1, <1>3, <1>4, <1>5 DEF Counts
--------------------------------------------------------------------------------
LEMMA SyncStarts == Init => SyncInv
<1> SUFFICES ASSUME Init PROVE SyncInv
  OBVIOUS
<1>1. ReaderInv /\ Types
  BY ClientStarts DEF ClientInv
<1>2. /\ cpc = "start" /\ base = 0 /\ wire = <<>> /\ heard = <<>> /\ srv = "greet"
      /\ choice = NoType /\ minor = 0 /\ left = 0
      /\ arrived = 0 /\ taken = 0 /\ buffered = 0 /\ rpc = "idle" /\ ok
  BY Zenon DEF Init, ReaderInit
<1>3. Returned /\ Consumed = base
  <2> DEFINE handed == IF rpc = "idle" /\ ok THEN 0 ELSE Len(out)
  <2>1. handed = 0 /\ Returned
    BY <1>2, Zenon DEF Returned
  <2>2. Consumed = taken - buffered - handed
    BY DEF Consumed
  <2> HIDE DEF handed
  <2> QED BY <1>2, <2>1, <2>2
<1>4. Sent = base
  BY <1>1, <1>2, SentGrows DEF Types
<1>5. Counts
  BY <1>2, <1>4 DEF Counts
<1>6. Standing
  BY <1>2, <1>3, HelloKinds DEF Standing
<1>7. Dialogue
  BY <1>2 DEF Dialogue, AtVersion, NothingAfter
<1> QED BY <1>5, <1>6, <1>7 DEF SyncInv

LEMMA ClientSyncs ==
    ASSUME ReaderInv, ClientInv, SyncInv, Client, UNCHANGED svrvars
    PROVE  SyncInv'
<1>1. Types /\ Counts /\ Standing /\ Dialogue /\ srv' = srv
  BY DEF ClientInv, SyncInv, svrvars
<1>2. Counts'
  BY <1>1, ClientCalls, ClientCounts DEF svrvars
<1>3. CASE InRead /\ UNCHANGED <<heard, asked, wire, base, clivars>>
  <2>1. Standing'
    BY <1>1, <1>3, InReadStands
  <2>2. Dialogue'
    BY <1>1, <1>3, DialogueSame DEF clivars, hellovars
  <2> QED BY <1>2, <2>1, <2>2 DEF SyncInv
<1>4. CASE Start \/ Handshake \/ Connected \/ Fails
  <2>1. Standing'
    BY <1>1, <1>4, ConnectingStands
  <2>2. Dialogue'
    <3>1. CASE Handshake
      BY <1>1, <3>1, HandshakeDialogue
    <3>2. CASE Start
      <4>1. UNCHANGED <<srv, heard, wire, minor, left, choice>>
        BY <1>1, <3>2 DEF Start, hellovars
      <4>2. cpc = "start" /\ cpc' = "version"
        BY <3>2 DEF Start, At, GoOn
      <4> QED BY <1>1, <4>1, <4>2, DialogueSame
    <3>3. CASE Connected \/ Fails
      <4>1. cpc' \in {"loop", "gone"}
        BY <3>3 DEF Connected, Fails, GiveUp
      <4>2. cpc' \notin Hello \cup {"start"}
        BY <4>1 DEF Hello
      <4> QED BY <4>2, DialogueOver
    <3> QED BY <1>4, <3>1, <3>2, <3>3
  <2> QED BY <1>2, <2>1, <2>2 DEF SyncInv
<1>5. CASE HandleRFBServerMessage
  <2>1. Standing'
    BY <1>1, <1>5, MessageStands, UpdateStands DEF HandleRFBServerMessage
  <2>2. cpc' \notin Hello \cup {"start"}
    BY <1>5, MessagePlaces
  <2> QED BY <1>2, <2>1, <2>2, DialogueOver DEF SyncInv
<1> QED BY <1>3, <1>4, <1>5 DEF Client

(* The server and the network: a message more, or bytes more.              *)
LEMMA OthersSync ==
    ASSUME ReaderInv, ClientInv, SyncInv,
           ServerHello \/ Serve \/ Deliver \/ Disconnect
    PROVE  SyncInv'
<1>1. /\ Types /\ Places /\ Counts /\ Standing /\ Dialogue
      /\ base \in Nat /\ wire \in Seq(Message)
      /\ minor \in Nat /\ left \in Int /\ arrived <= Sent /\ arrived \in Nat
  BY DEF ClientInv, Types, SyncInv, Counts, ReaderInv, ReaderTypeOK
<1>2. /\ UNCHANGED <<bufvars, callvars, base, clivars>>
      /\ UNCHANGED <<cpc, minor, left, choice>>
  BY DEF ServerHello, Serve, Deliver, Disconnect, Arrive, Close, rvars, clivars, hellovars
<1>3. \/ /\ UNCHANGED <<wire, heard, srv>>
         /\ Arrive(Sent) \/ arrived' = arrived
      \/ /\ arrived' = arrived
         /\ \E ms \in Seq(Message) : Send(ms) /\ (ServerHello \/ (srv = "serve" /\ srv' = srv))
  <2>1. CASE ServerHello
    <3>1. PICK ms \in Seq(Message) : Send(ms)
      BY <1>1, <2>1, HelloSends
    <3> QED BY <2>1, <3>1 DEF ServerHello, rvars, netvars
  <2>2. CASE Serve
    <3>1. PICK ms \in Seq(Message) : Send(ms)
      BY <2>2, ServeSends
    <3> QED BY <2>2, <3>1 DEF Serve, rvars, netvars
  <2>3. CASE Deliver \/ Disconnect
    BY <2>3 DEF Deliver, Disconnect, Close, svrvars
  <2> QED BY <2>1, <2>2, <2>3
<1>4. Standing'
  BY <1>1, <1>2, <1>3, OthersStand
<1>5. CASE UNCHANGED <<wire, heard, srv>> /\ (Arrive(Sent) \/ arrived' = arrived)
  <2>1. Sent' = Sent /\ Sent \in Nat
    BY <1>1, <1>2, <1>5, SentGrows DEF Sent
  <2>2. arrived' <= Sent
    BY <1>1, <1>5, <2>1 DEF Arrive
  <2>3. Counts'
    BY <1>1, <1>2, <2>1, <2>2 DEF Counts
  <2>4. Dialogue'
    BY <1>1, <1>2, <1>5, DialogueSame
  <2> QED BY <1>4, <2>3, <2>4 DEF SyncInv
<1>6. CASE /\ arrived' = arrived
           /\ \E ms \in Seq(Message) : Send(ms) /\ (ServerHello \/ (srv = "serve" /\ srv' = srv))
  <2>1. PICK ms \in Seq(Message) :
            Send(ms) /\ (ServerHello \/ (srv = "serve" /\ srv' = srv))
    BY <1>6
  <2>2. Sent' \in Nat /\ Sent' >= Sent /\ Sent \in Nat
    BY <1>1, <1>2, <2>1, SentGrows
  <2>3. Counts'
    BY <1>1, <1>2, <1>6, <2>2 DEF Counts
  <2>4. Dialogue'
    BY <1>1, <1>2, <2>1, HelloDialogue, ServeDialogue
  <2> QED BY <1>4, <2>3, <2>4 DEF SyncInv
<1> QED BY <1>3, <1>5, <1>6

LEMMA SyncStep ==
    ReaderInv /\ ClientInv /\ SyncInv /\ [Next]_vars => SyncInv'
<1> SUFFICES ASSUME ReaderInv, ClientInv, SyncInv, [Next]_vars
             PROVE  SyncInv'
  OBVIOUS
<1>1. CASE UNCHANGED vars
  <2>1. /\ UNCHANGED <<bufvars, callvars, base, clivars, wire, heard, srv, arrived>>
        /\ UNCHANGED <<cpc, minor, left, choice>>
    BY <1>1 DEF vars, rvars, netvars, svrvars, clivars, hellovars
  <2>2. Standing'
    BY <2>1, OthersStand DEF SyncInv, ClientInv
  <2>3. Dialogue'
    BY <2>1, DialogueSame DEF SyncInv
  <2>4. Counts'
    <3>1. Sent' = Sent
      BY <2>1 DEF Sent
    <3> QED BY <2>1, <3>1 DEF SyncInv, Counts
  <2> QED BY <2>2, <2>3, <2>4 DEF SyncInv
<1> QED BY <1>1, ClientSyncs, OthersSync DEF Next

(* Whatever the server answers, and in whatever pieces it arrives: between *)
(* two messages nothing is left over and nothing eaten of the next, and in *)
(* the handshake the client reads the very field the server has sent; only *)
(* the colour map puts it out of step, whose body the client leaves unread.*)
THEOREM StaysInSync == Spec => []InSync
<1>1. ReaderInv /\ ClientInv /\ SyncInv => InSync
  <2> SUFFICES ASSUME ReaderInv, ClientInv, SyncInv PROVE InSync
    OBVIOUS
  <2>1. /\ cpc = "loop" => \/ Consumed = base
                           \/ Cur.kind = "colours" /\ Consumed = base + 1
        /\ cpc = "astray" => Cur.kind = "colours"
    BY DEF SyncInv, Standing, LeftBody, Reading, Cur
  <2>2. cpc \in Hello /\ Returned => MessageAt(out[1]).kind = cpc
    BY HelloArrived DEF ClientInv, MessageAt
  <2> QED BY <2>1, <2>2 DEF InSync, Hello
<1> QED BY <1>1, SyncStarts, SyncStep, ClientIsRight, PTL DEF Spec
=============================================================================
