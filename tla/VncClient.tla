------------------------------- MODULE VncClient -------------------------------
(***************************************************************************)
(* One VNC connection: rfb/rfbproto.c over the reader of rfb/sockets.c, as *)
(* rfb/vncviewer.c sets it up and the loop of main.c drives it.  The       *)
(* server, which is not in the repository, follows RFB 3.3 to 3.8 as the   *)
(* client reads it; what it sends arrives in pieces of any size.           *)
(* Sizes are scaled: a fixed field, a line of pixels and a text are one    *)
(* byte each.                                                              *)
(***************************************************************************)
EXTENDS RfbReader, Sums

CONSTANTS Minors,        (* 3.x versions a server may offer                *)
          TypeLists,     (* the lists of security types it may send        *)
          Heights,       (* the heights its screen may have                *)
          MaxSurface,    (* the 1024 of resize()                           *)
          LinesPerRead,  (* RFB_BUFFER_SIZE / bytesPerLine                 *)
          CutLengths,    (* the lengths of the texts it may send           *)
          MaxCutText,    (* the longest the client accepts                 *)
          UnknownLength, (* what is read after a type it does not know     *)
          MaxMessages    (* bound on the messages after it, by version       *)

SecurityTypes == {"none", "vnc", "ultra", "tight", "other"}

ASSUME ClientAssumption ==
    /\ Minors \subseteq Nat /\ Heights \subseteq Nat \ {0}
    /\ MaxSurface \in Nat \ {0}
    /\ LinesPerRead \in Nat \ {0} /\ UnknownLength \in Nat
    /\ CutLengths \subseteq Nat /\ MaxCutText \in Nat
    /\ MaxMessages \in [Minors -> Nat] /\ TypeLists \subseteq Seq(SecurityTypes)

VARIABLES
    srv,       (* the server: what it waits for, or "serve" or "done"      *)
    heard,     (* what the client wrote in the handshake, not read yet     *)
    screen,    (* the height of the server's screen                        *)
    asked,     (* update requests the server has not answered              *)
    wire,      (* the messages sent that the client is not done with       *)
    base,      (* the position of the first byte of wire[1]                *)
    count,     (* messages sent after the handshake                        *)
    cpc,       (* the client: what it is reading, or "loop", "gone" or     *)
               (* "astray": it reads a body for a message                  *)
    minor,     (* client->minor                                            *)
    left,      (* security types still to read                             *)
    choice,    (* authScheme                                               *)
    scales,    (* SupportsClient2Server(client, rfbSetScale)               *)
    rect,      (* i, the rectangle being handled                           *)
    lines,     (* h, its lines still to read                               *)
    height,    (* client->height                                           *)
    fb         (* the height client->frameBuffer is allocated for          *)

svrvars == <<srv, screen, count>>
hellovars == <<minor, left, choice, scales>>
rectvars == <<rect, lines>>
sizevars == <<height, fb>>
clivars == <<cpc, hellovars, rectvars, sizevars>>
vars == <<rvars, svrvars, heard, asked, wire, base, clivars>>

NoType == "0"
Supported == {"none", "vnc"}
--------------------------------------------------------------------------------
(* Messages: a kind, a word and a number; an update has rectangles.        *)

Msg(k, w, n) == [kind |-> k, word |-> w, n |-> n, rects |-> <<>>]
Field(k) == Msg(k, "", 0)
Update(rs) == [kind |-> "update", word |-> "", n |-> 0, rects |-> rs]
Rect(e, h) == [enc |-> e, h |-> h]

Payload(r) ==
    CASE r.enc = "raw" -> r.h
      [] r.enc \in {"copy", "cursor"} -> 1
      [] OTHER -> 0

RectBytes(rs) == [i \in DOMAIN rs |-> 1 + Payload(rs[i])]

SizeOf(m) ==
    CASE m.kind = "update" -> 2 + Sum(RectBytes(m.rects), Len(m.rects))
      [] m.kind = "cuttext" -> 2 + m.n
      [] m.kind \in {"resize", "colours"} -> 2
      [] OTHER -> 1

MessageBytes(ms) == [i \in DOMAIN ms |-> SizeOf(ms[i])]
Sent == base + Sum(MessageBytes(wire), Len(wire))

(* What the client finds at position p where it expects a message, and the *)
(* message it is reading.                                                  *)
Cur == IF wire # <<>> THEN Head(wire) ELSE Field("garbage")
MessageAt(p) == IF p = base THEN Cur ELSE Field("garbage")
Done == wire' = SubSeq(wire, 2, Len(wire)) /\ base' = base + SizeOf(Cur)
--------------------------------------------------------------------------------
Init ==
    /\ ReaderInit
    /\ srv = "greet" /\ heard = <<>> /\ asked = 0 /\ count = 0
    /\ screen \in Heights
    /\ wire = <<>> /\ base = 0
    /\ cpc = "start" /\ minor = 0 /\ left = 0
    /\ choice = NoType /\ scales = FALSE
    /\ rect = 0 /\ lines = 0
    /\ height = 0 /\ fb = 0
--------------------------------------------------------------------------------
(* The server's side of the handshake.                                     *)
Send(ms) == wire' = wire \o ms
Reason == <<Field("length"), Field("text")>>
Hears(w) == heard # <<>> /\ Head(heard) = w /\ heard' = Tail(heard)

Greet ==
    /\ srv = "greet" /\ UNCHANGED heard
    /\ \E v \in Minors : Send(<<Msg("version", "", v)>>)
    /\ srv' = "version"

(* Up to 3.6 the server decides on the type; from 3.7 on it sends a list,  *)
(* and an empty list is followed by the reason.                            *)
OfferTypes ==
    /\ srv = "version" /\ Hears("version") /\ minor > 6
    /\ \E ts \in TypeLists :
          /\ Send(<<Msg("count", "", Len(ts))>>
                  \o [i \in 1 .. Len(ts) |-> Msg("sectype", ts[i], 0)]
                  \o IF ts = <<>> THEN Reason ELSE <<>>)
          /\ srv' = IF ts = <<>> THEN "done" ELSE "type"

ImposeType ==
    /\ srv = "version" /\ Hears("version") /\ minor <= 6
    /\ \/ Send(<<Msg("scheme", "failed", 0)>> \o Reason) /\ srv' = "done"
       \/ Send(<<Msg("scheme", "none", 0)>>) /\ srv' = "clientinit"
       \/ Send(<<Msg("scheme", "vnc", 0), Field("challenge")>>) /\ srv' = "response"

Result ==
    \/ Send(<<Msg("result", "ok", 0)>>) /\ srv' = "clientinit"
    \/ /\ Send(<<Msg("result", "failed", 0)>> \o IF minor > 7 THEN Reason ELSE <<>>)
       /\ srv' = "done"
    \/ Send(<<Msg("result", "toomany", 0)>>) /\ srv' = "done"

TypeChosen ==
    /\ srv = "type" /\ Hears("type")
    /\ \/ choice # "none" /\ Send(<<Field("challenge")>>) /\ srv' = "response"
       \/ choice = "none" /\ minor > 7 /\ Result
       \/ choice = "none" /\ minor <= 7 /\ Send(<<>>) /\ srv' = "clientinit"

Checked == srv = "response" /\ Hears("response") /\ Result

Welcome ==
    /\ srv = "clientinit" /\ Hears("clientinit")
    /\ Send(<<Msg("init", "", screen), Field("name")>>)
    /\ srv' = "serve"

ServerHello ==
    /\ ~closed
    /\ Greet \/ OfferTypes \/ ImposeType \/ TypeChosen \/ Checked \/ Welcome
    /\ UNCHANGED <<rvars, screen, count, asked, base, clivars>>
--------------------------------------------------------------------------------
(* The server afterwards: it answers one request or all of them by an      *)
(* update; the other messages it sends when it likes.                      *)
Updates(s) ==
    { <<Rect("size", s), Rect("raw", s)>>, <<Rect("pos", 0), Rect("raw", s)>>,
      <<Rect("cursor", 0), Rect("copy", 1), Rect("last", 0)>> }

SendUpdate ==
    /\ asked > 0
    /\ asked' \in {0, asked - 1}
    /\ \E rs \in UNION {Updates(h) : h \in Heights} :
          /\ Send(<<Update(rs)>>)
          /\ screen' = IF rs[1].enc = "size" THEN rs[1].h ELSE screen

SendMessage ==
    /\ UNCHANGED asked
    /\ \/ \E m \in {Field("bell"), Field("colours"), Field("other")}
                   \cup {Msg("cuttext", "", n) : n \in CutLengths} :
              Send(<<m>>) /\ UNCHANGED screen
       \/ \E s \in Heights : Send(<<Msg("resize", "", s)>>) /\ screen' = s

Serve ==
    /\ srv = "serve" /\ ~closed
    /\ count < MaxMessages[minor]
    /\ count' = count + 1
    /\ SendUpdate \/ SendMessage
    /\ UNCHANGED <<rvars, srv, heard, base, clivars>>

Deliver ==
    /\ Arrive(Sent)
    /\ UNCHANGED <<svrvars, heard, asked, wire, base, clivars>>

(* A server that has refused the client closes.                            *)
Disconnect ==
    /\ Close
    /\ UNCHANGED <<svrvars, heard, asked, wire, base, clivars>>
--------------------------------------------------------------------------------
(* The client.  Each of its steps takes the answer of one read and goes to *)
(* the next one.                                                           *)
Returned == rpc = "idle" /\ ok
At(k) == cpc = k /\ Returned
GoOn(k, n) == cpc' = k /\ Read(n)
GiveUp == cpc' = "gone" /\ UNCHANGED rvars
Says(w) == heard' = Append(heard, w)
Silent == UNCHANGED heard

Start ==
    /\ At("start") /\ GoOn("version", 1)
    /\ UNCHANGED <<wire, base, heard, asked, hellovars, rectvars, sizevars>>

(* InitialiseRFBConnection(): a field of the handshake has been read.      *)
TypesFrom38 ==                            \* plausible bug: 3.7 read like 3.3
    /\ At("version") /\ minor' = Least(8, Cur.n) /\ scales' = FALSE
    /\ Says("version")
    /\ IF minor' > 7 THEN GoOn("count", 1) ELSE GoOn("scheme", 1)
    /\ UNCHANGED <<left, choice>>

GotVersion ==
    /\ At("version") /\ minor' = Least(8, Cur.n) /\ scales' = FALSE
    /\ Says("version")
    /\ IF minor' > 6 THEN GoOn("count", 1) ELSE GoOn("scheme", 1)
    /\ UNCHANGED <<left, choice>>

GotCount ==
    /\ At("count") /\ left' = Cur.n
    /\ IF left' = 0 THEN GoOn("length", 1) ELSE GoOn("sectype", 1)
    /\ UNCHANGED <<heard, minor, choice, scales>>

ClientInitSilently ==                     \* plausible bug: ClientInit not written
    Silent /\ GoOn("init", 1)

ClientInit == Says("clientinit") /\ GoOn("init", 1)

(* What follows the choice of a type that has been written already.        *)
Authenticate(t) ==
    IF t = "none" THEN GoOn("result", 1) ELSE GoOn("challenge", 1)

(* Each type is read to the end of the list; UltraVNC's and TightVNC's set  *)
(* anew which messages the server supports.                                *)
ChooseType ==
    /\ At("sectype") /\ left' = left - 1
    /\ choice' = IF choice = NoType /\ Cur.word \in Supported THEN Cur.word ELSE choice
    /\ scales' = (Cur.word = "ultra" \/ (scales /\ Cur.word # "tight"))
    /\ LET say == IF choice' # choice THEN <<"type">> ELSE <<>>
       IN  \/ left' > 0 /\ heard' = heard \o say /\ GoOn("sectype", 1)
           \/ left' = 0 /\ choice' = NoType /\ Silent /\ GiveUp
           \/ /\ left' = 0 /\ choice' = "none" /\ minor <= 7
              /\ heard' = heard \o say \o <<"clientinit">> /\ GoOn("init", 1)
           \/ /\ left' = 0 /\ choice' # NoType /\ ~(choice' = "none" /\ minor <= 7)
              /\ heard' = heard \o say /\ Authenticate(choice')
    /\ UNCHANGED minor

GotScheme ==
    /\ At("scheme") /\ choice' = Cur.word
    /\ \/ Cur.word = "failed" /\ Silent /\ GoOn("length", 1)
       \/ Cur.word = "none" /\ ClientInit
       \/ Cur.word = "vnc" /\ Silent /\ GoOn("challenge", 1)
    /\ UNCHANGED <<minor, left, scales>>

(* The password or the credentials may be missing.                         *)
GotChallenge ==
    /\ At("challenge")
    /\ \/ Says("response") /\ GoOn("result", 1)
       \/ Silent /\ GiveUp
    /\ UNCHANGED hellovars

GotResult ==
    /\ At("result")
    /\ \/ Cur.word = "ok" /\ ClientInit
       \/ Cur.word = "failed" /\ minor > 7 /\ Silent /\ GoOn("length", 1)
       \/ Cur.word = "failed" /\ minor <= 7 /\ Silent /\ GiveUp
       \/ Cur.word = "toomany" /\ Silent /\ GiveUp
    /\ UNCHANGED hellovars

GotReason ==
    /\ \/ At("length") /\ GoOn("text", 1)
       \/ At("text") /\ GiveUp
    /\ UNCHANGED <<heard, hellovars>>

GotInit ==
    /\ At("init") /\ GoOn("name", 1)
    /\ UNCHANGED <<heard, hellovars>>

Handshake ==
    /\ \/ GotVersion \/ GotCount \/ ChooseType \/ GotScheme \/ GotChallenge
       \/ GotResult \/ GotReason \/ GotInit
    /\ Done
    /\ height' = IF cpc = "init" THEN Cur.n ELSE height
    /\ UNCHANGED <<asked, rectvars, fb>>

(* MallocFrameBuffer() is resize() of main.c for the top screen: a server  *)
(* that can scale is asked to, and the surface has 1024 lines at most.     *)
Allocated(h) == IF scales THEN Least(h, MaxSurface) ELSE h

(* rfbInitConnection(): the frame buffer, the encodings, the first request.*)
Connected ==
    /\ At("name") /\ Done
    /\ \/ /\ cpc' = "loop" /\ fb' = Allocated(height) /\ asked' = asked + 1
          /\ UNCHANGED rvars
       \/ GiveUp /\ UNCHANGED <<fb, asked>>
    /\ UNCHANGED <<heard, hellovars, rectvars, height>>
--------------------------------------------------------------------------------
(* The loop of main(): WaitForMessage() asks the socket, not the buffer.   *)
Loop ==
    /\ At("loop")
    /\ Available > 0 \/ closed
    /\ GoOn("type", 1)
    /\ UNCHANGED <<wire, base, asked, rectvars, sizevars>>

EndMessage == cpc' = "loop" /\ Done /\ UNCHANGED rvars
SameMessage == UNCHANGED <<wire, base>>

(* The body of rfbSetColourMapEntries is left unread, and what is found in *)
(* the middle of a message is taken for a type: any message can be made of *)
(* it, and the model follows the client no further.                        *)
GotType ==
    /\ At("type")
    /\ LET k == MessageAt(out[1]).kind
       IN  \/ k = "bell" /\ EndMessage
           \/ k = "cuttext" /\ GoOn("cutlength", 1) /\ SameMessage
           \/ k = "resize" /\ GoOn("newsize", 1) /\ SameMessage
           \/ k = "update" /\ GoOn("rects", 1) /\ SameMessage
           \/ k = "colours" /\ cpc' = "loop" /\ SameMessage /\ UNCHANGED rvars
           \/ out[1] # base /\ cpc' = "astray" /\ SameMessage /\ UNCHANGED rvars
           \/ /\ out[1] = base
              /\ k \notin {"bell", "cuttext", "resize", "update", "colours"}
              /\ GoOn("unknown", UnknownLength) /\ SameMessage
    /\ UNCHANGED <<asked, rectvars, sizevars>>

GotUnknown ==
    /\ At("unknown") /\ GiveUp /\ SameMessage
    /\ UNCHANGED <<asked, rectvars, sizevars>>

GotCutLength ==
    /\ At("cutlength") /\ SameMessage
    /\ IF Cur.n > MaxCutText THEN GiveUp ELSE GoOn("cuttext", Cur.n)
    /\ UNCHANGED <<asked, rectvars, sizevars>>

GotCutText ==
    /\ At("cuttext") /\ EndMessage
    /\ UNCHANGED <<asked, rectvars, sizevars>>

(* MallocFrameBuffer() for the new size, and a request for all of it whose *)
(* answer is not looked at.  client->height stays what the server said.    *)
ResizeKeepsBuffer(h) ==                   \* plausible bug: the old frame buffer stays
    height' = h /\ UNCHANGED fb

Resize(h) == height' = h /\ fb' = Allocated(h)

NoMemory(h) ==
    height' = h /\ UNCHANGED <<fb, asked, rectvars>> /\ GiveUp /\ SameMessage

GotNewSize ==
    /\ At("newsize")
    /\ \/ Resize(Cur.n) /\ asked' = asked + 1 /\ EndMessage
       \/ NoMemory(Cur.n)
    /\ UNCHANGED rectvars

(* After the last rectangle the next update is asked for.                  *)
EndUpdateQuietly(asks) ==                 \* plausible bug: no request
    EndMessage /\ rect' = 0 /\ asked' = asked + asks

EndUpdate(asks) ==
    /\ \/ EndMessage /\ asked' = asked + asks + 1
       \/ closed /\ GiveUp /\ SameMessage /\ UNCHANGED asked
    /\ rect' = 0

ToRect(i, asks) ==
    \/ /\ i <= Len(Cur.rects)
       /\ rect' = i /\ asked' = asked + asks
       /\ GoOn("rect", 1) /\ SameMessage
    \/ i > Len(Cur.rects) /\ EndUpdate(asks)

GotRects ==
    /\ At("rects") /\ ToRect(1, 0)
    /\ UNCHANGED <<lines, sizevars>>

R == Cur.rects[rect]

GotPseudoRect ==
    /\ At("rect") /\ UNCHANGED lines
    /\ \/ R.enc = "last" /\ EndUpdate(0) /\ UNCHANGED sizevars
       \/ R.enc = "pos" /\ ToRect(rect + 1, 0) /\ UNCHANGED sizevars
       \/ R.enc = "size" /\ Resize(R.h) /\ ToRect(rect + 1, 1)
       \/ R.enc = "size" /\ NoMemory(R.h)

GotPixelRect ==
    /\ At("rect") /\ R.enc \in {"raw", "copy", "cursor"} /\ SameMessage
    /\ \/ R.h > height /\ GiveUp /\ UNCHANGED lines
       \/ /\ R.h <= height /\ R.enc = "raw"
          /\ lines' = R.h
          /\ GoOn("raw", Least(LinesPerRead, R.h))
       \/ R.h <= height /\ R.enc # "raw" /\ GoOn(R.enc, 1) /\ UNCHANGED lines
    /\ UNCHANGED <<rect, asked, sizevars>>

GotLines ==
    /\ At("raw") /\ lines' = lines - Len(out)
    /\ \/ /\ lines' > 0
          /\ GoOn("raw", Least(LinesPerRead, lines')) /\ SameMessage
          /\ UNCHANGED <<rect, asked>>
       \/ lines' = 0 /\ ToRect(rect + 1, 0)
    /\ UNCHANGED sizevars

GotPayload ==
    /\ At("copy") \/ At("cursor")
    /\ ToRect(rect + 1, 0)
    /\ UNCHANGED <<lines, sizevars>>

HandleRFBServerMessage ==
    /\ \/ Loop \/ GotType \/ GotUnknown \/ GotCutLength \/ GotCutText \/ GotNewSize
       \/ GotRects \/ GotPseudoRect \/ GotPixelRect \/ GotLines \/ GotPayload
    /\ UNCHANGED <<heard, hellovars>>

(* A read has returned FALSE, or a write fails: rfbClientCleanup().        *)
Fails ==
    /\ cpc \notin {"gone", "astray"} /\ ~ok
    /\ cpc' = "gone"
    /\ UNCHANGED <<rvars, wire, base, heard, asked, hellovars, rectvars, sizevars>>

Client ==
    \/ InRead /\ UNCHANGED <<heard, asked, wire, base, clivars>>
    \/ Start \/ Handshake \/ Connected \/ HandleRFBServerMessage \/ Fails

Next ==
    \/ ServerHello \/ Serve \/ Deliver \/ Disconnect
    \/ Client /\ UNCHANGED svrvars

(* The loop of main() goes round, the network delivers, and a server that  *)
(* has promised a message sends it.                                        *)
Fairness ==
    /\ WF_vars(Client /\ UNCHANGED svrvars)
    /\ WF_vars(Deliver)
    /\ WF_vars(ServerHello)
    /\ WF_vars(Disconnect /\ srv = "done")

Spec == Init /\ [][Next]_vars /\ Fairness
--------------------------------------------------------------------------------
(* Between two messages the client stands where a message begins: nothing  *)
(* of the last one is left unread and nothing of the next one is eaten;    *)
(* and in the handshake it reads the field the server sent.  Only          *)
(* rfbSetColourMapEntries puts it out of step, and what it reads astray    *)
(* is the body of that message.                                            *)
InSync ==
    /\ cpc = "loop" => \/ Consumed = base
                       \/ Cur.kind = "colours" /\ Consumed = base + 1
    /\ cpc = "astray" => Cur.kind = "colours"
    /\ cpc \in {"version", "count", "sectype", "scheme", "length", "text",
                "challenge", "result", "init", "name"} /\ Returned
           => MessageAt(out[1]).kind = cpc

(* A server that has answered all it was asked for has an update on its    *)
(* way: the client never waits for a server that waits to be asked.        *)
KeepsAsking ==
    cpc = "loop" => asked > 0 \/ \E i \in DOMAIN wire : wire[i].kind = "update"

(* Lines are only painted into a frame buffer that is high enough, with    *)
(* one exception: the surface was cut for a server that can scale, and the *)
(* rectangle, which is compared with the height the server named, passes.  *)
PaintsInside ==
    cpc = "raw" => /\ lines <= R.h
                   /\ \/ R.h <= fb
                      \/ scales /\ fb = MaxSurface /\ R.h <= height

(* The handshake comes to an end whatever the server decides, and so does  *)
(* the handling of a message: client and server do not wait for each other.*)
(* (After an unknown type the client waits for bytes nobody promised, and  *)
(* astray it reads what nobody meant.)                                     *)
ReadsEnd ==
    cpc \notin {"loop", "gone", "unknown", "astray"}
        ~> cpc \in {"loop", "gone", "unknown", "astray"}

(* "Waits for an RFB message to arrive": a message the client has received *)
(* is handled without the server having to send more.                      *)
ReceivedIsHandled == (cpc = "loop" /\ buffered > 0) ~> cpc # "loop"
================================================================================
