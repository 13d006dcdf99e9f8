------------------------------- MODULE PadFeed -------------------------------
(***************************************************************************)
(* How the state of the buttons and of the touch screen becomes packets:   *)
(* dsu_server_update() (dsu-server.c 359-551) and vjoy_udp_client_update() *)
(* (vjoy-udp-feeder-client.c 162-359) sample once per turn of main()'s     *)
(* loop, gather the samples, and once the interval has passed make one     *)
(* packet of them.  A sample is a set of buttons, KEY_TOUCH among them,    *)
(* and the reading of one axis; PadScale.tla says how the mean of the      *)
(* readings is scaled.                                                     *)
(***************************************************************************)
EXTENDS PadScale

CONSTANTS Button,       (* what hidKeysHeld() reports, KEY_TOUCH included  *)
          KEY_TOUCH,
          interval,     (* client->interval, in the unit of the clock      *)
          FrameTime,    (* how far the clock may move between two turns,   *)
          Setback,      (* or be set back                                  *)
          MaxSetbacks,  (* bound: how often it is set back                 *)
          Position,     (* the readings the axis takes                     *)
          IdMax         (* the greatest touch id, 255 for a u8             *)

ASSUME PadAssumption ==
    /\ KEY_TOUCH \in Button
    /\ interval \in Nat
    /\ FrameTime \subseteq Nat \ {0} /\ Setback \subseteq Nat
    /\ MaxSetbacks \in Nat
    /\ Position \subseteq Reading /\ Position # {}
    /\ IdMax \in Nat \ {0, 1}

VARIABLES
    but,          (* data.but: the buttons gathered since the last packet  *)
    sum,          (* data.posCp_x: the sum of the readings                 *)
    count,        (* samples gathered since the last packet                *)
    elapsed,      (* now - lastupdate; -1 before the first sample          *)
    laststate, lastid,     (* was the last packet a touch, and its id      *)
    report,       (* what the last packet said: buttons, touch id, and the *)
                  (* stick in the numbers of either protocol               *)
    setbacks,     (* how often the clock was set back                      *)
    held,         (* history: the last sample                              *)
    owed,         (* history: buttons pressed that no packet has shown yet *)
    touch,        (* history: the id the packets gave the present touch    *)
    low, high     (* history: the extremes of the packet's readings        *)

data == <<but, sum, count>>
ids == <<laststate, lastid>>
history == <<held, owed, touch, low, high>>
feedvars == <<data, elapsed, ids, report, setbacks, history>>

FeedInit ==
    /\ but = {} /\ sum = 0 /\ count = 0
    /\ elapsed = -1
    /\ laststate = FALSE /\ lastid = 0
    /\ report = [but |-> {}, id |-> 0, stick |-> StickByte(0),
                  axis |-> vjoy_udp_client_transform(0)]
    /\ setbacks = 0
    /\ held = {} /\ owed = {} /\ touch = 0 /\ low = 0 /\ high = 0
------------------------------------------------------------------------------
(* The gathering of one sample.                                            *)
GatheredLast(b) == b                        \* plausible bug: = for |=
Gathered(b) == but \cup b

(* do {++lastid;} while (!lastid), the id being a u8.                      *)
SuccId(id) == IF (id + 1) % (IdMax + 1) = 0 THEN 1 ELSE id + 1

(* The id of the packet's touch: a new one when the last packet had none.  *)
IdEachPacket(down) == IF down THEN SuccId(lastid) ELSE lastid
                                            \* plausible bug: laststate not looked at
IdOnce(down) == IF down /\ lastid = 0 THEN SuccId(lastid) ELSE lastid
                                            \* plausible bug: never a second id
NextId(down) == IF down /\ ~laststate THEN SuccId(lastid) ELSE lastid

(* The clock was read: enough time has passed, or it was set back and the  *)
(* unsigned difference is huge.                                            *)
Due(e) == e > interval \/ e < 0

(* One turn: the sample (b, x) is gathered, and no packet is made yet.     *)
Gather(b, x, e) ==
    /\ ~Due(e)
    /\ but' = Gathered(b)
    /\ sum' = sum + x /\ count' = count + 1
    /\ elapsed' = e
    /\ UNCHANGED <<ids, report>>

(* The mean of the readings: C divides towards zero.                       *)
MeanMiscounted(x) ==                        \* plausible bug: x is not counted
    LET s == sum + x
        n == IF count = 0 THEN 1 ELSE count
    IN  IF s < 0 THEN -(-s \div n) ELSE s \div n

Mean(x) ==
    LET s == sum + x
    IN  IF s < 0 THEN -(-s \div (count + 1)) ELSE s \div (count + 1)

(* One turn: the sample (b, x) is the last of a packet.                    *)
MakePacket(b, x, e) ==
    LET down == KEY_TOUCH \in Gathered(b)
    IN  /\ Due(e)
        /\ but' = {} /\ sum' = 0 /\ count' = 0
        /\ elapsed' = 0
        /\ lastid' = NextId(down)
        /\ laststate' = down
        /\ report' = [but |-> Gathered(b), id |-> IF down THEN NextId(down) ELSE 0,
                      stick |-> StickByte(Mean(x)),
                      axis |-> vjoy_udp_client_transform(Mean(x))]

(* What the history variables remember of a turn.                          *)
Remember(b, x) ==
    /\ held' = b
    /\ low' = IF count = 0 \/ x < low THEN x ELSE low
    /\ high' = IF count = 0 \/ x > high THEN x ELSE high
    /\ owed' = LET o == owed \cup (b \ held)
               IN  IF count' = 0 THEN o \ report'.but ELSE o
    /\ touch' = CASE KEY_TOUCH \notin b -> 0
                  [] KEY_TOUCH \in b /\ count' = 0 -> report'.id
                  [] OTHER -> touch

Update(b, x, t) ==
    LET e == IF elapsed = -1 THEN 0 ELSE elapsed + t
    IN  /\ Gather(b, x, e) \/ MakePacket(b, x, e)
        /\ Remember(b, x)

Forwards(b, x) ==
    \E t \in FrameTime : Update(b, x, t) /\ UNCHANGED setbacks

Backwards(b, x) ==
    /\ setbacks < MaxSetbacks
    /\ setbacks' = setbacks + 1
    /\ \E t \in Setback : Update(b, x, -t)

FeedNext ==
    \E b \in SUBSET Button, x \in Position : Forwards(b, x) \/ Backwards(b, x)

FeedSpec == FeedInit /\ [][FeedNext]_feedvars /\ WF_feedvars(FeedNext)
------------------------------------------------------------------------------
FeedTypeOK ==
    /\ but \subseteq Button /\ count \in Nat /\ sum \in -Reach * count .. Reach * count
    /\ elapsed \in -1 .. interval
    /\ laststate \in BOOLEAN /\ lastid \in 0 .. IdMax
    /\ report \in [but : SUBSET Button, id : 0 .. IdMax,
                   stick : 0 .. 255, axis : 0 .. AxisMax]
    /\ setbacks \in 0 .. MaxSetbacks
    /\ low \in Reading /\ high \in Reading
    /\ held \subseteq Button /\ owed \subseteq Button /\ touch \in 0 .. IdMax

(* However short a press is and however many samples make a packet, the    *)
(* next packet shows it: when a packet has been made, none is owed.        *)
NoPressLost == count = 0 => owed = {}

(* What a packet says of the stick lies between what the leftmost and what *)
(* the rightmost of its readings alone would say: taking the mean and      *)
(* scaling it keep the order.                                              *)
StickBetween ==
    count = 0 =>
        /\ report.stick \in StickByte(low) .. StickByte(high)
        /\ report.axis \in
               vjoy_udp_client_transform(low) .. vjoy_udp_client_transform(high)

(* The two protocols agree when the stick is neutral, and both scales are  *)
(* right for every reading, whatever the set Position.                     *)
ScalesRight ==
    /\ report.stick = 128 => report.axis = AxisMax \div 2
    /\ SticksFit /\ AxesNoJump

(* "Touch id (should be the same for one continious touch)"                *)
(* (dsu-server.c:500): while the finger stays on the screen the packets    *)
(* give the touch one id.                                                  *)
SameTouchSameId ==
    [][touch # 0 /\ touch' # 0 => touch' = touch]_feedvars

(* A touch the packets show as a new one, none in the packet before, gets  *)
(* an id, and another than the touch before, also where the ids wrap.      *)
NewTouchNewId ==
    [][count' = 0 /\ report.id = 0 /\ KEY_TOUCH \in report'.but =>
          report'.id \notin {0, lastid}]_feedvars
==============================================================================
