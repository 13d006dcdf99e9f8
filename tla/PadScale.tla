------------------------------- MODULE PadScale -------------------------------
(***************************************************************************)
(* How one axis of the C-Pad or the C-Stick becomes a number of a packet:  *)
(* dsu_server_transform() and its callers (dsu-server.c 350-357, 470-489)  *)
(* and vjoy_udp_client_transform() and its callers                         *)
(* (vjoy-udp-feeder-client.c 149-160, 245-272).                            *)
(***************************************************************************)
EXTENDS Integers

CONSTANTS Reach,       (* bound: readings are between -Reach and Reach     *)
          dead,        (* the dead zone, in the unit of the readings       *)
          max,         (* the greatest reading told apart                  *)
          thresh       (* the quantum, 0 for none                          *)

ASSUME ScaleAssumption ==
    /\ Reach \in Nat /\ thresh \in Nat
    /\ dead \in Nat /\ max \in Nat /\ dead < max

Reading == -Reach .. Reach
------------------------------------------------------------------------------
MagnitudeOf(r) == IF r < 0 THEN -r ELSE r

(* a % thresh: thresh is a u32, so a negative a becomes 2^32 + a first.    *)
UnsignedMod(r, t) ==
    IF r >= 0 THEN r % t ELSE ((65536 % t) * (65536 % t) + r) % t

Quantized(r) ==
    IF thresh = 0 THEN r
    ELSE IF r < 0 THEN r + UnsignedMod(r, thresh) ELSE r - UnsignedMod(r, thresh)

DeadZoned(r) == IF MagnitudeOf(r) < dead THEN 0 ELSE r
ClampedSwapped(r, m) == IF r > m THEN -m ELSE IF r < -m THEN m ELSE r
                                            \* plausible bug: signs exchanged
Clamped(r, m) == IF r > m THEN m ELSE IF r < -m THEN -m ELSE r

(* dsu_server_transform(a, dead, max, thresh)                              *)
dsu_server_transform(r) == Clamped(DeadZoned(Quantized(r)), max)

(* A stick's byte: plus rightward and upward, 128 = neutral.               *)
StickUncapped(r) == ((dsu_server_transform(r) + max) * 128) \div max
                                            \* plausible bug: i > 255 forgotten
StickByte(r) ==
    LET i == ((dsu_server_transform(r) + max) * 128) \div max
    IN  IF i > 255 THEN 255 ELSE i

(* vjoy_udp_client_transform(a, dead, max, thresh, 0x8000, 0), for a stick:*)
(* the dead zone is taken out of the range.                                *)
AxisMax == 32768

KeptDead(r) ==                              \* plausible bug: the dead zone stays in
    ((Clamped(DeadZoned(Quantized(r)), max) + max) * (AxisMax \div 2)) \div max

vjoy_udp_client_transform(r) ==
    LET m == max - dead
        q == Quantized(r)
        d == CASE MagnitudeOf(q) < dead -> 0
               [] MagnitudeOf(q) >= dead /\ q > 0 -> q - dead
               [] OTHER -> q + dead
    IN  ((Clamped(d, m) + m) * (AxisMax \div 2)) \div m
------------------------------------------------------------------------------
(* The byte of a stick fits in eight bits, and "128=neutral"               *)
(* (dsu-server.c:471) is sent exactly for the dead zone.                   *)
SticksFit ==
    \A r \in Reading :
        /\ StickByte(r) \in 0 .. 255
        /\ StickByte(r) = 128 <=> MagnitudeOf(r) < dead

(* "Valid value for Axis/Slider/Dial members are in range 0x0001 - 0x8000" *)
(* (vjoy-udp-feeder-client.c:19).  The axis keeps to that range with one   *)
(* exception: a stick pushed all the way to its lower end gives the 0 that *)
(* is not in it, and no other reading does.  The axis rests in the middle  *)
(* and does not jump at the edge of the dead zone: a unit of the reading   *)
(* never moves it back, and forth by at most a unit's share of the range,  *)
(* rounded up.                                                             *)
AxesNoJump ==
    LET Axis(r) == vjoy_udp_client_transform(r)
    IN  /\ Axis(0) = AxisMax \div 2
        /\ \A r \in Reading :
               /\ Axis(r) \in 0 .. AxisMax
               /\ Axis(r) = 0 <=> Quantized(r) <= -max
               /\ r < Reach =>
                      Axis(r + 1) - Axis(r) \in 0 .. (AxisMax \div 2) \div (max - dead) + 1
==============================================================================
