---------------------------- MODULE OnScreenKeyboard ----------------------------
(***************************************************************************)
(* The keyboard drawn on the touch screen: uib_handle_event() of uibottom.c*)
(* (lines 1095-1197).  A touch belongs to the keyboard or to the touch pad *)
(* around it; keys become SDL key events; modifiers stick until the next   *)
(* key is released.  The keyboard may be shown, hidden and moved while it  *)
(* is touched.                                                             *)
(***************************************************************************)
EXTENDS Integers, Sequences, SequencesExt

CONSTANTS Letter,      (* keys with a shifted symbol (shftkey # 0)         *)
          Plain,       (* keys without one                                 *)
          ShiftKey,    (* the sticky keys of 0x07 but for CAPS             *)
          OtherSticky, (* the other sticky keys                            *)
          CAPS,        (* sticky bit 1                                     *)
          NoKey        (* kb_activekey = -1                                *)

Sticky == ShiftKey \cup OtherSticky \cup {CAPS}
Key == Letter \cup Plain \cup Sticky

KeyboardAssumption ==
    /\ NoKey \notin Key
    /\ Letter \cap Plain = {} /\ (Letter \cup Plain) \cap Sticky = {}
    /\ CAPS \notin ShiftKey \cup OtherSticky
    /\ IsFiniteSet(Sticky)

VARIABLES
    kb_enabled,
    kb_activekey,     (* the key that is pressed, or NoKey                 *)
    sticky,           (* the sticky keys that are on                       *)
    process_touchpad, (* does the present touch belong to the touch pad?   *)
    finger,           (* history: what the finger went down on             *)
    out,              (* the key events the last call pushed               *)
    down              (* history: the symbols pressed and not released     *)

vars == <<kb_enabled, kb_activekey, sticky, process_touchpad, finger, out, down>>

(* What goes out for a key: its key, or its shftkey while a shift is on.   *)
Symbol(k, on) ==
    [key |-> k, shifted |-> k \in Letter /\ on \cap (ShiftKey \cup {CAPS}) # {}]
Event(sym, pressed) == [sym |-> sym, pressed |-> pressed]

(* What is down after the events: the last event of a symbol decides.      *)
After(d, events) ==
    LET Later(i) == {events[j].sym : j \in i + 1 .. Len(events)}
    IN  (d \ Later(0))
          \cup {events[i].sym : i \in {j \in DOMAIN events :
                    events[j].pressed /\ events[j].sym \notin Later(j)}}

Init ==
    /\ kb_enabled = FALSE
    /\ kb_activekey = NoKey /\ sticky = {}
    /\ process_touchpad = FALSE
    /\ finger = "up"
    /\ out = <<>> /\ down = {}
------------------------------------------------------------------------------
(* checkconfig() and the ends of sessions show and hide the keyboard.      *)
uib_enable_keyboard ==
    /\ kb_enabled' = ~kb_enabled
    /\ out' = <<>>
    /\ UNCHANGED <<kb_activekey, sticky, process_touchpad, finger>>

(* The finger goes down where the keyboard, as it is drawn now, has a key. *)
DownOnSticky(k) ==
    /\ finger = "up" /\ kb_enabled /\ k \in Sticky
    /\ finger' = "key"
    /\ kb_activekey' = k
    /\ sticky' = IF k \in sticky THEN sticky \ {k} ELSE sticky \cup {k}
    /\ out' = <<Event(Symbol(k, {}), k \notin sticky)>>
    /\ UNCHANGED <<kb_enabled, process_touchpad>>

DownOnKey(k) ==
    /\ finger = "up" /\ kb_enabled /\ k \in Letter \cup Plain
    /\ finger' = "key"
    /\ kb_activekey' = k
    /\ out' = <<Event(Symbol(k, sticky), TRUE)>>
    /\ UNCHANGED <<kb_enabled, sticky, process_touchpad>>

DownBetweenKeys ==
    /\ finger = "up" /\ kb_enabled
    /\ finger' = "gap"
    /\ out' = <<>>
    /\ UNCHANGED <<kb_enabled, kb_activekey, sticky, process_touchpad>>

(* The finger goes down above the keyboard, or there is none.              *)
DownOnPad ==
    /\ finger = "up"
    /\ finger' = "pad"
    /\ process_touchpad' = TRUE
    /\ out' = <<>>
    /\ UNCHANGED <<kb_enabled, kb_activekey, sticky>>

UpKeepsPad ==                               \* plausible bug: the flag not reset
    /\ finger # "up" /\ process_touchpad
    /\ finger' = "up"
    /\ out' = <<>>
    /\ UNCHANGED <<kb_enabled, kb_activekey, sticky, process_touchpad>>

UpFromPad ==
    /\ finger # "up" /\ process_touchpad
    /\ finger' = "up"
    /\ process_touchpad' = FALSE
    /\ out' = <<>>
    /\ UNCHANGED <<kb_enabled, kb_activekey, sticky>>

(* "did not get the button down, so ignore button up"                      *)
UpIgnored ==
    /\ finger # "up" /\ ~process_touchpad /\ kb_activekey = NoKey
    /\ finger' = "up"
    /\ out' = <<>>
    /\ UNCHANGED <<kb_enabled, kb_activekey, sticky, process_touchpad>>

UpFromSticky ==
    /\ finger # "up" /\ ~process_touchpad /\ kb_activekey \in Sticky
    /\ finger' = "up"
    /\ kb_activekey' = NoKey
    /\ out' = <<>>
    /\ UNCHANGED <<kb_enabled, sticky, process_touchpad>>

(* The key is released, and after it every sticky key but CAPS, one by     *)
(* one.                                                                    *)
Released == SetToSeq(sticky \ {CAPS})

ReleaseUnshifted(k) ==                      \* plausible bug: always the plain symbol
    <<Event(Symbol(k, {}), FALSE)>>
        \o [i \in DOMAIN Released |-> Event(Symbol(Released[i], {}), FALSE)]

ReleaseModifiersFirst(k) ==                 \* plausible bug: swapped order
    [i \in DOMAIN Released |-> Event(Symbol(Released[i], {}), FALSE)]
        \o <<Event(Symbol(k, sticky), FALSE)>>

ReleaseEvents(k) ==
    <<Event(Symbol(k, sticky), FALSE)>>
        \o [i \in DOMAIN Released |-> Event(Symbol(Released[i], {}), FALSE)]

UpFromKey ==
    /\ finger # "up" /\ ~process_touchpad /\ kb_activekey \in Letter \cup Plain
    /\ finger' = "up"
    /\ kb_activekey' = NoKey
    /\ sticky' = sticky \cap {CAPS}
    /\ out' = ReleaseEvents(kb_activekey)
    /\ UNCHANGED <<kb_enabled, process_touchpad>>

Up == UpFromPad \/ UpIgnored \/ UpFromSticky \/ UpFromKey

Call ==
    \/ uib_enable_keyboard
    \/ \E k \in Key : DownOnSticky(k) \/ DownOnKey(k)
    \/ DownBetweenKeys \/ DownOnPad
    \/ Up

Next == Call /\ down' = After(down, out')

Spec == Init /\ [][Next]_vars
------------------------------------------------------------------------------
AnySymbol == [key : Key, shifted : BOOLEAN]

TypeOK ==
    /\ kb_enabled \in BOOLEAN /\ process_touchpad \in BOOLEAN
    /\ kb_activekey \in Key \cup {NoKey}
    /\ sticky \subseteq Sticky
    /\ finger \in {"up", "key", "gap", "pad"}
    /\ \A i \in DOMAIN out : out[i] \in [sym : AnySymbol, pressed : BOOLEAN]
    /\ down \subseteq AnySymbol

(* What is pressed for whoever gets the events is what the keyboard shows  *)
(* as pressed: the sticky keys that are on, and the key under the finger   *)
(* by the symbol it was pressed with, whatever is switched meanwhile.      *)
KeysBalanced ==
    down = {Symbol(k, {}) : k \in sticky}
               \cup {Symbol(k, sticky) : k \in {kb_activekey} \ (Sticky \cup {NoKey})}

(* A modifier outlasts the key it modifies: when the key's release goes    *)
(* out, every modifier that is on is still pressed.                        *)
ModifiersOutlastKey ==
    [][\A i \in DOMAIN out' :
          out'[i].sym.key \in Letter \cup Plain =>
              {Symbol(k, {}) : k \in sticky} \subseteq After(down, SubSeq(out', 1, i))]_vars

(* A touch is the keyboard's or the touch pad's from its beginning to its  *)
(* end, also when the keyboard is hidden or shown in between.              *)
TouchIsWhole ==
    /\ process_touchpad <=> finger = "pad"
    /\ kb_activekey # NoKey <=> finger = "key"
=============================================================================
