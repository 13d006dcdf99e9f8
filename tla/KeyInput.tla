-------------------------------- MODULE KeyInput --------------------------------
(***************************************************************************)
(* From the buttons of the console to the keys of the VNC servers: the key *)
(* part of handleSDLEvent() (main.c 684-818), the keymap of readkeymaps()  *)
(* (main.c 1658-1692), the buttons of map_joy_to_key() (main.c 454-525)    *)
(* and the simulated key repeat (uibottom.c 199-278).  A button means      *)
(* something else while shift is held, and again while the quick menu is   *)
(* shown; sessions come and go while buttons are held.                     *)
(***************************************************************************)
EXTENDS Integers

CONSTANTS Button,
          Symbol,         (* keys that are sent to a server                *)
          Unshifted, Shifted,   (* the two layers of the keymap as read    *)
          MenuCommand,    (* what a button means in the quick menu         *)
          None

Command == {"SHIFT", "QMENU", "DISCONNECT", "EVENTTARGET", "KEYSTOVNC", "OTHER"}

ASSUME KeyAssumption ==
    /\ Unshifted \in [Button -> Symbol \cup Command]
    /\ Shifted \in [Button -> Symbol \cup Command]
    /\ MenuCommand \in [Button -> Command \ {"SHIFT", "QMENU"}]
    /\ None \notin Button \cup Symbol /\ Symbol \cap Command = {}

VARIABLES
    session,       (* "none", "vnc" (two servers) or "feeds" (no server)   *)
    held,          (* the buttons the user holds                           *)
    shift, uib_qmenu_active,
    ctr_vnc_keys, eventtarget,   (* of config                              *)
    keydown,       (* the button that repeats                              *)
    repeat_state,
    server,        (* the symbols each server takes for pressed            *)
    by             (* history: what each button's press sent, and when     *)

repeat == <<keydown, repeat_state>>
meaning == <<shift, uib_qmenu_active, ctr_vnc_keys, eventtarget>>
vars == <<session, held, meaning, repeat, server, by>>

Target == {"top", "bottom"}
Nowhere == [t \in Target |-> {}]

Init ==
    /\ session = "none"
    /\ held = {}
    /\ shift = FALSE /\ uib_qmenu_active = FALSE
    /\ ctr_vnc_keys = FALSE /\ eventtarget = "top"
    /\ keydown = None /\ repeat_state = 0
    /\ server = Nowhere
    /\ by = [b \in Button |-> None]
------------------------------------------------------------------------------
(* readkeymaps() makes a shift button of one layer one of the other, too.  *)
KeymapAsRead(shifted, b) ==                 \* plausible bug: not validated
    IF shifted THEN Shifted[b] ELSE Unshifted[b]

Keymap(shifted, b) ==
    IF "SHIFT" \in {Unshifted[b], Shifted[b]} THEN "SHIFT"
    ELSE IF shifted THEN Shifted[b] ELSE Unshifted[b]

ReleasedUnshifted(b, pressed) ==            \* plausible bug: shift for presses only
    CASE uib_qmenu_active /\ pressed -> MenuCommand[b]
      [] uib_qmenu_active /\ ~pressed -> "OTHER"
      [] OTHER -> Keymap(shift /\ pressed, b)

(* What a key event means now; the menu swallows releases.                 *)
Meaning(b, pressed) ==
    CASE uib_qmenu_active /\ pressed -> MenuCommand[b]
      [] uib_qmenu_active /\ ~pressed -> "OTHER"
      [] OTHER -> Keymap(shift, b)

(* SendKeyEvent(), to the server that events go to.                        *)
Send(sym, pressed) ==
    server' = [server EXCEPT ![eventtarget] =
                  IF pressed THEN @ \cup {sym} ELSE @ \ {sym}]

(* The switch of handleSDLEvent(): command or symbol c.  Pressing any      *)
(* button closes the menu, but for the one that opens it.                  *)
Obey(b, c, pressed) ==
    /\ shift' = CASE c = "SHIFT" -> pressed
                  [] c = "DISCONNECT" -> FALSE
                  [] OTHER -> shift
    /\ uib_qmenu_active' = IF pressed THEN c = "QMENU" ELSE uib_qmenu_active
    /\ eventtarget' = IF c = "EVENTTARGET" /\ pressed /\ session = "vnc"
                      THEN CHOOSE t \in Target : t # eventtarget ELSE eventtarget
    /\ ctr_vnc_keys' = IF c = "KEYSTOVNC" /\ session = "vnc"
                       THEN ~ctr_vnc_keys ELSE ctr_vnc_keys
    /\ session' = IF c = "DISCONNECT" THEN "none" ELSE session
    /\ CASE c = "DISCONNECT" -> server' = Nowhere
         [] c \in Symbol /\ ctr_vnc_keys -> Send(c, pressed)
         [] OTHER -> UNCHANGED server
    /\ by' = CASE c \in Symbol /\ ctr_vnc_keys /\ pressed ->
                     [by EXCEPT ![b] = [sym |-> c, to |-> eventtarget, shift |-> shift]]
               [] OTHER -> by

(* Between sessions the other loops of main.c read the buttons.            *)
Handle(b, pressed) ==
    IF session = "none" THEN UNCHANGED <<session, meaning, server, by>>
    ELSE Obey(b, Meaning(b, pressed), pressed)
------------------------------------------------------------------------------
(* The user's buttons; make_key_event() starts and stops the repeat.       *)
Press(b) ==
    /\ b \notin held
    /\ held' = held \cup {b}
    /\ keydown' = b /\ repeat_state' = 0
    /\ Handle(b, TRUE)

ReleaseRepeats(b) ==                        \* plausible bug: the repeat goes on
    /\ b \in held
    /\ held' = held \ {b}
    /\ UNCHANGED repeat
    /\ Handle(b, FALSE)

Release(b) ==
    /\ b \in held
    /\ held' = held \ {b}
    /\ keydown' = None /\ repeat_state' = 0
    /\ Handle(b, FALSE)

(* checkKeyRepeat(), when the delay is over: after the first delay, and    *)
(* then every second time, comes a release, unless a server is connected;  *)
(* in between comes a press.                                               *)
ReleasesWhenRepeating(s) == TRUE            \* plausible bug: to servers, too
RepeatReleases(s) == s # "vnc"
NextRepeat(s) == IF s = 1 THEN 2 ELSE 1

CheckKeyRepeat ==
    /\ keydown # None
    /\ repeat_state' = NextRepeat(repeat_state)
    /\ IF repeat_state = 1 THEN Handle(keydown, TRUE)
       ELSE IF RepeatReleases(session) THEN Handle(keydown, FALSE)
       ELSE UNCHANGED <<session, meaning, server, by>>
    /\ UNCHANGED <<held, keydown>>

(* A session starts, with the switches that were saved, and the static     *)
(* variables as the last one left them; a session is lost.                 *)
StartSession ==
    /\ session = "none"
    /\ session' \in {"vnc", "feeds"}
    /\ ctr_vnc_keys' \in IF session' = "vnc" THEN BOOLEAN ELSE {FALSE}
    /\ eventtarget' \in Target
    /\ server' = Nowhere
    /\ by' = [b \in Button |-> None]
    /\ UNCHANGED <<held, shift, uib_qmenu_active, repeat>>

LoseSession ==
    /\ session # "none"
    /\ session' = "none"
    /\ server' = Nowhere
    /\ UNCHANGED <<held, meaning, repeat, by>>

Next ==
    \/ \E b \in Button : Press(b) \/ Release(b)
    \/ CheckKeyRepeat
    \/ StartSession \/ LoseSession

Spec == Init /\ [][Next]_vars
------------------------------------------------------------------------------
Sent == [sym : Symbol, to : Target, shift : BOOLEAN]

TypeOK ==
    /\ session \in {"none", "vnc", "feeds"}
    /\ held \subseteq Button
    /\ shift \in BOOLEAN /\ uib_qmenu_active \in BOOLEAN
    /\ ctr_vnc_keys \in BOOLEAN /\ eventtarget \in Target
    /\ keydown \in Button \cup {None} /\ repeat_state \in 0 .. 2
    /\ server \in [Target -> SUBSET Symbol]
    /\ by \in [Button -> Sent \cup {None}]

(* Only a button that is held repeats: no key goes on typing by itself,    *)
(* through menus, sessions and releases of other buttons.                  *)
RepeatsHeldButton == keydown # None => keydown \in held

(* "do not send keyup events for repeating when RFB connection is active"  *)
(* (uibottom.c:272): while its button is held and nothing else happens a   *)
(* server never sees a key go up.                                          *)
HeldStaysDown ==
    [][held' = held /\ session' = session =>
          \A t \in Target : server[t] \subseteq server'[t]]_vars

(* What can leave a key pressed at a server after its button was released: *)
(* that the menu was shown, keys were turned off, or shift or the event    *)
(* target had changed since the press; nothing else does.                  *)
Orphans(b) ==
    /\ by[b] # None
    /\ by[b].sym \in server'[by[b].to]
    /\ \A c \in held' : by[c] = None \/ by[c].sym # by[b].sym
KeysReleased ==
    [][\A b \in held \ held' :
          Orphans(b) => \/ uib_qmenu_active \/ ~ctr_vnc_keys
                        \/ by[b].shift # shift \/ by[b].to # eventtarget]_vars

(* During a session no release of a shift button is missed, although the   *)
(* menu swallows releases, provided that the menu is not in the shifted    *)
(* layer.                                                                  *)
ShiftReleased ==
    [][\A b \in held \ held' :
          session # "none" /\ Keymap(FALSE, b) = "SHIFT" => ~shift']_vars
==============================================================================
