------------------------------ MODULE TouchScreen ------------------------------
(***************************************************************************)
(* The touch screen: the keyboard of OnScreenKeyboard.tla in front of the  *)
(* touch pad of TapGesture.tla, as uib_handle_event() (uibottom.c          *)
(* 1095-1197) shares the touches out.  A touch that belongs to the pad     *)
(* goes on to the gesture, which lives in the turns of main()'s loop; any  *)
(* other touch is the keyboard's, and the gesture sees only the clock.     *)
(***************************************************************************)
EXTENDS TapGesture

CONSTANTS Letter, Plain, ShiftKey, OtherSticky, CAPS, NoKey

VARIABLES kb_enabled, kb_activekey, sticky, process_touchpad, out, down,
          kbfinger        (* history: what the finger went down on         *)

Keyboard == INSTANCE OnScreenKeyboard WITH finger <- kbfinger

ASSUME KeysAssumption == Keyboard!KeyboardAssumption

keyboard == <<kb_enabled, kb_activekey, sticky, process_touchpad, out, down, kbfinger>>
touchvars == <<vars, keyboard>>

TouchInit == Init /\ Keyboard!Init

KeyboardStep(A) == A /\ down' = Keyboard!After(down, out')

PadTouch ==
    /\ KeyboardStep(Keyboard!DownOnPad \/ Keyboard!UpFromPad)
    /\ Touch

(* The keyboard's touches are no touches for the gesture.                  *)
KeyTouch ==
    /\ KeyboardStep(\/ \E k \in Keyboard!Key :
                          Keyboard!DownOnSticky(k) \/ Keyboard!DownOnKey(k)
                    \/ Keyboard!DownBetweenKeys
                    \/ Keyboard!UpIgnored \/ Keyboard!UpFromSticky
                    \/ Keyboard!UpFromKey)
    /\ NoTouch

(* checkconfig() shows or hides the keyboard at the end of a turn.         *)
EnableKeyboard ==
    /\ KeyboardStep(Keyboard!uib_enable_keyboard)
    /\ NoKeys

Untouched == NoTouch /\ UNCHANGED keyboard
Quiet == (Turn \/ SwitchTapHandling \/ NoKeys) /\ UNCHANGED keyboard

TouchNext == PadTouch \/ KeyTouch \/ EnableKeyboard \/ Untouched \/ Quiet

(* main() keeps turning its loop; the user need do nothing.                *)
Turning == Turn /\ UNCHANGED keyboard
Resting == (NoKeys \/ SwitchTapHandling) /\ UNCHANGED keyboard
TouchSpec ==
    /\ TouchInit /\ [][TouchNext]_touchvars
    /\ WF_touchvars(Turning)
    /\ WF_touchvars(Untouched \/ PadTouch \/ KeyTouch)
    /\ WF_touchvars(Resting \/ EnableKeyboard)
--------------------------------------------------------------------------------
(* What is pressed for whoever gets the key events is what the keyboard    *)
(* shows as pressed.                                                       *)
KeysBalanced == Keyboard!KeysBalanced

(* A modifier outlasts the key it modifies.                                *)
ModifiersOutlastKey == Keyboard!ModifiersOutlastKey

(* A touch is the keyboard's or the pad's from its beginning to its end,   *)
(* and keyboard and gesture agree on whose it is.                          *)
TouchIsWhole == Keyboard!TouchIsWhole /\ (process_touchpad <=> finger)
================================================================================
