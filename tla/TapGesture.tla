------------------------------ MODULE TapGesture ------------------------------
(***************************************************************************)
(* Taps on the touch screen become clicks of the left mouse button:        *)
(* uib_handle_tap_processing() of uibottom.c (lines 878-1087) and the part *)
(* of main()'s loop that calls it (main.c 1907-1941).  One turn of the     *)
(* loop is: recalculate taphandling, let the gesture see the clock, poll   *)
(* the touch screen, poll the buttons.  The touch screen changes at most   *)
(* once a turn, because the poll ends at the first empty queue.            *)
(***************************************************************************)
EXTENDS Integers

CONSTANTS TapTime,    (* ticks of every 250 ms timeout of get_timeout()     *)
          ClickTime,  (* ticks of its 100 ms timeout                        *)
          MaxElapse,  (* the most ticks between two looks at the clock      *)
          Switching   (* may the user switch tap handling off and on?       *)

ASSUME TapAssumption ==
    /\ TapTime \in Nat \ {0} /\ ClickTime \in Nat \ {0}
    /\ MaxElapse \in Nat \ {0}
    /\ Switching \in BOOLEAN

VARIABLES
    pc,            (* where the loop is: "tap", "touch", "keys"            *)
    status,        (* the TapState                                         *)
    timer,         (* ticks until `timeout`, 0 when it has passed and      *)
                   (* nobody has looked yet, -1 when it is not set         *)
    status2,       (* clicks still to be made up after a multiple tap:     *)
                   (* 2 press next, 1 release next                         *)
    mouse_state,   (* is the emulated button down?                         *)
    buttonMask,    (* the left button the server was last told             *)
    finger,        (* is the screen touched?                               *)
    taphandling,   (* are touches routed through the gesture?              *)
    owed           (* history: taps made, less presses of the button       *)

gesture == <<status, timer, status2, mouse_state, owed>>
vars == <<pc, gesture, buttonMask, finger, taphandling>>

TapState == {"START", "1", "MOVE", "2A", "2B", "SINGLETAP", "3", "DRAG"}

get_timeout(s) ==
    CASE s \in {"1", "3", "2A", "2B"} -> TapTime
      [] s = "SINGLETAP" -> ClickTime
      [] OTHER -> -1

(* set_tap_state(): some states press the button, some release it, the     *)
(* others leave it.                                                        *)
StartKeepsButton(s, before) ==              \* plausible bug: one state too few
    CASE s \in {"1", "2A", "2B", "MOUSEUP"} -> FALSE
      [] s \in {"3", "SINGLETAP", "MOUSEDOWN"} -> TRUE
      [] OTHER -> before

ButtonIn(s, before) ==
    CASE s \in {"START", "1", "2A", "2B", "MOUSEUP"} -> FALSE
      [] s \in {"3", "SINGLETAP", "MOUSEDOWN"} -> TRUE
      [] OTHER -> before

(* The state after one call, for an event ("DOWN", "UP", "none") and a     *)
(* timeout that has passed (late) or not.  A state reached by a timeout    *)
(* sees the event again.                                                   *)
ClickForgotten(s, ev, late) ==              \* plausible bug: no SINGLETAP
    CASE s = "START" /\ ev = "DOWN" -> "1"
      [] s = "1" /\ ev = "UP" -> "2A"
      [] s = "1" /\ ev # "UP" /\ late -> "MOVE"
      [] s = "2A" /\ ev = "DOWN" -> "3"
      [] s = "2A" /\ ev # "DOWN" /\ late -> "START"
      [] s = "MOVE" /\ ev = "UP" -> "START"
      [] OTHER -> s

LateReleaseIsTap(s, ev, late) ==            \* plausible bug: no restart
    CASE s \in {"START", "SINGLETAP"} /\ ev = "DOWN" -> "1"
      [] s = "1" /\ ev = "UP" -> "2A"
      [] s = "1" /\ ev # "UP" /\ late -> "MOVE"
      [] s = "2A" /\ ev = "DOWN" -> "3"
      [] s = "2A" /\ ev # "DOWN" /\ late -> "SINGLETAP"
      [] s = "SINGLETAP" /\ ev # "DOWN" /\ late -> "START"
      [] s = "MOVE" /\ ev = "UP" -> "START"
      [] OTHER -> s

After(s, ev, late) ==
    CASE s \in {"START", "SINGLETAP"} /\ ev = "DOWN" -> "1"
      [] s = "1" /\ late -> IF ev = "UP" THEN "START" ELSE "MOVE"
      [] s = "1" /\ ~late /\ ev = "UP" -> "2A"
      [] s \in {"2A", "2B"} /\ ev = "DOWN" -> "3"
      [] s = "2A" /\ ev # "DOWN" /\ late -> "SINGLETAP"
      [] s \in {"2B", "SINGLETAP"} /\ ev # "DOWN" /\ late -> "START"
      [] s = "3" /\ late -> IF ev = "UP" THEN "START" ELSE "DRAG"
      [] s = "3" /\ ~late /\ ev = "UP" -> "2B"
      [] s \in {"MOVE", "DRAG"} /\ ev = "UP" -> "START"
      [] OTHER -> s

Press(before, after) == IF after /\ ~before THEN 1 ELSE 0

Init ==
    /\ pc = "tap"
    /\ status = "START" /\ timer = -1 /\ status2 = 0
    /\ mouse_state = FALSE /\ buttonMask = FALSE
    /\ finger = FALSE
    /\ taphandling = TRUE
    /\ owed = 0
------------------------------------------------------------------------------
(* uib_handle_tap_processing(e), elapsed ticks after the last look at the  *)
(* clock; e is NULL ("none") once a turn.  The events it pushes are polled *)
(* in the same turn and passed to the server.                              *)
TapProcessing(ev, elapsed) ==
    LET up2 == IF ev # "none" \/ status2 = 0 THEN mouse_state
               ELSE ButtonIn(IF status2 = 2 THEN "MOUSEDOWN" ELSE "MOUSEUP", mouse_state)
        late == timer # -1 /\ timer <= elapsed
        s == After(status, ev, late)
        m == IF s = status THEN up2 ELSE ButtonIn(s, up2)
        tap == IF ev = "UP" /\ status \in {"1", "3"} /\ ~late THEN 1 ELSE 0
    IN  /\ status' = s
        /\ timer' = CASE s # status -> get_timeout(s)
                      [] s = status /\ (late \/ timer = -1) -> -1
                      [] OTHER -> timer - elapsed
        /\ status2' = CASE status = "2B" /\ s = "START" -> 2
                        [] OTHER -> IF ev = "none" /\ status2 > 0
                                    THEN status2 - 1 ELSE status2
        /\ mouse_state' = m
        /\ buttonMask' = IF m = mouse_state /\ up2 = mouse_state
                         THEN buttonMask ELSE m
        /\ owed' = owed + tap - Press(mouse_state, up2) - Press(up2, m)

(* With tap handling off the clock of the gesture runs on unobserved.      *)
ClockOnly(elapsed) ==
    /\ timer' = CASE timer <= 0 -> timer
                  [] timer \in 1 .. elapsed -> 0
                  [] OTHER -> timer - elapsed
    /\ UNCHANGED <<status, status2, mouse_state, owed, buttonMask>>

Turn ==
    /\ pc = "tap"
    /\ \E elapsed \in 1 .. MaxElapse :
          IF taphandling THEN TapProcessing("none", elapsed)
                         ELSE ClockOnly(elapsed)
    /\ pc' = "touch"
    /\ UNCHANGED <<finger, taphandling>>

(* The finger goes down or up, and uib_handle_event() gives the event to   *)
(* the gesture or, with tap handling off, to handleSDLEvent().             *)
Touch ==
    /\ pc = "touch"
    /\ finger' = ~finger
    /\ \E elapsed \in 0 .. MaxElapse :
          IF taphandling
          THEN TapProcessing(IF finger THEN "UP" ELSE "DOWN", elapsed)
          ELSE /\ buttonMask' = ~finger
               /\ UNCHANGED gesture
    /\ pc' = "keys"
    /\ UNCHANGED taphandling

NoTouch ==
    /\ pc = "touch"
    /\ pc' = "keys"
    /\ UNCHANGED <<gesture, buttonMask, finger, taphandling>>

(* The user's button for COM_TAPHANDLING, and the recalculation at the     *)
(* head of the loop that it asks for.                                      *)
SwitchTapHandling ==
    /\ pc = "keys"
    /\ Switching
    /\ taphandling' = ~taphandling
    /\ pc' = "tap"
    /\ UNCHANGED <<gesture, buttonMask, finger>>

NoKeys ==
    /\ pc = "keys"
    /\ pc' = "tap"
    /\ UNCHANGED <<gesture, buttonMask, finger, taphandling>>

Next == Turn \/ Touch \/ NoTouch \/ SwitchTapHandling \/ NoKeys

(* main() keeps turning its loop, and SDL_Flip() makes every turn take     *)
(* time; the user need do nothing.                                         *)
Spec ==
    /\ Init /\ [][Next]_vars
    /\ WF_vars(Turn) /\ WF_vars(NoTouch) /\ WF_vars(NoKeys)
------------------------------------------------------------------------------
TypeOK ==
    /\ pc \in {"tap", "touch", "keys"}
    /\ status \in TapState
    /\ timer \in -1 .. (IF TapTime > ClickTime THEN TapTime ELSE ClickTime)
    /\ status2 \in 0 .. 2
    /\ mouse_state \in BOOLEAN /\ buttonMask \in BOOLEAN
    /\ finger \in BOOLEAN /\ taphandling \in BOOLEAN
    /\ owed \in -1 .. 2

(* A drag has the button pressed from its first moment to its last, and at *)
(* rest or while the pointer only moves it is up: the clicks made up after *)
(* an earlier multiple tap never reach into the gesture that follows.      *)
ButtonFollows ==
    /\ status \in {"3", "DRAG"} => mouse_state
    /\ status \in {"START", "MOVE"} /\ status2 = 0 => ~mouse_state

(* The server is told as many presses as the user made taps, however the   *)
(* taps were grouped: none swallowed, none invented.                       *)
ClickPerTap == status \in {"START", "MOVE"} /\ status2 = 0 => owed = 0

(* Every tap is clicked in the end, if the gesture is given its turns.     *)
TapsAreClicked == owed > 0 ~> owed = 0 \/ ~taphandling
==============================================================================
