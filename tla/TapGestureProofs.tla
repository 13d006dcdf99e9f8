---------------------------- MODULE TapGestureProofs ----------------------------
(***************************************************************************)
(* Proofs about the gesture of TapGesture.tla, for every length of the     *)
(* timeouts and however late the loop looks at the clock, alone and with   *)
(* the keyboard of TouchScreen.tla in front of it.                         *)
(***************************************************************************)
EXTENDS TouchScreen, Sequences, FiniteSetTheorems, TLAPS

(* While the clicks of a multiple tap are made up the next gesture has had *)
(* at most one touch: the last click is released before its second tap.    *)
MakingUp ==
    /\ status2 = 2 =>
          \/ status = "START"
          \/ status = "1" /\ (pc = "touch" => ~taphandling)
    /\ status2 = 1 =>
          \/ status \in {"START", "1", "MOVE"}
          \/ status = "2A" /\ (pc = "touch" => ~taphandling)

(* The button, state by state.                                             *)
ButtonInv ==
    /\ status \in {"3", "DRAG", "SINGLETAP"} => mouse_state
    /\ status \in {"2A", "2B"} => ~mouse_state
    /\ status \in {"START", "1", "MOVE"} /\ status2 # 1 => ~mouse_state

(* The taps not yet clicked: the one that just ended, and the one still to *)
(* be made up.                                                             *)
Unclicked(s, n) ==
    (IF s \in {"2A", "2B"} THEN 1 ELSE 0) + (IF n = 2 THEN 1 ELSE 0)
OwedInv == owed = Unclicked(status, status2)

GestureInv == TypeOK /\ MakingUp /\ ButtonInv /\ OwedInv
------------------------------------------------------------------------------
(* When the program starts nothing is tapped and nothing owed.             *)
LEMMA GestureInit == Init => GestureInv
  <1> SUFFICES ASSUME Init PROVE GestureInv
    OBVIOUS
  <1>1. TypeOK
    <2>1. timer \in -1 .. (IF TapTime > ClickTime THEN TapTime ELSE ClickTime)
      BY TapAssumption DEF Init
    <2>2. mouse_state \in BOOLEAN /\ buttonMask \in BOOLEAN
      BY DEF Init
    <2>3. finger \in BOOLEAN /\ taphandling \in BOOLEAN
      BY DEF Init
    <2>4. /\ status \in TapState /\ status2 \in 0 .. 2 /\ owed \in -1 .. 2
          /\ pc \in {"tap", "touch", "keys"}
      BY DEF Init, TapState
    <2> QED
      BY <2>1, <2>2, <2>3, <2>4 DEF TypeOK
  <1>2. MakingUp /\ ButtonInv /\ OwedInv
    BY DEF Init, MakingUp, ButtonInv, OwedInv, Unclicked
  <1> QED
    BY <1>1, <1>2 DEF GestureInv

(* Where a call leads: without an event, when the finger goes down, when   *)
(* it goes up.                                                             *)
LEMMA AfterNone ==
    ASSUME NEW late \in BOOLEAN
    PROVE  /\ After("START", "none", late) = "START"
           /\ After("1", "none", late) = IF late THEN "MOVE" ELSE "1"
           /\ After("MOVE", "none", late) = "MOVE"
           /\ After("2A", "none", late) = IF late THEN "SINGLETAP" ELSE "2A"
           /\ After("2B", "none", late) = IF late THEN "START" ELSE "2B"
           /\ After("SINGLETAP", "none", late) =
                  IF late THEN "START" ELSE "SINGLETAP"
           /\ After("3", "none", late) = IF late THEN "DRAG" ELSE "3"
           /\ After("DRAG", "none", late) = "DRAG"
  BY DEF After

(* When the finger goes down.                                              *)
LEMMA AfterDown ==
    ASSUME NEW late \in BOOLEAN
    PROVE  /\ After("START", "DOWN", late) = "1"
           /\ After("1", "DOWN", late) = IF late THEN "MOVE" ELSE "1"
           /\ After("MOVE", "DOWN", late) = "MOVE"
           /\ After("2A", "DOWN", late) = "3"
           /\ After("2B", "DOWN", late) = "3"
           /\ After("SINGLETAP", "DOWN", late) = "1"
           /\ After("3", "DOWN", late) = IF late THEN "DRAG" ELSE "3"
           /\ After("DRAG", "DOWN", late) = "DRAG"
  BY DEF After

(* When the finger goes up.                                                *)
LEMMA AfterUp ==
    ASSUME NEW late \in BOOLEAN
    PROVE  /\ After("START", "UP", late) = "START"
           /\ After("1", "UP", late) = IF late THEN "START" ELSE "2A"
           /\ After("MOVE", "UP", late) = "START"
           /\ After("2A", "UP", late) = IF late THEN "SINGLETAP" ELSE "2A"
           /\ After("2B", "UP", late) = IF late THEN "START" ELSE "2B"
           /\ After("SINGLETAP", "UP", late) =
                  IF late THEN "START" ELSE "SINGLETAP"
           /\ After("3", "UP", late) = IF late THEN "START" ELSE "2B"
           /\ After("DRAG", "UP", late) = "START"
  BY DEF After

(* Which states press the button, release it, leave it.                    *)
LEMMA ButtonIs ==
    ASSUME NEW b
    PROVE  /\ \A s \in {"START", "1", "2A", "2B", "MOUSEUP"} :
                  ButtonIn(s, b) = FALSE
           /\ \A s \in {"3", "SINGLETAP", "MOUSEDOWN"} : ButtonIn(s, b) = TRUE
           /\ \A s \in {"MOVE", "DRAG"} : ButtonIn(s, b) = b
  BY DEF ButtonIn

(* The button after the click that a call without an event makes up.       *)
MadeUp(ev) ==
    IF ev # "none" \/ status2 = 0 THEN mouse_state
    ELSE IF status2 = 2 THEN TRUE ELSE FALSE

(* What a call does, with its timeout passed (late) or not, after the      *)
(* button was made up (up).                                                *)
Called(ev, late, up) ==
    LET s == After(status, ev, late)
        m == IF s = status THEN up ELSE ButtonIn(s, up)
        tap == IF ev = "UP" /\ status \in {"1", "3"} /\ ~late THEN 1 ELSE 0
    IN  /\ status' = s
        /\ status2' = CASE status = "2B" /\ s = "START" -> 2
                        [] OTHER -> IF ev = "none" /\ status2 > 0
                                    THEN status2 - 1 ELSE status2
        /\ mouse_state' = m
        /\ owed' = owed + tap - Press(mouse_state, up) - Press(up, m)

(* A call of uib_handle_tap_processing() is such a step.                   *)
LEMMA CallIs ==
    ASSUME TypeOK, NEW ev \in {"DOWN", "UP", "none"}, NEW elapsed \in Nat,
           TapProcessing(ev, elapsed)
    PROVE  \E late \in BOOLEAN : Called(ev, late, MadeUp(ev))
  <1> DEFINE late == timer # -1 /\ timer <= elapsed
  <1>1. Called(ev, late, MadeUp(ev))
    BY ButtonIs DEF TapProcessing, Called, MadeUp, TypeOK
  <1> QED
    BY <1>1

(* The call without an event, once a turn.                                 *)
LEMMA NullCall ==
    ASSUME GestureInv, NEW late \in BOOLEAN,
           Called("none", late, MadeUp("none")),
           pc = "tap", pc' = "touch"
    PROVE  MakingUp' /\ ButtonInv' /\ OwedInv'
  <1> DEFINE up == MadeUp("none")
  <1>s. /\ status2 \in 0 .. 2 /\ mouse_state \in BOOLEAN /\ status \in TapState
        /\ owed \in Int
        /\ MakingUp /\ ButtonInv /\ OwedInv
    BY DEF GestureInv, TypeOK
  <1>u. /\ up \in BOOLEAN
        /\ status2 = 0 => up = mouse_state
        /\ status2 = 1 => up = FALSE
        /\ status2 = 2 => up = TRUE
    <2>1. up \in BOOLEAN
      BY <1>s DEF MadeUp
    <2>2. status2 = 0 => up = mouse_state
      BY DEF MadeUp
    <2>3. status2 = 1 => up = FALSE
      BY DEF MadeUp
    <2>4. status2 = 2 => up = TRUE
      BY DEF MadeUp
    <2> QED
      BY <2>1, <2>2, <2>3, <2>4
  <1> HIDE DEF up
  <1>1. status' = After(status, "none", late)
    BY DEF Called
  <1>2. mouse_state' = IF status' = status THEN up ELSE ButtonIn(status', up)
    BY <1>1 DEF Called, up
  <1>3. status2' = IF status = "2B" /\ status' = "START" THEN 2
                  ELSE IF status2 > 0 THEN status2 - 1 ELSE status2
    BY <1>1 DEF Called, up
  <1>4. owed' = owed - Press(mouse_state, up) - Press(up, mouse_state')
    BY <1>s, <1>1, <1>2 DEF Called, up, Press
  <1>5. CASE status = "START"
    <2>1. status' = "START"
      BY <1>5, <1>1, AfterNone
    <2>2. mouse_state' = up
      BY <2>1, <1>5, <1>2, ButtonIs
    <2> QED
      BY <2>1, <2>2, <1>5, <1>s, <1>u, <1>3, <1>4
      DEF Press, MakingUp, ButtonInv, OwedInv, Unclicked
  <1>6. CASE status = "1"
    <2>1. CASE late
      <3>1. status' = "MOVE"
        BY <2>1, <1>6, <1>1, AfterNone
      <3>2. mouse_state' = up
        BY <3>1, <1>6, <1>2, ButtonIs
      <3> QED
        BY <2>1, <3>1, <3>2, <1>6, <1>s, <1>u, <1>3, <1>4
        DEF Press, MakingUp, ButtonInv, OwedInv, Unclicked
    <2>2. CASE ~late
      <3>1. status' = "1"
        BY <2>2, <1>6, <1>1, AfterNone
      <3>2. mouse_state' = up
        BY <3>1, <1>6, <1>2, ButtonIs
      <3> QED
        BY <2>2, <3>1, <3>2, <1>6, <1>s, <1>u, <1>3, <1>4
        DEF Press, MakingUp, ButtonInv, OwedInv, Unclicked
    <2> QED
      BY <2>1, <2>2
  <1>7. CASE status = "MOVE"
    <2>1. status' = "MOVE"
      BY <1>7, <1>1, AfterNone
    <2>2. mouse_state' = up
      BY <2>1, <1>7, <1>2, ButtonIs
    <2> QED
      BY <2>1, <2>2, <1>7, <1>s, <1>u, <1>3, <1>4
      DEF Press, MakingUp, ButtonInv, OwedInv, Unclicked
  <1>8. CASE status = "2A"
    <2>1. CASE late
      <3>1. status' = "SINGLETAP"
        BY <2>1, <1>8, <1>1, AfterNone
      <3>2. mouse_state' = TRUE
        BY <3>1, <1>8, <1>2, ButtonIs
      <3> QED
        BY <2>1, <3>1, <3>2, <1>8, <1>s, <1>u, <1>3, <1>4
        DEF Press, MakingUp, ButtonInv, OwedInv, Unclicked
    <2>2. CASE ~late
      <3>1. status' = "2A"
        BY <2>2, <1>8, <1>1, AfterNone
      <3>2. mouse_state' = up
        BY <3>1, <1>8, <1>2, ButtonIs
      <3> QED
        BY <2>2, <3>1, <3>2, <1>8, <1>s, <1>u, <1>3, <1>4
        DEF Press, MakingUp, ButtonInv, OwedInv, Unclicked
    <2> QED
      BY <2>1, <2>2
  <1>9. CASE status = "2B"
    <2>1. CASE late
      <3>1. status' = "START"
        BY <2>1, <1>9, <1>1, AfterNone
      <3>2. mouse_state' = FALSE
        BY <3>1, <1>9, <1>2, ButtonIs
      <3> QED
        BY <2>1, <3>1, <3>2, <1>9, <1>s, <1>u, <1>3, <1>4
        DEF Press, MakingUp, ButtonInv, OwedInv, Unclicked
    <2>2. CASE ~late
      <3>1. status' = "2B"
        BY <2>2, <1>9, <1>1, AfterNone
      <3>2. mouse_state' = up
        BY <3>1, <1>9, <1>2, ButtonIs
      <3> QED
        BY <2>2, <3>1, <3>2, <1>9, <1>s, <1>u, <1>3, <1>4
        DEF Press, MakingUp, ButtonInv, OwedInv, Unclicked
    <2> QED
      BY <2>1, <2>2
  <1>10. CASE status = "SINGLETAP"
    <2>0. status2 = 0 /\ mouse_state = TRUE /\ up = TRUE /\ owed = 0
      <3>1. status2 = 0
        BY <1>10, <1>s DEF MakingUp
      <3>2. mouse_state = TRUE
        BY <1>10, <1>s DEF ButtonInv
      <3>3. owed = 0
        BY <3>1, <1>10, <1>s DEF OwedInv, Unclicked
      <3> QED
        BY <3>1, <3>2, <3>3, <1>u
    <2>1. CASE late
      <3>1. status' = "START"
        BY <2>1, <1>10, <1>1, AfterNone
      <3>2. mouse_state' = FALSE
        BY <3>1, <1>10, <1>2, ButtonIs
      <3> QED
        BY <2>0, <2>1, <3>1, <3>2, <1>10, <1>s, <1>u, <1>3, <1>4
        DEF Press, MakingUp, ButtonInv, OwedInv, Unclicked
    <2>2. CASE ~late
      <3>1. status' = "SINGLETAP"
        BY <2>2, <1>10, <1>1, AfterNone
      <3>2. mouse_state' = up
        BY <3>1, <1>10, <1>2, ButtonIs
      <3> QED
        BY <2>0, <2>2, <3>1, <3>2, <1>10, <1>s, <1>u, <1>3, <1>4
        DEF Press, MakingUp, ButtonInv, OwedInv, Unclicked
    <2> QED
      BY <2>1, <2>2
  <1>11. CASE status = "3"
    <2>0. status2 = 0 /\ mouse_state = TRUE /\ up = TRUE /\ owed = 0
      <3>1. status2 = 0
        BY <1>11, <1>s DEF MakingUp
      <3>2. mouse_state = TRUE
        BY <1>11, <1>s DEF ButtonInv
      <3>3. owed = 0
        BY <3>1, <1>11, <1>s DEF OwedInv, Unclicked
      <3> QED
        BY <3>1, <3>2, <3>3, <1>u
    <2>1. CASE late
      <3>1. status' = "DRAG"
        BY <2>1, <1>11, <1>1, AfterNone
      <3>2. mouse_state' = up
        BY <3>1, <1>11, <1>2, ButtonIs
      <3> QED
        BY <2>0, <2>1, <3>1, <3>2, <1>11, <1>s, <1>u, <1>3, <1>4
        DEF Press, MakingUp, ButtonInv, OwedInv, Unclicked
    <2>2. CASE ~late
      <3>1. status' = "3"
        BY <2>2, <1>11, <1>1, AfterNone
      <3>2. mouse_state' = up
        BY <3>1, <1>11, <1>2, ButtonIs
      <3> QED
        BY <2>0, <2>2, <3>1, <3>2, <1>11, <1>s, <1>u, <1>3, <1>4
        DEF Press, MakingUp, ButtonInv, OwedInv, Unclicked
    <2> QED
      BY <2>1, <2>2
  <1>12. CASE status = "DRAG"
    <2>0. status2 = 0 /\ mouse_state = TRUE /\ up = TRUE /\ owed = 0
      <3>1. status2 = 0
        BY <1>12, <1>s DEF MakingUp
      <3>2. mouse_state = TRUE
        BY <1>12, <1>s DEF ButtonInv
      <3>3. owed = 0
        BY <3>1, <1>12, <1>s DEF OwedInv, Unclicked
      <3> QED
        BY <3>1, <3>2, <3>3, <1>u
    <2>1. status' = "DRAG"
      BY <1>12, <1>1, AfterNone
    <2>2. mouse_state' = up
      BY <2>1, <1>12, <1>2, ButtonIs
    <2> QED
      BY <2>0, <2>1, <2>2, <1>12, <1>s, <1>u, <1>3, <1>4
      DEF Press, MakingUp, ButtonInv, OwedInv, Unclicked
  <1> QED
    BY <1>s, <1>5, <1>6, <1>7, <1>8, <1>9, <1>10, <1>11, <1>12 DEF TapState

(* The call when the finger goes down.                                     *)
LEMMA DownCall ==
    ASSUME GestureInv, NEW late \in BOOLEAN,
           Called("DOWN", late, MadeUp("DOWN")),
           pc = "touch", taphandling, pc' = "keys"
    PROVE  MakingUp' /\ ButtonInv' /\ OwedInv'
  <1>s. /\ status2 \in 0 .. 2 /\ mouse_state \in BOOLEAN /\ status \in TapState
        /\ owed \in Int
        /\ MakingUp /\ ButtonInv /\ OwedInv
    BY DEF GestureInv, TypeOK
  <1>u. MadeUp("DOWN") = mouse_state
    BY DEF MadeUp
  <1>1. status' = After(status, "DOWN", late)
    BY <1>u, <1>s DEF Called
  <1>2. mouse_state' = IF status' = status THEN mouse_state
                       ELSE ButtonIn(status', mouse_state)
    BY <1>u, <1>1 DEF Called
  <1>3. status2' = IF status = "2B" /\ status' = "START" THEN 2
                  ELSE status2
    BY <1>u, <1>1 DEF Called
  <1>4. owed' = owed - Press(mouse_state, mouse_state)
                     - Press(mouse_state, mouse_state')
    BY <1>u, <1>s, <1>1, <1>2 DEF Called, Press
  <1>5. CASE status = "START"
    <2>1. status' = "1"
      BY <1>5, <1>1, AfterDown
    <2>2. mouse_state' = FALSE
      BY <2>1, <1>5, <1>2, ButtonIs
    <2> QED
      BY <2>1, <2>2, <1>5, <1>s, <1>3, <1>4
      DEF Press, MakingUp, ButtonInv, OwedInv, Unclicked
  <1>6. CASE status = "1"
    <2>1. CASE late
      <3>1. status' = "MOVE"
        BY <2>1, <1>6, <1>1, AfterDown
      <3>2. mouse_state' = mouse_state
        BY <3>1, <1>6, <1>2, ButtonIs
      <3> QED
        BY <2>1, <3>1, <3>2, <1>6, <1>s, <1>3, <1>4
        DEF Press, MakingUp, ButtonInv, OwedInv, Unclicked
    <2>2. CASE ~late
      <3>1. status' = "1"
        BY <2>2, <1>6, <1>1, AfterDown
      <3>2. mouse_state' = mouse_state
        BY <3>1, <1>6, <1>2, ButtonIs
      <3> QED
        BY <2>2, <3>1, <3>2, <1>6, <1>s, <1>3, <1>4
        DEF Press, MakingUp, ButtonInv, OwedInv, Unclicked
    <2> QED
      BY <2>1, <2>2
  <1>7. CASE status = "MOVE"
    <2>1. status' = "MOVE"
      BY <1>7, <1>1, AfterDown
    <2>2. mouse_state' = mouse_state
      BY <2>1, <1>7, <1>2, ButtonIs
    <2> QED
      BY <2>1, <2>2, <1>7, <1>s, <1>3, <1>4
      DEF Press, MakingUp, ButtonInv, OwedInv, Unclicked
  <1>8. CASE status = "2A"
    <2>1. status' = "3"
      BY <1>8, <1>1, AfterDown
    <2>2. mouse_state' = TRUE
      BY <2>1, <1>8, <1>2, ButtonIs
    <2> QED
      BY <2>1, <2>2, <1>8, <1>s, <1>3, <1>4
      DEF Press, MakingUp, ButtonInv, OwedInv, Unclicked
  <1>9. CASE status = "2B"
    <2>1. status' = "3"
      BY <1>9, <1>1, AfterDown
    <2>2. mouse_state' = TRUE
      BY <2>1, <1>9, <1>2, ButtonIs
    <2> QED
      BY <2>1, <2>2, <1>9, <1>s, <1>3, <1>4
      DEF Press, MakingUp, ButtonInv, OwedInv, Unclicked
  <1>10. CASE status = "SINGLETAP"
    <2>1. status' = "1"
      BY <1>10, <1>1, AfterDown
    <2>2. mouse_state' = FALSE
      BY <2>1, <1>10, <1>2, ButtonIs
    <2> QED
      BY <2>1, <2>2, <1>10, <1>s, <1>3, <1>4
      DEF Press, MakingUp, ButtonInv, OwedInv, Unclicked
  <1>11. CASE status = "3"
    <2>1. CASE late
      <3>1. status' = "DRAG"
        BY <2>1, <1>11, <1>1, AfterDown
      <3>2. mouse_state' = mouse_state
        BY <3>1, <1>11, <1>2, ButtonIs
      <3> QED
        BY <2>1, <3>1, <3>2, <1>11, <1>s, <1>3, <1>4
        DEF Press, MakingUp, ButtonInv, OwedInv, Unclicked
    <2>2. CASE ~late
      <3>1. status' = "3"
        BY <2>2, <1>11, <1>1, AfterDown
      <3>2. mouse_state' = mouse_state
        BY <3>1, <1>11, <1>2, ButtonIs
      <3> QED
        BY <2>2, <3>1, <3>2, <1>11, <1>s, <1>3, <1>4
        DEF Press, MakingUp, ButtonInv, OwedInv, Unclicked
    <2> QED
      BY <2>1, <2>2
  <1>12. CASE status = "DRAG"
    <2>1. status' = "DRAG"
      BY <1>12, <1>1, AfterDown
    <2>2. mouse_state' = mouse_state
      BY <2>1, <1>12, <1>2, ButtonIs
    <2> QED
      BY <2>1, <2>2, <1>12, <1>s, <1>3, <1>4
      DEF Press, MakingUp, ButtonInv, OwedInv, Unclicked
  <1> QED
    BY <1>s, <1>5, <1>6, <1>7, <1>8, <1>9, <1>10, <1>11, <1>12 DEF TapState

(* The call when the finger goes up.                                       *)
LEMMA UpCall ==
    ASSUME GestureInv, NEW late \in BOOLEAN,
           Called("UP", late, MadeUp("UP")),
           pc = "touch", taphandling, pc' = "keys"
    PROVE  MakingUp' /\ ButtonInv' /\ OwedInv'
  <1>s. /\ status2 \in 0 .. 2 /\ mouse_state \in BOOLEAN /\ status \in TapState
        /\ owed \in Int
        /\ MakingUp /\ ButtonInv /\ OwedInv
    BY DEF GestureInv, TypeOK
  <1>u. MadeUp("UP") = mouse_state
    BY DEF MadeUp
  <1>1. status' = After(status, "UP", late)
    BY <1>u, <1>s DEF Called
  <1>2. mouse_state' = IF status' = status THEN mouse_state
                       ELSE ButtonIn(status', mouse_state)
    BY <1>u, <1>1 DEF Called
  <1>3. status2' = IF status = "2B" /\ status' = "START" THEN 2
                  ELSE status2
    BY <1>u, <1>1 DEF Called
  <1>4. owed' = owed + (IF status \in {"1", "3"} /\ ~late THEN 1 ELSE 0)
                     - Press(mouse_state, mouse_state)
                     - Press(mouse_state, mouse_state')
    BY <1>u, <1>s, <1>1, <1>2 DEF Called, Press
  <1>5. CASE status = "START"
    <2>1. status' = "START"
      BY <1>5, <1>1, AfterUp
    <2>2. mouse_state' = mouse_state
      BY <2>1, <1>5, <1>2, ButtonIs
    <2> QED
      BY <2>1, <2>2, <1>5, <1>s, <1>3, <1>4
      DEF Press, MakingUp, ButtonInv, OwedInv, Unclicked
  <1>6. CASE status = "1"
    <2>1. CASE late
      <3>1. status' = "START"
        BY <2>1, <1>6, <1>1, AfterUp
      <3>2. mouse_state' = FALSE
        BY <3>1, <1>6, <1>2, ButtonIs
      <3> QED
        BY <2>1, <3>1, <3>2, <1>6, <1>s, <1>3, <1>4
        DEF Press, MakingUp, ButtonInv, OwedInv, Unclicked
    <2>2. CASE ~late
      <3>1. status' = "2A"
        BY <2>2, <1>6, <1>1, AfterUp
      <3>2. mouse_state' = FALSE
        BY <3>1, <1>6, <1>2, ButtonIs
      <3> QED
        BY <2>2, <3>1, <3>2, <1>6, <1>s, <1>3, <1>4
        DEF Press, MakingUp, ButtonInv, OwedInv, Unclicked
    <2> QED
      BY <2>1, <2>2
  <1>7. CASE status = "MOVE"
    <2>1. status' = "START"
      BY <1>7, <1>1, AfterUp
    <2>2. mouse_state' = FALSE
      BY <2>1, <1>7, <1>2, ButtonIs
    <2> QED
      BY <2>1, <2>2, <1>7, <1>s, <1>3, <1>4
      DEF Press, MakingUp, ButtonInv, OwedInv, Unclicked
  <1>8. CASE status = "2A"
    <2>1. CASE late
      <3>1. status' = "SINGLETAP"
        BY <2>1, <1>8, <1>1, AfterUp
      <3>2. mouse_state' = TRUE
        BY <3>1, <1>8, <1>2, ButtonIs
      <3> QED
        BY <2>1, <3>1, <3>2, <1>8, <1>s, <1>3, <1>4
        DEF Press, MakingUp, ButtonInv, OwedInv, Unclicked
    <2>2. CASE ~late
      <3>1. status' = "2A"
        BY <2>2, <1>8, <1>1, AfterUp
      <3>2. mouse_state' = mouse_state
        BY <3>1, <1>8, <1>2, ButtonIs
      <3> QED
        BY <2>2, <3>1, <3>2, <1>8, <1>s, <1>3, <1>4
        DEF Press, MakingUp, ButtonInv, OwedInv, Unclicked
    <2> QED
      BY <2>1, <2>2
  <1>9. CASE status = "2B"
    <2>1. CASE late
      <3>1. status' = "START"
        BY <2>1, <1>9, <1>1, AfterUp
      <3>2. mouse_state' = FALSE
        BY <3>1, <1>9, <1>2, ButtonIs
      <3> QED
        BY <2>1, <3>1, <3>2, <1>9, <1>s, <1>3, <1>4
        DEF Press, MakingUp, ButtonInv, OwedInv, Unclicked
    <2>2. CASE ~late
      <3>1. status' = "2B"
        BY <2>2, <1>9, <1>1, AfterUp
      <3>2. mouse_state' = mouse_state
        BY <3>1, <1>9, <1>2, ButtonIs
      <3> QED
        BY <2>2, <3>1, <3>2, <1>9, <1>s, <1>3, <1>4
        DEF Press, MakingUp, ButtonInv, OwedInv, Unclicked
    <2> QED
      BY <2>1, <2>2
  <1>10. CASE status = "SINGLETAP"
    <2>1. CASE late
      <3>1. status' = "START"
        BY <2>1, <1>10, <1>1, AfterUp
      <3>2. mouse_state' = FALSE
        BY <3>1, <1>10, <1>2, ButtonIs
      <3> QED
        BY <2>1, <3>1, <3>2, <1>10, <1>s, <1>3, <1>4
        DEF Press, MakingUp, ButtonInv, OwedInv, Unclicked
    <2>2. CASE ~late
      <3>1. status' = "SINGLETAP"
        BY <2>2, <1>10, <1>1, AfterUp
      <3>2. mouse_state' = mouse_state
        BY <3>1, <1>10, <1>2, ButtonIs
      <3> QED
        BY <2>2, <3>1, <3>2, <1>10, <1>s, <1>3, <1>4
        DEF Press, MakingUp, ButtonInv, OwedInv, Unclicked
    <2> QED
      BY <2>1, <2>2
  <1>11. CASE status = "3"
    <2>1. CASE late
      <3>1. status' = "START"
        BY <2>1, <1>11, <1>1, AfterUp
      <3>2. mouse_state' = FALSE
        BY <3>1, <1>11, <1>2, ButtonIs
      <3> QED
        BY <2>1, <3>1, <3>2, <1>11, <1>s, <1>3, <1>4
        DEF Press, MakingUp, ButtonInv, OwedInv, Unclicked
    <2>2. CASE ~late
      <3>1. status' = "2B"
        BY <2>2, <1>11, <1>1, AfterUp
      <3>2. mouse_state' = FALSE
        BY <3>1, <1>11, <1>2, ButtonIs
      <3> QED
        BY <2>2, <3>1, <3>2, <1>11, <1>s, <1>3, <1>4
        DEF Press, MakingUp, ButtonInv, OwedInv, Unclicked
    <2> QED
      BY <2>1, <2>2
  <1>12. CASE status = "DRAG"
    <2>1. status' = "START"
      BY <1>12, <1>1, AfterUp
    <2>2. mouse_state' = FALSE
      BY <2>1, <1>12, <1>2, ButtonIs
    <2> QED
      BY <2>1, <2>2, <1>12, <1>s, <1>3, <1>4
      DEF Press, MakingUp, ButtonInv, OwedInv, Unclicked
  <1> QED
    BY <1>s, <1>5, <1>6, <1>7, <1>8, <1>9, <1>10, <1>11, <1>12 DEF TapState

(* What a call leaves of the types.                                        *)
LEMMA AfterType ==
    ASSUME NEW s \in TapState,
           NEW ev \in {"DOWN", "UP", "none"}, NEW late \in BOOLEAN
    PROVE  After(s, ev, late) \in TapState
  BY DEF After, TapState

(* The button stays a button.                                              *)
LEMMA ButtonType ==
    ASSUME NEW s \in TapState, NEW b \in BOOLEAN
    PROVE  ButtonIn(s, b) \in BOOLEAN
  BY DEF ButtonIn

(* No timeout is longer than the longest.                                  *)
LEMMA TimeoutType ==
    ASSUME NEW s \in TapState
    PROVE  get_timeout(s) \in
               -1 .. (IF TapTime > ClickTime THEN TapTime ELSE ClickTime)
  BY TapAssumption DEF get_timeout, TapState

(* A call keeps every variable in its range.                               *)
LEMMA CallTypes ==
    ASSUME TypeOK, NEW ev \in {"DOWN", "UP", "none"}, NEW elapsed \in Nat,
           TapProcessing(ev, elapsed)
    PROVE  /\ status' \in TapState
           /\ timer' \in -1 .. (IF TapTime > ClickTime THEN TapTime ELSE ClickTime)
           /\ status2' \in 0 .. 2
           /\ mouse_state' \in BOOLEAN /\ buttonMask' \in BOOLEAN
  <1>1. PICK late \in BOOLEAN : Called(ev, late, MadeUp(ev))
    BY CallIs
  <1>2. status' \in TapState
    BY <1>1, AfterType DEF Called, TypeOK
  <1>3. status2' \in 0 .. 2
    BY <1>1, <1>2 DEF Called, TypeOK
  <1>4. MadeUp(ev) \in BOOLEAN
    BY DEF MadeUp, TypeOK
  <1>5. mouse_state' = IF status' = status THEN MadeUp(ev)
                       ELSE ButtonIn(status', MadeUp(ev))
    BY <1>1 DEF Called
  <1>6. mouse_state' \in BOOLEAN
    BY <1>2, <1>4, <1>5, ButtonType
  <1>7. buttonMask' = buttonMask \/ buttonMask' = mouse_state'
    BY DEF TapProcessing
  <1>8. buttonMask' \in BOOLEAN
    BY <1>6, <1>7 DEF TypeOK
  <1>9. timer' \in -1 .. (IF TapTime > ClickTime THEN TapTime ELSE ClickTime)
    <2>1. CASE status' # status
      <3>1. timer' = get_timeout(status')
        BY <2>1 DEF TapProcessing
      <3> QED
        BY <3>1, <1>2, TimeoutType
    <2>2. CASE status' = status /\ timer # -1 /\ timer > elapsed
      <3>0. timer \in Int /\ ~(timer <= elapsed)
        BY <2>2, TapAssumption DEF TypeOK
      <3>1. timer' = timer - elapsed
        BY <3>0, <2>2 DEF TapProcessing
      <3> QED
        BY <3>1, <2>2, TapAssumption DEF TypeOK
    <2>3. CASE status' = status /\ ~(timer # -1 /\ timer > elapsed)
      <3>1. timer = -1 \/ timer <= elapsed
        BY <2>3 DEF TypeOK
      <3>2. timer' = -1
        BY <3>1, <2>3 DEF TapProcessing
      <3> QED
        BY <3>2, TapAssumption
    <2> QED
      BY <2>1, <2>2, <2>3
  <1> QED
    BY <1>2, <1>3, <1>6, <1>8, <1>9

(* A call of the gesture keeps the invariant, whichever call of the turn.  *)
LEMMA CallInv ==
    ASSUME GestureInv, NEW ev \in {"DOWN", "UP", "none"}, NEW elapsed \in Nat,
           TapProcessing(ev, elapsed),
           \/ ev = "none" /\ pc = "tap" /\ pc' = "touch"
           \/ ev # "none" /\ pc = "touch" /\ taphandling /\ pc' = "keys",
           finger' \in BOOLEAN, taphandling' \in BOOLEAN
    PROVE  GestureInv'
  <1>1. PICK late \in BOOLEAN : Called(ev, late, MadeUp(ev))
    BY CallIs DEF GestureInv
  <1>2. MakingUp' /\ ButtonInv' /\ OwedInv'
    <2>1. CASE ev = "none"
      BY <1>1, <2>1, NullCall
    <2>2. CASE ev = "DOWN"
      BY <1>1, <2>2, DownCall
    <2>3. CASE ev = "UP"
      BY <1>1, <2>3, UpCall
    <2> QED
      BY <2>1, <2>2, <2>3
  <1>3. owed' \in -1 .. 2
    BY <1>2 DEF OwedInv, Unclicked
  <1>4. /\ status' \in TapState
        /\ timer' \in -1 .. (IF TapTime > ClickTime THEN TapTime ELSE ClickTime)
        /\ status2' \in 0 .. 2
        /\ mouse_state' \in BOOLEAN /\ buttonMask' \in BOOLEAN
    BY CallTypes DEF GestureInv
  <1>5. pc' \in {"tap", "touch", "keys"}
    OBVIOUS
  <1> QED
    BY <1>2, <1>3, <1>4, <1>5 DEF GestureInv, TypeOK

(* A step that leaves the gesture's state but for the clock, and does not  *)
(* go from outside a turn with tap handling to inside one.                 *)
LEMMA IdleInv ==
    ASSUME GestureInv, UNCHANGED <<status, status2, mouse_state, owed>>,
           timer' \in -1 .. (IF TapTime > ClickTime THEN TapTime ELSE ClickTime),
           pc' \in {"tap", "touch", "keys"},
           buttonMask' \in BOOLEAN, finger' \in BOOLEAN, taphandling' \in BOOLEAN,
           pc' = "touch" /\ taphandling' => pc = "touch" /\ taphandling
    PROVE  GestureInv'
  <1>1. TypeOK'
    BY DEF GestureInv, TypeOK
  <1>2. MakingUp'
    BY DEF GestureInv, TypeOK, MakingUp
  <1>3. ButtonInv' /\ OwedInv'
    BY DEF GestureInv, ButtonInv, OwedInv
  <1> QED
    BY <1>1, <1>2, <1>3 DEF GestureInv

(* Every step of the loop keeps the invariant.                             *)
LEMMA NextGesture == GestureInv /\ [Next]_vars => GestureInv'
  <1> SUFFICES ASSUME GestureInv, [Next]_vars PROVE GestureInv'
    OBVIOUS
  <1>t. /\ pc \in {"tap", "touch", "keys"}
        /\ timer \in -1 .. (IF TapTime > ClickTime THEN TapTime ELSE ClickTime)
        /\ buttonMask \in BOOLEAN /\ finger \in BOOLEAN /\ taphandling \in BOOLEAN
    BY DEF GestureInv, TypeOK
  <1>1. ASSUME Turn PROVE GestureInv'
    <2>1. PICK elapsed \in 1 .. MaxElapse :
              IF taphandling THEN TapProcessing("none", elapsed)
                             ELSE ClockOnly(elapsed)
      BY <1>1 DEF Turn
    <2>2. /\ elapsed \in Nat /\ elapsed >= 1
          /\ pc = "tap" /\ pc' = "touch" /\ UNCHANGED <<finger, taphandling>>
      BY <1>1, TapAssumption DEF Turn
    <2>3. CASE taphandling
      BY <2>1, <2>2, <2>3, <1>t, CallInv
    <2>4. CASE ~taphandling
      <3>1. timer \in Int /\ timer >= -1
        BY <1>t, TapAssumption
      <3>2. CASE timer <= 0
        BY <3>2, <2>1, <2>2, <2>4, <1>t, IdleInv DEF ClockOnly
      <3>3. CASE timer \in 1 .. elapsed
        <4>1. timer' = 0
          BY <3>3, <2>1, <2>2, <2>4 DEF ClockOnly
        <4>2. timer' \in
                  -1 .. (IF TapTime > ClickTime THEN TapTime ELSE ClickTime)
          BY <4>1, TapAssumption
        <4> QED
          BY <4>2, <2>1, <2>2, <2>4, <1>t, IdleInv DEF ClockOnly
      <3>4. CASE timer > 0 /\ timer \notin 1 .. elapsed
        <4>1. timer' = timer - elapsed
          BY <3>1, <3>4, <2>1, <2>2, <2>4 DEF ClockOnly
        <4>2. timer' \in
                  -1 .. (IF TapTime > ClickTime THEN TapTime ELSE ClickTime)
          BY <4>1, <3>1, <3>4, <2>2, <1>t, TapAssumption
        <4> QED
          BY <4>2, <2>1, <2>2, <2>4, <1>t, IdleInv DEF ClockOnly
      <3> QED
        BY <3>1, <3>2, <3>3, <3>4
    <2> QED
      BY <2>3, <2>4
  <1>2. ASSUME Touch PROVE GestureInv'
    <2>1. PICK elapsed \in 0 .. MaxElapse :
              IF taphandling
              THEN TapProcessing(IF finger THEN "UP" ELSE "DOWN", elapsed)
              ELSE buttonMask' = ~finger /\ UNCHANGED gesture
      BY <1>2 DEF Touch
    <2>2. /\ elapsed \in Nat
          /\ pc = "touch" /\ pc' = "keys" /\ taphandling' = taphandling
          /\ finger' \in BOOLEAN
      BY <1>2, <1>t, TapAssumption DEF Touch
    <2>3. CASE taphandling
      <3>1. PICK ev \in {"DOWN", "UP"} : TapProcessing(ev, elapsed)
        BY <2>1, <2>3
      <3> QED
        BY <3>1, <2>2, <2>3, <1>t, CallInv
    <2>4. CASE ~taphandling
      <3>1. buttonMask' \in BOOLEAN
        BY <2>1, <2>4, <1>t
      <3> QED
        BY <3>1, <2>1, <2>2, <2>4, <1>t, IdleInv DEF gesture
    <2> QED
      BY <2>3, <2>4
  <1>3. ASSUME NoTouch PROVE GestureInv'
    BY <1>3, <1>t, IdleInv DEF NoTouch, gesture
  <1>4. ASSUME SwitchTapHandling PROVE GestureInv'
    <2>1. taphandling' \in BOOLEAN
      BY <1>4, <1>t DEF SwitchTapHandling
    <2> QED
      BY <2>1, <1>4, <1>t, IdleInv DEF SwitchTapHandling, gesture
  <1>5. ASSUME NoKeys PROVE GestureInv'
    BY <1>5, <1>t, IdleInv DEF NoKeys, gesture
  <1>6. ASSUME UNCHANGED vars PROVE GestureInv'
    BY <1>6, <1>t, IdleInv DEF vars, gesture
  <1> QED
    BY <1>1, <1>2, <1>3, <1>4, <1>5, <1>6 DEF Next

(* The invariant holds in every reachable state, and with it the types.    *)
THEOREM GestureInvariant == Spec => []GestureInv
  <1>1. Init => GestureInv
    BY GestureInit
  <1>2. GestureInv /\ [Next]_vars => GestureInv'
    BY NextGesture
  <1> QED
    BY <1>1, <1>2, PTL DEF Spec

(* However late the loop looks at the clock, a drag has the button pressed *)
(* from beginning to end and a pointer that only moves has it released.    *)
THEOREM ButtonFollowsGesture == Spec => []ButtonFollows
  <1>1. GestureInv => ButtonFollows
    BY DEF GestureInv, ButtonInv, ButtonFollows
  <1> QED
    BY <1>1, GestureInvariant, PTL

(* However late the loop looks at the clock, and whenever tap handling is  *)
(* switched off and on, there is one press for every tap.                  *)
THEOREM TapsAndClicksAgree == Spec => []ClickPerTap
  <1>1. GestureInv => ClickPerTap
    BY DEF GestureInv, OwedInv, Unclicked, ClickPerTap
  <1> QED
    BY <1>1, GestureInvariant, PTL

------------------------------------------------------------------------------
(* The keyboard in front of the gesture: all a touch on it changes of the  *)
(* gesture is the turn of the loop.                                        *)
LEMMA TouchIsGesture == TouchInit => Init
  BY DEF TouchInit

LEMMA TouchStepIsGesture == [TouchNext]_touchvars => [Next]_vars
  <1> SUFFICES ASSUME [TouchNext]_touchvars PROVE [Next]_vars
    OBVIOUS
  <1>1. CASE PadTouch
    BY <1>1 DEF PadTouch, Next
  <1>2. CASE KeyTouch
    BY <1>2 DEF KeyTouch, Next
  <1>3. CASE EnableKeyboard
    BY <1>3 DEF EnableKeyboard, Next
  <1>4. CASE Untouched
    BY <1>4 DEF Untouched, Next
  <1>5. CASE Quiet
    BY <1>5 DEF Quiet, Next
  <1>6. CASE UNCHANGED touchvars
    BY <1>6 DEF touchvars
  <1> QED
    BY <1>1, <1>2, <1>3, <1>4, <1>5, <1>6 DEF TouchNext

THEOREM TouchInvariant == TouchSpec => []GestureInv
  <1>1. Init => GestureInv
    BY GestureInit
  <1>2. GestureInv /\ [Next]_vars => GestureInv'
    BY NextGesture
  <1> QED
    BY <1>1, <1>2, TouchIsGesture, TouchStepIsGesture, PTL DEF TouchSpec

(* With the keyboard in front of the pad a drag still has the button       *)
(* pressed from beginning to end.                                          *)
THEOREM TouchFollowsGesture == TouchSpec => []ButtonFollows
  <1>1. GestureInv => ButtonFollows
    BY DEF GestureInv, ButtonInv, ButtonFollows
  <1> QED
    BY <1>1, TouchInvariant, PTL

(* And there is still one press for every tap on the pad.                  *)
THEOREM TouchesAndClicksAgree == TouchSpec => []ClickPerTap
  <1>1. GestureInv => ClickPerTap
    BY DEF GestureInv, OwedInv, Unclicked, ClickPerTap
  <1> QED
    BY <1>1, TouchInvariant, PTL

(* No touch changes hands: whatever is shown, hidden and pressed, it is    *)
(* the keyboard's or the pad's from its beginning to its end.              *)
FingerInv == TouchIsWhole /\ finger \in BOOLEAN

LEMMA FingerStep == FingerInv /\ [TouchNext]_touchvars => FingerInv'
  <1> SUFFICES ASSUME FingerInv, [TouchNext]_touchvars PROVE FingerInv'
    OBVIOUS
  <1> USE DEF FingerInv, TouchIsWhole, Keyboard!TouchIsWhole
  <1>1. CASE PadTouch
    <2>1. finger' = ~finger
      BY <1>1 DEF PadTouch, Touch
    <2>2. CASE Keyboard!DownOnPad
      BY <2>1, <2>2 DEF Keyboard!DownOnPad
    <2>3. CASE Keyboard!UpFromPad
      BY <2>1, <2>3 DEF Keyboard!UpFromPad
    <2> QED
      BY <1>1, <2>2, <2>3 DEF PadTouch, KeyboardStep
  <1>2. CASE KeyTouch
    <2>1. finger' = finger
      BY <1>2 DEF KeyTouch, NoTouch
    <2>2. ASSUME NEW k \in Keyboard!Key,
                 Keyboard!DownOnSticky(k) \/ Keyboard!DownOnKey(k)
          PROVE  FingerInv'
      <3>1. k # NoKey
        BY <2>2, KeysAssumption DEF Keyboard!KeyboardAssumption
      <3>2. /\ kbfinger = "up" /\ kbfinger' = "key" /\ kb_activekey' = k
            /\ process_touchpad' = process_touchpad
        BY <2>2 DEF Keyboard!DownOnSticky, Keyboard!DownOnKey
      <3> QED
        BY <2>1, <3>1, <3>2
    <2>3. CASE Keyboard!DownBetweenKeys
      BY <2>1, <2>3 DEF Keyboard!DownBetweenKeys
    <2>4. CASE Keyboard!UpIgnored
      BY <2>1, <2>4 DEF Keyboard!UpIgnored
    <2>5. CASE Keyboard!UpFromSticky
      BY <2>1, <2>5 DEF Keyboard!UpFromSticky
    <2>6. CASE Keyboard!UpFromKey
      BY <2>1, <2>6 DEF Keyboard!UpFromKey
    <2> QED
      BY <1>2, <2>2, <2>3, <2>4, <2>5, <2>6 DEF KeyTouch, KeyboardStep
  <1>3. CASE EnableKeyboard
    BY <1>3 DEF EnableKeyboard, KeyboardStep, Keyboard!uib_enable_keyboard, NoKeys
  <1>4. CASE Untouched
    BY <1>4 DEF Untouched, NoTouch, keyboard
  <1>5. CASE Quiet
    <2>1. UNCHANGED <<finger, keyboard>>
      BY <1>5 DEF Quiet, Turn, SwitchTapHandling, NoKeys
    <2> QED
      BY <2>1 DEF keyboard
  <1>6. CASE UNCHANGED touchvars
    BY <1>6 DEF touchvars, vars, keyboard
  <1> QED
    BY <1>1, <1>2, <1>3, <1>4, <1>5, <1>6 DEF TouchNext

THEOREM TouchKeepsOwner == TouchSpec => []TouchIsWhole
  <1>1. TouchInit => FingerInv
    BY DEF TouchInit, Init, Keyboard!Init, FingerInv, TouchIsWhole,
           Keyboard!TouchIsWhole
  <1>2. FingerInv => TouchIsWhole
    BY DEF FingerInv
  <1> QED
    BY <1>1, <1>2, FingerStep, PTL DEF TouchSpec
------------------------------------------------------------------------------
(* What the events of a call do to the symbols that are down: none, one,   *)
(* and any number of releases.                                             *)
LEMMA AfterNoEvents == ASSUME NEW d PROVE Keyboard!After(d, <<>>) = d
  BY DEF Keyboard!After

LEMMA AfterOneEvent ==
    ASSUME NEW d, NEW sym, NEW pressed \in BOOLEAN
    PROVE  Keyboard!After(d, <<Keyboard!Event(sym, pressed)>>) =
               IF pressed THEN d \cup {sym} ELSE d \ {sym}
  BY DEF Keyboard!After, Keyboard!Event

LEMMA AfterReleases ==
    ASSUME NEW d, NEW n \in Nat, NEW T, NEW events \in Seq(T), Len(events) = n,
           \A i \in 1 .. n : ~events[i].pressed
    PROVE  Keyboard!After(d, events) = d \ {events[i].sym : i \in 1 .. n}
  BY DEF Keyboard!After

(* The modifiers are all released, and each once.                          *)
LEMMA ReleasedAll ==
    ASSUME sticky \subseteq Keyboard!Sticky
    PROVE  /\ Keyboard!Released \in Seq(sticky \ {CAPS})
           /\ sticky \ {CAPS} =
                  {Keyboard!Released[i] : i \in 1 .. Len(Keyboard!Released)}
  <1> DEFINE S == sticky \ {CAPS}
             n == Cardinality(S)
             f == Keyboard!SetToSeq(S)
  <1>1. IsFiniteSet(S) /\ n \in Nat
    <2>1. S \subseteq Keyboard!Sticky /\ IsFiniteSet(Keyboard!Sticky)
      BY KeysAssumption
         DEF Keyboard!KeyboardAssumption, Keyboard!IsFiniteSet, IsFiniteSet
    <2> QED
      BY <2>1, FS_Subset, FS_CardinalityType
  <1>2. IsFiniteSet(1 .. n) /\ Cardinality(1 .. n) = n
    BY <1>1, FS_Interval
  <1>3. PICK g : g \in Bijection(1 .. n, S)
    BY <1>1, <1>2, FS_SameCardinalityBij DEF ExistsBijection
  <1>4. g \in [1 .. n -> S] /\ Keyboard!IsInjective(g)
    BY <1>3 DEF Bijection, Injection, IsInjective, Keyboard!IsInjective
  <1>5. f \in [1 .. n -> S] /\ Keyboard!IsInjective(f)
    <2>1. Keyboard!Cardinality(S) = n
      BY DEF Keyboard!Cardinality, Cardinality, Keyboard!IsFiniteSet, IsFiniteSet
    <2> QED
      BY <1>4, <2>1, Zenon DEF Keyboard!SetToSeq
  <1>6. f \in Injection(1 .. n, S)
    BY <1>5 DEF Injection, IsInjective, Keyboard!IsInjective
  <1>7. f \in Surjection(1 .. n, S)
    BY <1>1, <1>2, <1>6, FS_Injection
  <1>8. f \in Seq(S) /\ Len(f) = n
    <2> HIDE DEF f, n, S
    <2> QED
      BY <1>1, <1>5
  <1>9. S = {f[i] : i \in 1 .. n}
    BY <1>5, <1>7 DEF Surjection
  <1>10. Keyboard!Released = f
    BY DEF Keyboard!Released, f
  <1> QED
    BY <1>8, <1>9, <1>10

(* What a release of a key sends: that key, and the modifiers after it.    *)
LEMMA ReleaseIs ==
    ASSUME sticky \subseteq Keyboard!Sticky, NEW k \in Letter \cup Plain
    PROVE  /\ Keyboard!ReleaseEvents(k) \in
                  Seq([sym : [key : Keyboard!Key, shifted : BOOLEAN], pressed : {FALSE}])
           /\ {Keyboard!ReleaseEvents(k)[i].sym : i \in 1 .. Len(Keyboard!ReleaseEvents(k))}
                  = {Keyboard!Symbol(k, sticky)}
                        \cup {Keyboard!Symbol(j, {}) : j \in sticky \ {CAPS}}
           /\ Len(Keyboard!ReleaseEvents(k)) > 0
           /\ Keyboard!ReleaseEvents(k)[1] = Keyboard!Event(Keyboard!Symbol(k, sticky), FALSE)
           /\ \A i \in 2 .. Len(Keyboard!ReleaseEvents(k)) :
                  Keyboard!ReleaseEvents(k)[i].sym.key \in Keyboard!Sticky
  <1> DEFINE T == [sym : [key : Keyboard!Key, shifted : BOOLEAN], pressed : {FALSE}]
             rel == Keyboard!Released
             first == Keyboard!Event(Keyboard!Symbol(k, sticky), FALSE)
             rest == [i \in DOMAIN rel |->
                         Keyboard!Event(Keyboard!Symbol(rel[i], {}), FALSE)]
             e == <<first>> \o rest
  <1>1. /\ rel \in Seq(sticky \ {CAPS})
        /\ sticky \ {CAPS} = {rel[i] : i \in 1 .. Len(rel)}
    BY ReleasedAll
  <1>2. \A j \in Keyboard!Key, on \in SUBSET Keyboard!Sticky :
            /\ Keyboard!Event(Keyboard!Symbol(j, on), FALSE) \in T
            /\ Keyboard!Event(Keyboard!Symbol(j, on), FALSE).sym = Keyboard!Symbol(j, on)
            /\ Keyboard!Symbol(j, on).key = j
    BY DEF Keyboard!Event, Keyboard!Symbol
  <1>3. k \in Keyboard!Key /\ sticky \subseteq Keyboard!Key
    BY DEF Keyboard!Key
  <1> HIDE DEF rel, T
  <1>4. /\ rest \in Seq(T) /\ Len(rest) = Len(rel)
        /\ \A i \in 1 .. Len(rel) : /\ rest[i].sym = Keyboard!Symbol(rel[i], {})
                                    /\ rest[i].sym.key = rel[i]
                                    /\ rel[i] \in sticky \ {CAPS}
    <2>1. \A i \in 1 .. Len(rel) : rel[i] \in Keyboard!Key /\ rel[i] \in sticky \ {CAPS}
      BY <1>1, <1>3
    <2>2. Len(rel) \in Nat /\ DOMAIN rel = 1 .. Len(rel)
      BY <1>1
    <2>3. \A i \in 1 .. Len(rel) :
              /\ Keyboard!Event(Keyboard!Symbol(rel[i], {}), FALSE) \in T
              /\ Keyboard!Event(Keyboard!Symbol(rel[i], {}), FALSE).sym
                    = Keyboard!Symbol(rel[i], {})
              /\ Keyboard!Symbol(rel[i], {}).key = rel[i]
      BY <1>2, <2>1
    <2>4. \A i \in 1 .. Len(rel) :
              rest[i] = Keyboard!Event(Keyboard!Symbol(rel[i], {}), FALSE)
      BY <2>2
    <2>5. rest \in [1 .. Len(rel) -> T]
      BY <2>2, <2>3
    <2>6. rest \in Seq(T) /\ Len(rest) = Len(rel)
      <3> HIDE DEF rest
      <3> QED
        BY <2>2, <2>5
    <2> QED
      BY <2>1, <2>3, <2>4, <2>6
  <1>5. first \in T /\ first.sym = Keyboard!Symbol(k, sticky)
    BY <1>2, <1>3
  <1> HIDE DEF first, rest
  <1>6. /\ e \in Seq(T) /\ Len(e) = Len(rest) + 1 /\ e[1] = first
        /\ \A i \in 1 .. Len(rest) : e[i + 1] = rest[i]
    BY <1>4, <1>5
  <1> HIDE DEF e
  <1>7. \A i \in 2 .. Len(e) : i - 1 \in 1 .. Len(rest) /\ e[i] = rest[i - 1]
    <2>1. Len(rest) \in Nat
      BY <1>4
    <2>2. \A i \in 2 .. Len(e) : i - 1 \in 1 .. Len(rest) /\ i = (i - 1) + 1
      BY <1>6, <2>1
    <2> QED
      BY <1>6, <2>2
  <1>8. {e[i].sym : i \in 1 .. Len(e)} =
            {first.sym} \cup {rest[i].sym : i \in 1 .. Len(rest)}
    <2>1. Len(rest) \in Nat
      BY <1>4
    <2>2. \A i \in 1 .. Len(e) : i = 1 \/ i \in 2 .. Len(e)
      BY <1>6, <2>1
    <2>3. 1 \in 1 .. Len(e) /\ \A i \in 1 .. Len(rest) : i + 1 \in 1 .. Len(e)
      BY <1>6, <2>1
    <2> QED
      BY <1>6, <1>7, <2>2, <2>3
  <1>9. {rest[i].sym : i \in 1 .. Len(rest)} =
            {Keyboard!Symbol(j, {}) : j \in sticky \ {CAPS}}
    BY <1>1, <1>4
  <1>10. Len(e) > 0
    BY <1>4, <1>6
  <1>11. \A i \in 2 .. Len(e) : e[i].sym.key \in Keyboard!Sticky
    BY <1>4, <1>7
  <1>12. Keyboard!ReleaseEvents(k) = e
    BY DEF Keyboard!ReleaseEvents, e, first, rest, rel
  <1>13. e[1] = Keyboard!Event(Keyboard!Symbol(k, sticky), FALSE)
    BY <1>6 DEF first
  <1>14. {e[i].sym : i \in 1 .. Len(e)} =
            {Keyboard!Symbol(k, sticky)}
                \cup {Keyboard!Symbol(j, {}) : j \in sticky \ {CAPS}}
    BY <1>5, <1>8, <1>9
  <1>15. e \in Seq([sym : [key : Keyboard!Key, shifted : BOOLEAN], pressed : {FALSE}])
    BY <1>6 DEF T
  <1> QED
    BY <1>10, <1>11, <1>12, <1>13, <1>14, <1>15

(* What is down by the account of the keyboard: the modifiers that are on, *)
(* and the key under the finger.                                           *)
Modifiers(on) == {Keyboard!Symbol(k, {}) : k \in on}
UnderFinger(k, on) ==
    IF k \in Letter \cup Plain THEN {Keyboard!Symbol(k, on)} ELSE {}

KeyInv ==
    /\ FingerInv
    /\ kb_activekey \in Keyboard!Key \cup {NoKey}
    /\ sticky \subseteq Keyboard!Sticky
    /\ down = Modifiers(sticky) \cup UnderFinger(kb_activekey, sticky)

(* It is the account that the property gives.                              *)
LEMMA AccountIs ==
    ASSUME kb_activekey \in Keyboard!Key \cup {NoKey}
    PROVE  UnderFinger(kb_activekey, sticky) =
               {Keyboard!Symbol(k, sticky) :
                    k \in {kb_activekey} \ (Keyboard!Sticky \cup {NoKey})}
  <1>1. kb_activekey \in Letter \cup Plain
            <=> kb_activekey \notin Keyboard!Sticky \cup {NoKey}
    BY KeysAssumption DEF Keyboard!KeyboardAssumption, Keyboard!Key
  <1> QED
    BY <1>1 DEF UnderFinger

(* Symbols of different keys differ.                                       *)
LEMMA SymbolIs ==
    /\ \A k, on : Keyboard!Symbol(k, on).key = k
    /\ \A j, k, on1, on2 :
          Keyboard!Symbol(j, on1) = Keyboard!Symbol(k, on2) => j = k
  <1>1. \A k, on : Keyboard!Symbol(k, on).key = k
    BY DEF Keyboard!Symbol
  <1> QED
    BY <1>1

(* A modifier comes and goes alone.                                        *)
LEMMA ModifierToggles ==
    ASSUME NEW on, NEW k
    PROVE  /\ Modifiers(on \cup {k}) = Modifiers(on) \cup {Keyboard!Symbol(k, {})}
           /\ Modifiers(on \ {k}) = Modifiers(on) \ {Keyboard!Symbol(k, {})}
  <1>1. Modifiers(on \cup {k}) = Modifiers(on) \cup {Keyboard!Symbol(k, {})}
    BY DEF Modifiers
  <1>2. ASSUME NEW j \in on, j # k
        PROVE  Keyboard!Symbol(j, {}) # Keyboard!Symbol(k, {})
    BY <1>2, SymbolIs
  <1>3. Modifiers(on \ {k}) = Modifiers(on) \ {Keyboard!Symbol(k, {})}
    BY <1>2 DEF Modifiers
  <1> QED
    BY <1>1, <1>3

LEMMA SymbolsOfKeys ==
    ASSUME NEW on \in SUBSET Keyboard!Sticky, NEW k \in Letter \cup Plain
    PROVE  /\ k \notin Keyboard!Sticky
           /\ Keyboard!Symbol(k, on) \notin Modifiers(Keyboard!Sticky)
  <1>1. k \notin Keyboard!Sticky
    BY KeysAssumption DEF Keyboard!KeyboardAssumption
  <1> QED
    BY <1>1, SymbolIs DEF Modifiers

(* The finger goes down on a modifier, on a key, and up from a key.        *)
LEMMA DownOnStickyStep ==
    ASSUME KeyInv, NEW k, Keyboard!DownOnSticky(k), down' = Keyboard!After(down, out')
    PROVE  down' = Modifiers(sticky') \cup UnderFinger(kb_activekey', sticky')
  <1>1. kb_activekey = NoKey /\ UnderFinger(kb_activekey, sticky) = {}
    BY KeysAssumption
       DEF KeyInv, FingerInv, TouchIsWhole, Keyboard!TouchIsWhole,
           Keyboard!DownOnSticky, UnderFinger, Keyboard!KeyboardAssumption, Keyboard!Key
  <1>2. UnderFinger(kb_activekey', sticky') = {}
    BY KeysAssumption
       DEF Keyboard!DownOnSticky, UnderFinger, Keyboard!KeyboardAssumption
  <1>3. down' = IF k \notin sticky THEN Modifiers(sticky) \cup {Keyboard!Symbol(k, {})}
                ELSE Modifiers(sticky) \ {Keyboard!Symbol(k, {})}
    <2>1. out' = <<Keyboard!Event(Keyboard!Symbol(k, {}), k \notin sticky)>>
      BY DEF Keyboard!DownOnSticky
    <2>2. down = Modifiers(sticky)
      BY <1>1 DEF KeyInv
    <2>3. (k \notin sticky) \in BOOLEAN
      OBVIOUS
    <2> QED
      BY <2>1, <2>2, <2>3, AfterOneEvent
  <1> QED
    BY <1>2, <1>3, ModifierToggles DEF Keyboard!DownOnSticky

LEMMA DownOnKeyStep ==
    ASSUME KeyInv, NEW k, Keyboard!DownOnKey(k), down' = Keyboard!After(down, out')
    PROVE  down' = Modifiers(sticky') \cup UnderFinger(kb_activekey', sticky')
  <1>1. UnderFinger(kb_activekey, sticky) = {}
    BY KeysAssumption
       DEF KeyInv, FingerInv, TouchIsWhole, Keyboard!TouchIsWhole,
           Keyboard!DownOnKey, UnderFinger, Keyboard!KeyboardAssumption, Keyboard!Key
  <1>2. out' = <<Keyboard!Event(Keyboard!Symbol(k, sticky), TRUE)>>
    BY DEF Keyboard!DownOnKey
  <1>3. down' = Modifiers(sticky) \cup {Keyboard!Symbol(k, sticky)}
    <2>1. down = Modifiers(sticky)
      BY <1>1 DEF KeyInv
    <2>2. Keyboard!After(down, <<Keyboard!Event(Keyboard!Symbol(k, sticky), TRUE)>>)
              = down \cup {Keyboard!Symbol(k, sticky)}
      BY AfterOneEvent
    <2> QED
      BY <1>2, <2>1, <2>2
  <1> QED
    BY <1>3 DEF Keyboard!DownOnKey, UnderFinger

LEMMA UpFromKeyStep ==
    ASSUME KeyInv, Keyboard!UpFromKey, down' = Keyboard!After(down, out')
    PROVE  down' = Modifiers(sticky') \cup UnderFinger(kb_activekey', sticky')
  <1> DEFINE k == kb_activekey
             e == Keyboard!ReleaseEvents(k)
  <1>1. /\ k \in Letter \cup Plain /\ sticky \subseteq Keyboard!Sticky
        /\ out' = e /\ sticky' = sticky \cap {CAPS} /\ kb_activekey' = NoKey
        /\ down = Modifiers(sticky) \cup {Keyboard!Symbol(k, sticky)}
    BY DEF Keyboard!UpFromKey, KeyInv, UnderFinger
  <1>2. /\ e \in Seq([sym : [key : Keyboard!Key, shifted : BOOLEAN], pressed : {FALSE}])
        /\ {e[i].sym : i \in 1 .. Len(e)} =
              {Keyboard!Symbol(k, sticky)} \cup Modifiers(sticky \ {CAPS})
    BY <1>1, ReleaseIs DEF Modifiers
  <1> HIDE DEF e
  <1>3. down' = down \ ({Keyboard!Symbol(k, sticky)} \cup Modifiers(sticky \ {CAPS}))
    <2> DEFINE T == [sym : [key : Keyboard!Key, shifted : BOOLEAN], pressed : {FALSE}]
    <2>1. \A x \in T : ~x.pressed
      OBVIOUS
    <2>2. e \in Seq(T) /\ Len(e) \in Nat
      BY <1>2
    <2> HIDE DEF T
    <2>3. \A i \in 1 .. Len(e) : ~e[i].pressed
      BY <2>1, <2>2
    <2>4. Keyboard!After(down, e) = down \ {e[i].sym : i \in 1 .. Len(e)}
      BY <2>2, <2>3, AfterReleases
    <2> QED
      BY <1>1, <1>2, <2>4
  <1>4. Keyboard!Symbol(k, sticky) \notin Modifiers(sticky)
    BY <1>1, SymbolsOfKeys DEF Modifiers
  <1>5. Modifiers(sticky) \ Modifiers(sticky \ {CAPS}) = Modifiers(sticky \cap {CAPS})
    <2>1. \A i, j : i # j => Keyboard!Symbol(i, {}) # Keyboard!Symbol(j, {})
      BY SymbolIs
    <2> QED
      BY <2>1 DEF Modifiers
  <1>6. UnderFinger(kb_activekey', sticky') = {}
    BY <1>1, KeysAssumption DEF UnderFinger, Keyboard!KeyboardAssumption, Keyboard!Key
  <1> QED
    BY <1>1, <1>3, <1>4, <1>5, <1>6

(* Every step keeps the account.                                           *)
LEMMA KeyStep == KeyInv /\ [TouchNext]_touchvars => KeyInv'
  <1> SUFFICES ASSUME KeyInv, [TouchNext]_touchvars PROVE KeyInv'
    OBVIOUS
  <1>1. FingerInv'
    BY FingerStep DEF KeyInv
  <1>2. ASSUME UNCHANGED <<kb_activekey, sticky>>,
               (out' = <<>> /\ down' = Keyboard!After(down, out')) \/ UNCHANGED down
        PROVE  KeyInv'
    <2>1. down' = down
      BY <1>2, AfterNoEvents
    <2> QED
      BY <1>1, <1>2, <2>1 DEF KeyInv
  <1>3. CASE PadTouch
    BY <1>2, <1>3 DEF PadTouch, KeyboardStep, Keyboard!DownOnPad, Keyboard!UpFromPad
  <1>4. CASE KeyTouch
    <2>0. down' = Keyboard!After(down, out')
      BY <1>4 DEF KeyTouch, KeyboardStep
    <2>1. ASSUME NEW k \in Keyboard!Key, Keyboard!DownOnSticky(k) PROVE KeyInv'
      <3>1. kb_activekey' = k /\ sticky' \subseteq Keyboard!Sticky
        BY <2>1 DEF KeyInv, Keyboard!DownOnSticky
      <3> QED
        BY <1>1, <2>0, <2>1, <3>1, DownOnStickyStep DEF KeyInv
    <2>2. ASSUME NEW k \in Keyboard!Key, Keyboard!DownOnKey(k) PROVE KeyInv'
      <3>1. kb_activekey' = k /\ sticky' = sticky
        BY <2>2 DEF Keyboard!DownOnKey
      <3> QED
        BY <1>1, <2>0, <2>2, <3>1, DownOnKeyStep DEF KeyInv
    <2>3. CASE Keyboard!DownBetweenKeys
      BY <1>2, <2>0, <2>3 DEF Keyboard!DownBetweenKeys
    <2>4. CASE Keyboard!UpIgnored
      BY <1>2, <2>0, <2>4 DEF Keyboard!UpIgnored
    <2>5. CASE Keyboard!UpFromSticky
      <3>1. /\ kb_activekey \in Keyboard!Sticky /\ kb_activekey' = NoKey
            /\ sticky' = sticky /\ out' = <<>>
        BY <2>5 DEF Keyboard!UpFromSticky
      <3>2. /\ UnderFinger(kb_activekey, sticky) = {}
            /\ UnderFinger(kb_activekey', sticky') = {}
        BY <3>1, KeysAssumption
           DEF UnderFinger, Keyboard!KeyboardAssumption, Keyboard!Key
      <3> QED
        BY <1>1, <2>0, <3>1, <3>2, AfterNoEvents DEF KeyInv
    <2>6. CASE Keyboard!UpFromKey
      <3>1. kb_activekey' = NoKey /\ sticky' \subseteq Keyboard!Sticky
        BY <2>6 DEF KeyInv, Keyboard!UpFromKey
      <3> QED
        BY <1>1, <2>0, <2>6, <3>1, UpFromKeyStep DEF KeyInv
    <2> QED
      BY <1>4, <2>1, <2>2, <2>3, <2>4, <2>5, <2>6 DEF KeyTouch, KeyboardStep
  <1>5. CASE EnableKeyboard
    BY <1>2, <1>5 DEF EnableKeyboard, KeyboardStep, Keyboard!uib_enable_keyboard
  <1>6. CASE Untouched
    BY <1>2, <1>6 DEF Untouched, keyboard
  <1>7. CASE Quiet
    BY <1>2, <1>7 DEF Quiet, keyboard
  <1>8. CASE UNCHANGED touchvars
    BY <1>2, <1>8 DEF touchvars, keyboard
  <1> QED
    BY <1>3, <1>4, <1>5, <1>6, <1>7, <1>8 DEF TouchNext

THEOREM KeyInvariant == TouchSpec => []KeyInv
  <1>1. TouchInit => KeyInv
    <2> SUFFICES ASSUME TouchInit PROVE KeyInv
      OBVIOUS
    <2>1. FingerInv
      BY DEF TouchInit, Init, Keyboard!Init, FingerInv, TouchIsWhole,
             Keyboard!TouchIsWhole
    <2>2. kb_activekey = NoKey /\ sticky = {} /\ down = {}
      BY DEF TouchInit, Keyboard!Init
    <2>3. UnderFinger(kb_activekey, sticky) = {} /\ Modifiers(sticky) = {}
      BY <2>2, KeysAssumption
         DEF UnderFinger, Modifiers, Keyboard!KeyboardAssumption, Keyboard!Key
    <2> QED
      BY <2>1, <2>2, <2>3 DEF KeyInv
  <1> QED
    BY <1>1, KeyStep, PTL DEF TouchSpec

(* Whatever is pressed, shown and hidden, and in whatever order: who gets  *)
(* the key events of uib_handle_event() has those keys down that the       *)
(* keyboard shows as pressed; none stays down that is not shown.           *)
THEOREM TouchBalancesKeys == TouchSpec => []KeysBalanced
  <1>1. KeyInv => KeysBalanced
    BY AccountIs DEF KeyInv, KeysBalanced, Keyboard!KeysBalanced, Modifiers
  <1> QED
    BY <1>1, KeyInvariant, PTL

(* What a step sends while the account is kept: with the events up to a    *)
(* key's own, every modifier that is on is still down.                     *)
Outlasted ==
    \A i \in DOMAIN out' :
        out'[i].sym.key \in Letter \cup Plain =>
            Modifiers(sticky) \subseteq Keyboard!After(down, SubSeq(out', 1, i))

LEMMA FirstOfSeq ==
    ASSUME NEW T, NEW s \in Seq(T), Len(s) > 0
    PROVE  SubSeq(s, 1, 1) = <<s[1]>>
  <1>1. /\ SubSeq(s, 1, 1) \in Seq(T) /\ Len(SubSeq(s, 1, 1)) = 1
        /\ SubSeq(s, 1, 1)[1] = s[1]
    OBVIOUS
  <1>2. /\ <<s[1]>> \in Seq(T) /\ Len(<<s[1]>>) = 1
        /\ <<s[1]>>[1] = s[1]
    OBVIOUS
  <1>3. ASSUME NEW a \in Seq(T), NEW b \in Seq(T), Len(a) = 1, Len(b) = 1, a[1] = b[1]
        PROVE  a = b
    BY <1>3
  <1> QED
    BY <1>1, <1>2, <1>3

LEMMA OutlastedDown == ASSUME KeyInv, NEW k, Keyboard!DownOnKey(k) PROVE Outlasted
  <1> DEFINE e == <<Keyboard!Event(Keyboard!Symbol(k, sticky), TRUE)>>
  <1>1. out' = e /\ DOMAIN e = {1}
    BY DEF Keyboard!DownOnKey
  <1>3. SubSeq(e, 1, 1) = e
    <2> DEFINE x == Keyboard!Event(Keyboard!Symbol(k, sticky), TRUE)
    <2> HIDE DEF x
    <2>1. <<x>> \in Seq({x}) /\ Len(<<x>>) > 0 /\ <<x>>[1] = x
      OBVIOUS
    <2>2. SubSeq(<<x>>, 1, 1) = <<x>>
      BY <2>1, FirstOfSeq
    <2> QED
      BY <2>2 DEF x
  <1>2. Keyboard!After(down, e) = down \cup {Keyboard!Symbol(k, sticky)}
    BY AfterOneEvent
  <1> HIDE DEF e
  <1> QED
    BY <1>1, <1>2, <1>3 DEF Outlasted, KeyInv

LEMMA OutlastedUp == ASSUME KeyInv, Keyboard!UpFromKey PROVE Outlasted
  <1> DEFINE k == kb_activekey
             e == Keyboard!ReleaseEvents(k)
             first == Keyboard!Event(Keyboard!Symbol(k, sticky), FALSE)
             T == [sym : [key : Keyboard!Key, shifted : BOOLEAN], pressed : {FALSE}]
  <1>1. /\ k \in Letter \cup Plain /\ sticky \subseteq Keyboard!Sticky
        /\ out' = e
        /\ Modifiers(sticky) \subseteq down
    BY DEF Keyboard!UpFromKey, KeyInv
  <1>2. /\ e \in Seq(T) /\ Len(e) > 0 /\ e[1] = first
        /\ \A i \in 2 .. Len(e) : e[i].sym.key \in Keyboard!Sticky
    BY <1>1, ReleaseIs
  <1> HIDE DEF e, T
  <1>3. Keyboard!After(down, <<first>>) = down \ {Keyboard!Symbol(k, sticky)}
    BY AfterOneEvent
  <1> HIDE DEF first
  <1>4. SubSeq(e, 1, 1) = <<first>>
    BY <1>2, FirstOfSeq
  <1>5. Keyboard!Symbol(k, sticky) \notin Modifiers(sticky)
    BY <1>1, SymbolsOfKeys DEF Modifiers
  <1>6. ASSUME NEW i \in DOMAIN e, e[i].sym.key \in Letter \cup Plain
        PROVE  i = 1
    <2>1. i \in 1 .. Len(e) /\ Len(e) \in Nat
      BY <1>2
    <2>2. e[i].sym.key \notin Keyboard!Sticky
      BY <1>6, KeysAssumption DEF Keyboard!KeyboardAssumption
    <2> QED
      BY <1>2, <2>1, <2>2
  <1> QED
    BY <1>1, <1>3, <1>4, <1>5, <1>6 DEF Outlasted

LEMMA OutlastedStep ==
    ASSUME KeyInv, [TouchNext]_touchvars
    PROVE  Outlasted \/ UNCHANGED Keyboard!vars
  <1> USE DEF keyboard, Keyboard!vars
  <1>1. ASSUME out' = <<>> PROVE Outlasted
    BY <1>1 DEF Outlasted
  <1>2. CASE PadTouch
    BY <1>1, <1>2 DEF PadTouch, KeyboardStep, Keyboard!DownOnPad, Keyboard!UpFromPad
  <1>3. CASE KeyTouch
    <2>1. ASSUME NEW k \in Keyboard!Key, Keyboard!DownOnSticky(k) PROVE Outlasted
      <3> DEFINE e == <<Keyboard!Event(Keyboard!Symbol(k, {}), k \notin sticky)>>
      <3>1. out' = e /\ k \in Keyboard!Sticky
        BY <2>1 DEF Keyboard!DownOnSticky
      <3>2. DOMAIN e = {1} /\ e[1].sym.key = k
        BY SymbolIs DEF Keyboard!Event
      <3>3. k \notin Letter \cup Plain
        BY <3>1, KeysAssumption DEF Keyboard!KeyboardAssumption
      <3> HIDE DEF e
      <3> QED
        BY <3>1, <3>2, <3>3 DEF Outlasted
    <2>2. ASSUME NEW k \in Keyboard!Key, Keyboard!DownOnKey(k) PROVE Outlasted
      BY <2>2, OutlastedDown
    <2>3. CASE Keyboard!DownBetweenKeys
      BY <1>1, <2>3 DEF Keyboard!DownBetweenKeys
    <2>4. CASE Keyboard!UpIgnored
      BY <1>1, <2>4 DEF Keyboard!UpIgnored
    <2>5. CASE Keyboard!UpFromSticky
      BY <1>1, <2>5 DEF Keyboard!UpFromSticky
    <2>6. CASE Keyboard!UpFromKey
      BY <2>6, OutlastedUp
    <2> QED
      BY <1>3, <2>1, <2>2, <2>3, <2>4, <2>5, <2>6 DEF KeyTouch, KeyboardStep
  <1>4. CASE EnableKeyboard
    BY <1>1, <1>4 DEF EnableKeyboard, KeyboardStep, Keyboard!uib_enable_keyboard
  <1>5. CASE Untouched
    BY <1>5 DEF Untouched
  <1>6. CASE Quiet
    BY <1>6 DEF Quiet
  <1>7. CASE UNCHANGED touchvars
    BY <1>7 DEF touchvars
  <1> QED
    BY <1>2, <1>3, <1>4, <1>5, <1>6, <1>7 DEF TouchNext

(* A modifier outlasts the key it modifies: uib_handle_event() sends the   *)
(* release of a key while all that modified it is still down, and the      *)
(* releases of the modifiers after it.                                     *)
THEOREM TouchModifiersOutlast == TouchSpec => ModifiersOutlastKey
  <1>1. KeyInv /\ [TouchNext]_touchvars =>
            [\A i \in DOMAIN out' :
                out'[i].sym.key \in Letter \cup Plain =>
                    {Keyboard!Symbol(k, {}) : k \in sticky}
                        \subseteq Keyboard!After(down, SubSeq(out', 1, i))]_(Keyboard!vars)
    BY OutlastedStep DEF Outlasted, Modifiers
  <1> QED
    BY <1>1, KeyInvariant, PTL
       DEF TouchSpec, ModifiersOutlastKey, Keyboard!ModifiersOutlastKey

=================================================================================
