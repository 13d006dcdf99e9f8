------------------------------ MODULE TopViewProofs ------------------------------
(***************************************************************************)
(* The video thread draws only while what it draws with is there, and the  *)
(* pointer stays in the view, for every size of the screens and servers.   *)
(***************************************************************************)
EXTENDS TopView, TLAPS

(* What the main thread has taken away at each step of setting a mode: the *)
(* thread is joined first, and what it needs is back before it is started. *)
Joined == {"alloc", "sceneExit", "sceneInit", "free", "quit", "failed"}

DisplayInv ==
    /\ TypeOK
    /\ vpc = "none" <=> mpc \in Joined
    /\ mpc \notin {"sceneInit", "quit"} => targets = TRUE /\ texture = TRUE
    /\ mpc \in {"idle", "request", "sceneExit", "sceneInit"} => buffer = TRUE

LEMMA InvDrawsAlive == DisplayInv => DrawsAlive
  BY DEF DisplayInv, DrawsAlive, Joined

LEMMA VideoThreadStep == DisplayInv /\ VideoThread => DisplayInv'
  <1> SUFFICES ASSUME DisplayInv, VideoThread
               PROVE  DisplayInv'
    OBVIOUS
  <1> USE DEF DisplayInv, TypeOK, VideoPC, ModePC, QuitPC, Joined, video, frame
  <1>1. CASE While
    BY <1>1 DEF While
  <1>2. CASE Wake
    BY <1>2 DEF Wake
  <1>3. CASE NoFrame
    BY <1>3 DEF NoFrame
  <1>4. CASE BeginFrame
    BY <1>4 DEF BeginFrame
  <1>5. CASE TestRepaint
    BY <1>5 DEF TestRepaint
  <1>6. CASE ClearRepaint
    BY <1>6 DEF ClearRepaint
  <1>7. CASE Paint
    BY <1>7 DEF Paint
  <1>8. CASE EndFrame
    BY <1>8 DEF EndFrame
  <1> QED
    BY <1>1, <1>2, <1>3, <1>4, <1>5, <1>6, <1>7, <1>8 DEF VideoThread

LEMMA MainThreadStep ==
    DisplayInv /\ (Change \/ RequestRepaint \/ Flip \/ SetVideoMode \/ Quit)
        => DisplayInv'
  <1> SUFFICES ASSUME DisplayInv,
                      Change \/ RequestRepaint \/ Flip \/ SetVideoMode \/ Quit
               PROVE  DisplayInv'
    OBVIOUS
  <1> USE DEF DisplayInv, TypeOK, VideoPC, ModePC, QuitPC, Joined, video, frame
  <1>1. CASE Change
    BY <1>1, DisplayAssumption DEF Change
  <1>2. CASE RequestRepaint
    BY <1>2 DEF RequestRepaint
  <1>3. CASE Flip
    BY <1>3 DEF Flip
  <1>4. CASE SetVideoMode
    <2>1. modes' \in Nat
      BY <1>4 DEF SetVideoMode
    <2>2. /\ mpc = "idle" /\ mpc' = "signal" /\ runThread' = FALSE
          /\ UNCHANGED <<vpc, vevent, buffer, targets, texture>>
          /\ UNCHANGED <<wpc, content, painted, shown, repaint>>
      BY <1>4 DEF SetVideoMode, Later
    <2>3. vpc # "none" /\ targets = TRUE /\ texture = TRUE
      BY <2>2
    <2> QED
      BY <2>1, <2>2, <2>3
  <1>5. CASE Quit
    BY <1>5 DEF Quit, Later
  <1> QED
    BY <1>1, <1>2, <1>3, <1>4, <1>5

LEMMA ModeSettingStep == DisplayInv /\ ModeSetting => DisplayInv'
  <1> SUFFICES ASSUME DisplayInv, ModeSetting
               PROVE  DisplayInv'
    OBVIOUS
  <1> USE DEF DisplayInv, TypeOK, VideoPC, ModePC, QuitPC, Joined, video, frame, Later
  <1>1. CASE Signal
    BY <1>1 DEF Signal
  <1>2. CASE Join
    BY <1>2 DEF Join
  <1>3. CASE Alloc
    BY <1>3 DEF Alloc
  <1>4. CASE SceneExit
    BY <1>4 DEF SceneExit
  <1>5. CASE StartThread
    BY <1>5 DEF StartThread
  <1>6. CASE VideoQuit
    BY <1>6 DEF VideoQuit
  <1> QED
    BY <1>1, <1>2, <1>3, <1>4, <1>5, <1>6 DEF ModeSetting

LEMMA DisplayInductive == DisplayInv /\ [Next]_vars => DisplayInv'
  <1>1. DisplayInv /\ Next => DisplayInv'
    BY VideoThreadStep, MainThreadStep, ModeSettingStep DEF Next
  <1>2. DisplayInv /\ UNCHANGED vars => DisplayInv'
    BY DEF DisplayInv, TypeOK, vars, video, frame
  <1> QED
    BY <1>1, <1>2

(* SDL_SetVideoMode() and SDL_Quit() take nothing from a thread that       *)
(* draws, in whatever order the threads run.                               *)
THEOREM ThreadDrawsAlive == Spec => []DrawsAlive
  <1>1. Init => DisplayInv
    <2> SUFFICES ASSUME Init
                 PROVE  DisplayInv
      OBVIOUS
    <2>1. TypeOK
      BY DEF Init, TypeOK, VideoPC
    <2>2. vpc # "none" /\ mpc \notin Joined
      BY DEF Init, Joined
    <2>3. targets = TRUE /\ texture = TRUE /\ buffer = TRUE
      BY DEF Init
    <2> QED
      BY <2>1, <2>2, <2>3 DEF DisplayInv
  <1> QED
    BY <1>1, DisplayInductive, InvDrawsAlive, PTL DEF Spec
--------------------------------------------------------------------------------
(* Division keeps the order: what a scaled pointer can reach.              *)
LEMMA DivisionIsMonotone ==
    ASSUME NEW a \in Nat, NEW b \in Nat, a <= b, NEW f \in Nat \ {0}
    PROVE  a \div f \in Nat /\ b \div f \in Nat /\ a \div f <= b \div f
  OBVIOUS

(* The client scales by one at least.                                      *)
LEMMA FactorIsPositive ==
    ASSUME NEW n \in Nat, NEW l \in Nat \ {0}
    PROVE  /\ (n + l) \div l \in Nat \ {0}
           /\ n >= l => (n + l) \div l > 1
  OBVIOUS

LEMMA PitchIsThere ==
    ASSUME NEW n \in 1 .. Largest
    PROVE  next_pow2(n) \in Nat \ {0}
  BY ViewAssumption DEF next_pow2

LEMMA RoomIsLeft == ASSUME NEW b PROVE Room(b) \in Nat \ {0} /\ Room(b) <= Width
  BY ViewAssumption DEF Room

(* A surface of width w at position p fills the room or lies within it.    *)
Fits(w, p, room) ==
    /\ w > room => -p \in 0 .. w - room
    /\ w <= room => p >= 0 /\ p + w <= room

LEMMA CentredFits ==
    ASSUME NEW w \in Nat, NEW room \in Nat \ {0}, x \in Int
    PROVE  /\ Centred(w, room) \in Int
           /\ Fits(w, Centred(w, room), room)
           /\ x \in 0 .. w => x \in -Centred(w, room) .. -Centred(w, room) + room
  <1> DEFINE half == room \div 2
  <1>1. half \in Nat /\ half <= room
    OBVIOUS
  <1>2. CASE w > room
    <2>1. Centred(w, room) = LIMIT(-x + half, -w + room, 0)
      BY <1>2 DEF Centred
    <2> HIDE DEF half
    <2> QED
      BY <1>1, <1>2, <2>1 DEF LIMIT, Fits
  <1>3. CASE w <= room
    <2> DEFINE left == (room - w) \div 2
    <2>1. left \in Nat /\ 2 * left <= room - w
      BY <1>3
    <2>2. Centred(w, room) = left
      BY <1>3 DEF Centred
    <2> HIDE DEF left
    <2> QED
      BY <1>3, <2>1, <2>2 DEF Fits
  <1> QED
    BY <1>2, <1>3

(* Following the pointer keeps the view on the surface, and finds it.      *)
LEMMA FollowedFits ==
    ASSUME NEW w \in Nat, NEW p \in 0 .. w, pos \in Int, Fits(w, pos, Room(bar))
    PROVE  /\ Followed(p) \in Int
           /\ Fits(w, Followed(p), Room(bar))
           /\ p \in -Followed(p) .. -Followed(p) + Room(bar)
  <1> DEFINE room == Room(bar)
  <1>1. room \in Nat \ {0}
    BY RoomIsLeft
  <1>2. Followed(p) = IF p < -pos THEN -p ELSE IF p > -pos + room THEN -p + room ELSE pos
    BY DEF Followed
  <1>3. Fits(w, pos, room)
    OBVIOUS
  <1> SUFFICES /\ Followed(p) \in Int
               /\ Fits(w, Followed(p), room)
               /\ p \in -Followed(p) .. -Followed(p) + room
    OBVIOUS
  <1> HIDE DEF room
  <1> QED
    BY <1>1, <1>2, <1>3 DEF Fits
--------------------------------------------------------------------------------
(* The view, between two calls of resize() and while one is going on.      *)
ViewInv ==
    /\ size \in [w : Nat \ {0}, h : Nat \ {0}]
    /\ full \in Nat /\ factor \in Nat \ {0} /\ width = full \div factor
    /\ x \in Int /\ pos \in Int
    /\ scaling \in BOOLEAN
    /\ ~scaling => Fits(width, pos, Room(bar))
    /\ ~scaling /\ followed => x \div factor \in -pos .. -pos + Room(bar)

LEMMA InvPointerInView == ViewInv => PointerInView
  BY DEF ViewInv, PointerInView, Fits

(* What resize() leaves, whatever the size and whoever scales.             *)
LEMMA ResizeFits ==
    ASSUME ViewInv, NEW dim \in [w : Nat \ {0}, h : Nat \ {0}],
           NEW scaled \in BOOLEAN, resize(dim, scaled), scaling' = scaled
    PROVE  ViewInv'
  <1>1. PICK byServer \in BOOLEAN :
          LET big == dim.w > Largest \/ dim.h > Largest
              f == IF big /\ ~byServer
                   THEN (Larger(dim.w, dim.h) + Largest) \div Largest ELSE 1
              w == IF big /\ byServer THEN Smaller(dim.w, Largest) ELSE dim.w
              h == IF big /\ byServer THEN Smaller(dim.h, Largest) ELSE dim.h
          IN  /\ factor' = f /\ full' = w /\ width' = w \div f
              /\ bar' = IF scaled THEN bar ELSE h \div f > Height
              /\ size' = [dim EXCEPT !.w = IF f > 1 THEN w ELSE next_pow2(w)]
    BY DEF resize
  <1> DEFINE big == dim.w > Largest \/ dim.h > Largest
             most == Larger(dim.w, dim.h)
             f == IF big /\ ~byServer THEN (most + Largest) \div Largest ELSE 1
             w == IF big /\ byServer THEN Smaller(dim.w, Largest) ELSE dim.w
             b == bar'
  <1>2. /\ factor' = f /\ full' = w /\ width' = w \div f
        /\ size' = [dim EXCEPT !.w = IF f > 1 THEN w ELSE next_pow2(w)]
    BY <1>1
  <1>3. Largest \in Nat \ {0}
    BY ViewAssumption
  <1>4. most \in Nat /\ (big => most >= Largest)
    BY <1>3 DEF Larger
  <1>5. f \in Nat \ {0} /\ (big /\ ~byServer => f > 1)
    BY <1>3, <1>4, FactorIsPositive
  <1>6. w \in Nat \ {0} /\ (f = 1 => w \in 1 .. Largest)
    BY <1>3, <1>5 DEF Smaller
  <1> HIDE DEF f, w, big, most
  <1>7. size' \in [w : Nat \ {0}, h : Nat \ {0}]
    <2>1. (IF f > 1 THEN w ELSE next_pow2(w)) \in Nat \ {0}
      BY <1>5, <1>6, PitchIsThere
    <2> QED
      BY <1>2, <2>1
  <1>8. width' \in Nat /\ width' = full' \div factor'
    BY <1>2, <1>5, <1>6
  <1>9. /\ x' = x /\ x \in Int /\ pos \in Int
        /\ pos' = IF scaled THEN pos ELSE Centred(width', Room(bar'))
        /\ followed' = (~scaled /\ factor' = 1 /\ x \in 0 .. width')
    BY DEF resize, ViewInv
  <1>10. Room(b) \in Nat \ {0}
    BY RoomIsLeft
  <1>11. CASE scaled
    BY <1>2, <1>5, <1>6, <1>7, <1>8, <1>9, <1>11 DEF ViewInv
  <1>12. CASE ~scaled
    <2>1. /\ pos' \in Int
          /\ Fits(width', pos', Room(b))
          /\ x \in 0 .. width' => x \in -pos' .. -pos' + Room(b)
      BY <1>8, <1>9, <1>10, <1>12, CentredFits
    <2>2. followed' => x' \div factor' = x /\ x \in 0 .. width'
      BY <1>9, <1>12
    <2>3. ~scaling'
      BY <1>12
    <2> QED
      BY <1>2, <1>5, <1>6, <1>7, <1>8, <1>9, <2>1, <2>2, <2>3 DEF ViewInv, Fits, Room
  <1> QED
    BY <1>11, <1>12

LEMMA ViewInductive == ViewInv /\ [TNext]_tvars => ViewInv'
  <1> SUFFICES ASSUME ViewInv, [TNext]_tvars
               PROVE  ViewInv'
    OBVIOUS
  <1>1. CASE NewSize
    <2>1. PICK w \in Sizes, h \in Sizes : resize([w |-> w, h |-> h], scaling)
      BY <1>1 DEF NewSize
    <2>2. [w |-> w, h |-> h] \in [w : Nat \ {0}, h : Nat \ {0}]
      BY ViewAssumption
    <2>3. scaling \in BOOLEAN /\ scaling' = scaling
      BY <1>1 DEF NewSize, ViewInv
    <2> QED
      BY <2>1, <2>2, <2>3, ResizeFits
  <1>2. CASE ToggleScaling
    <2>1. size \in [w : Nat \ {0}, h : Nat \ {0}] /\ (~scaling) \in BOOLEAN
      BY DEF ViewInv
    <2>2. resize(size, ~scaling) /\ scaling' = ~scaling
      BY <1>2 DEF ToggleScaling
    <2> QED
      BY <2>1, <2>2, ResizeFits
  <1>3. CASE Motion
    <2>1. /\ x' \in 0 .. full /\ UNCHANGED <<size, full, factor, width, bar, scaling>>
          /\ pos' = IF scaling THEN pos ELSE Followed(x' \div factor)
          /\ followed' = ~scaling
      BY <1>3 DEF Motion
    <2>2. /\ x' \in Nat /\ full \in Nat /\ x' <= full
          /\ factor \in Nat \ {0} /\ width = full \div factor
      BY <2>1 DEF ViewInv
    <2>3. /\ x' \div factor \in Nat /\ full \div factor \in Nat
          /\ x' \div factor <= full \div factor
      BY <2>2, DivisionIsMonotone, Zenon
    <2>4. width \in Nat /\ x' \div factor \in 0 .. width
      <3> DEFINE p == x' \div factor
      <3>1. p \in Nat /\ width \in Nat /\ p <= width
        BY <2>2, <2>3
      <3> HIDE DEF p
      <3>2. p \in 0 .. width
        BY <3>1
      <3> QED
        BY <3>1, <3>2 DEF p
    <2>5. CASE scaling
      BY <2>1, <2>2, <2>5 DEF ViewInv
    <2>6. CASE ~scaling
      <3>1. pos \in Int /\ Fits(width, pos, Room(bar))
        BY <2>6 DEF ViewInv
      <3>2. /\ pos' \in Int
            /\ Fits(width, pos', Room(bar))
            /\ x' \div factor \in -pos' .. -pos' + Room(bar)
        BY <2>1, <2>4, <2>6, <3>1, FollowedFits
      <3> QED
        BY <2>1, <2>2, <3>2 DEF ViewInv, Fits, Room
    <2> QED
      BY <2>5, <2>6
  <1>4. CASE PointBottom
    BY <1>4, ViewAssumption DEF PointBottom, ViewInv, Fits, Room
  <1>5. CASE UNCHANGED view
    BY <1>5 DEF view, ViewInv, Fits, Room
  <1> QED
    BY <1>1, <1>2, <1>3, <1>4, <1>5 DEF TNext, tvars

(* As soon as the pointer moves it is seen, and the view never leaves the  *)
(* surface, whatever sizes and scales follow one another.                  *)
THEOREM PointerStaysInView == TSpec => []PointerInView
  <1>1. TInit => ViewInv
    <2> SUFFICES ASSUME TInit
                 PROVE  ViewInv
      OBVIOUS
    <2>1. Room(bar) = Width /\ Width \in Nat \ {0} /\ Height \in Nat \ {0}
      BY ViewAssumption DEF TInit, Room
    <2> QED
      BY <2>1 DEF TInit, ViewInv, Fits
  <1> QED
    BY <1>1, ViewInductive, InvPointerInView, PTL DEF TSpec

(* The view runs the display: every step of it is one of Display.tla, so   *)
(* what is proved of the display holds of the view.                        *)
THEOREM ViewIsDisplay == TSpec => Spec
  <1>1. TInit => Init
    BY DEF TInit
  <1>2. [TNext]_tvars => [Next]_vars
    BY DEF TNext, tvars, NewSize, ToggleScaling, resize, Motion, PointBottom, Others, Next
  <1> QED
    BY <1>1, <1>2, PTL DEF TSpec, Spec
==================================================================================
