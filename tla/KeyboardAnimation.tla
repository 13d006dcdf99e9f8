--------------------------- MODULE KeyboardAnimation ---------------------------
(***************************************************************************)
(* Showing and hiding the on-screen keyboard: toggle_keyboard() and        *)
(* animate() of uibottom.c (lines 569-633) on the worker thread of         *)
(* Worker.tla.  The main thread looks at where the keyboard is, twice,     *)
(* while the worker may be moving it, and submits a job that moves it from *)
(* one end to the other.                                                   *)
(***************************************************************************)
EXTENDS Worker

CONSTANT Steps        (* steps of an animation, and so the hidden position *)

Hidden == Steps
Shown == 0

ASSUME AnimationAssumption ==
    /\ Steps \in Nat \ {0}
    /\ Job = {Shown, Hidden} \X {Shown, Hidden}     \* from, to

VARIABLES kb_y_pos,   (* where the keyboard is, in steps                   *)
          tpc, from,  (* the main thread in toggle_keyboard()              *)
          step,       (* the step of the animation in work                 *)
          dest        (* history: where the last accepted job goes         *)

avars == <<kb_y_pos, tpc, from, step, dest>>
kbvars == <<vars, avars>>

KInit ==
    /\ Init
    /\ kb_y_pos = Hidden /\ tpc = "idle" /\ from = Hidden
    /\ step = 0 /\ dest = Hidden
--------------------------------------------------------------------------------
(* toggle_keyboard(): kb_y_pos is read for the start and again for the end *)
(* of the movement.                                                        *)
ToggleFrom ==
    /\ mpc = "idle" /\ tpc = "idle"
    /\ from' = IF kb_y_pos < Hidden THEN Shown ELSE Hidden
    /\ tpc' = "to"
    /\ UNCHANGED <<vars, kb_y_pos, step, dest>>

ToggleTo ==
    /\ tpc = "to"
    /\ StartWorker(<<from, IF kb_y_pos < Hidden THEN Hidden ELSE Shown>>)
    /\ tpc' = "idle"
    /\ UNCHANGED <<kb_y_pos, from, step, dest>>

InToggle ==
    /\ InStartWorker
    /\ dest' = IF mpc = "post" THEN job[2] ELSE dest
    /\ UNCHANGED <<kb_y_pos, tpc, from, step>>
--------------------------------------------------------------------------------
(* animate(): steps 0 to Steps of the way, the repaint after each of them. *)
Position(a, i) == a[1] + ((a[2] - a[1]) \div Steps) * i

Animate ==
    /\ wpc = "run" /\ step <= Steps
    /\ kb_y_pos' = Position(worker_data[p2], step)
    /\ step' = step + 1
    /\ UNCHANGED <<vars, tpc, from, dest>>

AnimationStopsShort ==                    \* plausible bug: s < steps
    /\ step >= Steps
    /\ JobReturns
    /\ step' = 0
    /\ UNCHANGED <<kb_y_pos, tpc, from, dest>>

AnimationEnds ==
    /\ step > Steps
    /\ JobReturns
    /\ step' = 0
    /\ UNCHANGED <<kb_y_pos, tpc, from, dest>>

InWorker == SemWait \/ FreeSlot \/ AdvanceP2

KWorker ==
    \/ Animate \/ AnimationEnds
    \/ InWorker /\ UNCHANGED avars

KNext == ToggleFrom \/ ToggleTo \/ InToggle \/ KWorker

(* The main thread finishes a call it has begun, the worker runs on.       *)
KSpec ==
    /\ KInit /\ [][KNext]_kbvars
    /\ WF_kbvars(ToggleTo \/ InToggle) /\ WF_kbvars(KWorker)
--------------------------------------------------------------------------------
(* When nothing moves, the keyboard is where the last accepted toggle sent *)
(* it, also when other toggles were still pending, were refused by a full  *)
(* ring or looked at a keyboard on its way.                                *)
RestsAsAsked == Held = 0 => kb_y_pos = dest
================================================================================
