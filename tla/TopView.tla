--------------------------------- MODULE TopView ---------------------------------
(***************************************************************************)
(* What of the server's screen the top screen shows: resize() of main.c    *)
(* (205-309), which sets the video mode of Display.tla, and the pointer    *)
(* that moves in it and scrolls it (main.c 560-684).  One dimension is     *)
(* modelled, horizontally; the other counts by its size alone, which       *)
(* decides about the scale and about the scrollbar.                        *)
(***************************************************************************)
EXTENDS Display

CONSTANTS Width,    (* of the top screen (400)                             *)
          Height,   (* its other dimension (240)                           *)
          Bar,      (* what a scrollbar takes (2)                          *)
          Largest,  (* the largest surface (1024)                          *)
          Pitches,  (* the widths of textures: powers of 2 from 32 on      *)
          Sizes,    (* the sizes a server's screen may have                *)
          Elsewhere (* where a touch on the bottom screen puts the pointer *)

ASSUME ViewAssumption ==
    /\ Width \in Nat \ {0} /\ Height \in Nat \ {0} /\ Bar \in Nat
    /\ Bar < Width /\ Largest \in Nat /\ Largest >= Width
    /\ Sizes \subseteq Nat \ {0} /\ Elsewhere \subseteq Int
    /\ Pitches \subseteq Nat \ {0}
    /\ \A n \in 1 .. Largest : \E p \in Pitches :
          n <= p /\ \A q \in Pitches : n <= q => p <= q

VARIABLES
    size,      (* client->width and client->height, as resize() finds them *)
    full,      (* updateRect.w                                             *)
    factor,    (* scaling_factor_top                                       *)
    width,     (* the surface                                              *)
    bar,       (* have_scrollbars & 2: there is one along the other side   *)
    scaling,   (* config.scaling                                           *)
    x,         (* the pointer                                              *)
    pos,       (* sdl_pos_x                                                *)
    followed   (* history: has the view been set by where the pointer is?  *)

view == <<size, full, factor, width, bar, scaling, x, pos, followed>>
tvars == <<vars, view>>

Larger(a, b) == IF a > b THEN a ELSE b
Smaller(a, b) == IF a < b THEN a ELSE b
LIMIT(v, lo, hi) == IF v < lo THEN lo ELSE IF v > hi THEN hi ELSE v
next_pow2(n) == CHOOSE p \in Pitches : n <= p /\ \A q \in Pitches : n <= q => p <= q

Room(b) == IF b THEN Width - Bar ELSE Width

(* The view is put around the pointer.                                     *)
CentredUnlimited(w, room) ==              \* plausible bug: no LIMIT
    IF w > room THEN -x + room \div 2 ELSE (room - w) \div 2

Centred(w, room) ==
    IF w > room THEN LIMIT(-x + room \div 2, -w + room, 0) ELSE (room - w) \div 2
--------------------------------------------------------------------------------
TInit ==
    /\ Init
    /\ size = [w |-> Width, h |-> Height] /\ full = Width /\ factor = 1
    /\ width = Width /\ bar = FALSE
    /\ scaling \in BOOLEAN /\ x = 0 /\ pos = 0 /\ followed = FALSE

(* resize(): the server scales if it can, else the client does.  What is   *)
(* left in client->width is the pitch of the surface, not its width.       *)
resize(dim, scaled) ==
    /\ \E byServer \in BOOLEAN :
          LET big == dim.w > Largest \/ dim.h > Largest
              f == IF big /\ ~byServer
                   THEN (Larger(dim.w, dim.h) + Largest) \div Largest ELSE 1
              w == IF big /\ byServer THEN Smaller(dim.w, Largest) ELSE dim.w
              h == IF big /\ byServer THEN Smaller(dim.h, Largest) ELSE dim.h
          IN  /\ factor' = f /\ full' = w /\ width' = w \div f
              /\ bar' = IF scaled THEN bar ELSE h \div f > Height
              /\ size' = [dim EXCEPT !.w = IF f > 1 THEN w ELSE next_pow2(w)]
    /\ pos' = IF scaled THEN pos ELSE Centred(width', Room(bar'))
    /\ followed' = (~scaled /\ factor' = 1 /\ x \in 0 .. width')
    /\ SetVideoMode
    /\ UNCHANGED x

(* The server's screen has, or gets, some size.                            *)
NewSize ==
    /\ \E w, h \in Sizes : resize([w |-> w, h |-> h], scaling)
    /\ UNCHANGED scaling

(* COM_TOPSCALING.                                                         *)
ToggleScaling == resize(size, ~scaling) /\ scaling' = ~scaling

(* The pointer moves on the top screen, and the view follows it.           *)
Followed(p) ==
    IF p < -pos THEN -p
    ELSE IF p > -pos + Room(bar) THEN -p + Room(bar)
    ELSE pos

Motion ==
    /\ mpc = "idle" /\ modes > 0
    /\ x' \in 0 .. full
    /\ pos' = IF scaling THEN pos ELSE Followed(x' \div factor)
    /\ followed' = ~scaling
    /\ UNCHANGED <<vars, size, full, factor, width, bar, scaling>>

(* A touch for the bottom screen's client uses the same pointer.           *)
PointBottom ==
    /\ mpc = "idle"
    /\ x' \in Elsewhere
    /\ followed' = FALSE
    /\ UNCHANGED <<vars, size, full, factor, width, bar, scaling, pos>>

Others ==
    \/ VideoThread
    \/ Change \/ RequestRepaint \/ Flip
    \/ Quit \/ ModeSetting

TNext ==
    \/ NewSize \/ ToggleScaling \/ Motion \/ PointBottom
    \/ Others /\ UNCHANGED view

TSpec == TInit /\ [][TNext]_tvars /\ Fairness
--------------------------------------------------------------------------------
(* The view never leaves the surface, and the pointer never leaves the     *)
(* view (by more than the pixel the code allows it): whatever sizes and    *)
(* scales follow one another and wherever the other screen put the pointer *)
(* meanwhile, as soon as it moves it is seen, and if the client does not   *)
(* scale, already when the size changes.                                   *)
PointerInView ==
    ~scaling /\ mpc = "idle" =>
        /\ width > Room(bar) => -pos \in 0 .. width - Room(bar)
        /\ width <= Room(bar) => pos >= 0 /\ pos + width <= Room(bar)
        /\ followed => x \div factor \in -pos .. -pos + Room(bar)
================================================================================
