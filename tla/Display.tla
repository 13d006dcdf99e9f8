-------------------------------- MODULE Display --------------------------------
(***************************************************************************)
(* The two screens: the video thread of SDL_n3dsvideo.c, the main thread   *)
(* that flips the surface, sets video modes and quits, and the bottom      *)
(* screen of uibottom.c, which the video thread paints from a callback     *)
(* when somebody has asked for it.  Main thread and worker thread both     *)
(* change what the bottom screen shows.  Nothing is locked; the threads    *)
(* have flags, two one-shot events and the join.                           *)
(***************************************************************************)
EXTENDS Integers

CONSTANTS MaxChanges,     (* bound on the changes of the bottom screen     *)
          MaxModes        (* bound on the calls of SDL_SetVideoMode()      *)

ASSUME DisplayAssumption == MaxChanges \in Nat /\ MaxModes \in Nat

VARIABLES
    vpc,             (* the video thread, "none" when there is none        *)
    runThread,
    vevent,          (* privateVideoThreadEvent is signalled               *)
    repaint,         (* repaintRequired is signalled                       *)
    buffer,          (* hidden->buffer is allocated                        *)
    targets,         (* the render targets exist                           *)
    texture,         (* spritesheet_tex exists                             *)
    mpc,             (* the main thread                                    *)
    wpc,             (* the worker thread                                  *)
    modes,           (* history: video modes asked for                     *)
    content,         (* history: changes of the bottom screen so far       *)
    painted,         (* the content the frame in work shows                *)
    shown            (* the content the last finished frame shows          *)

video == <<buffer, targets, texture>>
frame == <<painted, shown>>
vars == <<vpc, runThread, vevent, repaint, video, mpc, wpc, modes, content, frame>>

(* After uib_init(): a mode has been set and the callback is in place.     *)
Init ==
    /\ vpc = "while" /\ runThread = TRUE /\ vevent = FALSE
    /\ repaint = TRUE
    /\ buffer = TRUE /\ targets = TRUE /\ texture = TRUE
    /\ mpc = "idle" /\ wpc = "idle" /\ modes = 0
    /\ content = 0 /\ painted = 0 /\ shown = 0
--------------------------------------------------------------------------------
(* The video thread, videoThread() with uib_repaint() called back.         *)

While ==
    /\ vpc = "while"
    /\ vpc' = IF runThread THEN "wait" ELSE "exit"
    /\ UNCHANGED <<runThread, vevent, repaint, video, mpc, wpc, modes, content, frame>>

Wake ==
    /\ vpc = "wait" /\ vevent
    /\ vevent' = FALSE
    /\ vpc' = IF runThread THEN "begin" ELSE "exit"
    /\ UNCHANGED <<runThread, repaint, video, mpc, wpc, modes, content, frame>>

(* No right to the GPU, or C3D_FrameBegin() finds it busy.                 *)
NoFrame ==
    /\ vpc = "begin"
    /\ vpc' = "while"
    /\ UNCHANGED <<runThread, vevent, repaint, video, mpc, wpc, modes, content, frame>>

BeginFrame ==
    /\ vpc = "begin"
    /\ vpc' = "draw"
    /\ UNCHANGED <<runThread, vevent, repaint, video, mpc, wpc, modes, content, frame>>

(* uib_repaint() waits for the event, which resets it, and clears it then. *)
TestRepaint ==
    /\ vpc = "draw"
    /\ vpc' = IF repaint THEN "clear" ELSE "end"
    /\ repaint' = FALSE
    /\ UNCHANGED <<runThread, vevent, video, mpc, wpc, modes, content, frame>>

ClearRepaint ==
    /\ vpc = "clear"
    /\ repaint' = FALSE
    /\ vpc' = "paint"
    /\ UNCHANGED <<runThread, vevent, video, mpc, wpc, modes, content, frame>>

Paint ==
    /\ vpc = "paint"
    /\ painted' = content
    /\ vpc' = "end"
    /\ UNCHANGED <<runThread, vevent, repaint, video, mpc, wpc, modes, content, shown>>

ClearWhenShown ==                         \* plausible bug: cleared at the end
    /\ vpc = "end"
    /\ shown' = painted
    /\ repaint' = FALSE
    /\ vpc' = "while"
    /\ UNCHANGED <<runThread, vevent, video, mpc, wpc, modes, content, painted>>

EndFrame ==
    /\ vpc = "end"
    /\ shown' = painted
    /\ vpc' = "while"
    /\ UNCHANGED <<runThread, vevent, repaint, video, mpc, wpc, modes, content, painted>>
--------------------------------------------------------------------------------
(* Changes of what the bottom screen shows, each followed by               *)
(* requestRepaint(): by the main thread in uib_update(), by the worker     *)
(* thread while the keyboard moves.                                        *)
Change ==
    /\ content < MaxChanges
    /\ content' = content + 1
    /\ \/ mpc = "idle" /\ mpc' = "request" /\ UNCHANGED wpc
       \/ wpc = "idle" /\ wpc' = "request" /\ UNCHANGED mpc
    /\ UNCHANGED <<vpc, runThread, vevent, repaint, video, modes, frame>>

RequestRepaint ==
    /\ repaint' = TRUE
    /\ \/ mpc = "request" /\ mpc' = "idle" /\ UNCHANGED wpc
       \/ wpc = "request" /\ wpc' = "idle" /\ UNCHANGED mpc
    /\ UNCHANGED <<vpc, runThread, vevent, video, modes, content, frame>>

(* SDL_Flip(): the surface is copied to the texture and the thread woken;  *)
(* without the right to the GPU nothing is done.                           *)
Flip ==
    /\ mpc = "idle" /\ buffer
    /\ vevent' = TRUE
    /\ UNCHANGED <<vpc, runThread, repaint, video, mpc, wpc, modes, content, frame>>
--------------------------------------------------------------------------------
(* SDL_SetVideoMode() and SDL_Quit() stop the thread in the same way:      *)
(* the flag, the event that wakes it, the join.                            *)

Later(pc) == mpc' = pc /\ UNCHANGED <<wpc, content, frame, repaint>>

SetVideoMode ==
    /\ mpc = "idle" /\ modes < MaxModes
    /\ modes' = modes + 1
    /\ runThread' = FALSE
    /\ Later("signal")
    /\ UNCHANGED <<vpc, vevent, video>>

Quit ==
    /\ mpc = "idle"
    /\ runThread' = FALSE
    /\ Later("quitsignal")
    /\ UNCHANGED <<vpc, vevent, video, modes>>

SignalNothing ==                          \* plausible bug: the thread is not woken
    /\ mpc \in {"signal", "quitsignal"}
    /\ Later(IF mpc = "signal" THEN "join" ELSE "quitjoin")
    /\ UNCHANGED <<vpc, runThread, vevent, video, modes>>

Signal ==
    /\ mpc \in {"signal", "quitsignal"}
    /\ vevent' = TRUE
    /\ Later(IF mpc = "signal" THEN "join" ELSE "quitjoin")
    /\ UNCHANGED <<vpc, runThread, video, modes>>

JoinNobody ==                             \* plausible bug: no threadJoin()
    /\ mpc \in {"join", "quitjoin"}
    /\ Later(IF mpc = "join" THEN "alloc" ELSE "free")
    /\ UNCHANGED <<vpc, runThread, vevent, video, modes>>

Join ==
    /\ mpc \in {"join", "quitjoin"}
    /\ vpc = "exit"
    /\ vpc' = "none"
    /\ Later(IF mpc = "join" THEN "alloc" ELSE "free")
    /\ UNCHANGED <<runThread, vevent, video, modes>>

(* The new buffer; without it the mode is not set, and main() is left with *)
(* no surface (its next SDL_Flip() has nothing to flip).                   *)
Alloc ==
    /\ mpc = "alloc"
    /\ \/ buffer' = TRUE /\ Later("sceneExit")
       \/ buffer' = FALSE /\ Later("failed")
    /\ UNCHANGED <<vpc, runThread, vevent, targets, texture, modes>>

SceneExit ==
    /\ mpc = "sceneExit"
    /\ targets' = FALSE /\ texture' = FALSE
    /\ Later("sceneInit")
    /\ UNCHANGED <<vpc, runThread, vevent, buffer, modes>>

StartThread ==
    /\ mpc = "sceneInit"
    /\ targets' = TRUE /\ texture' = TRUE
    /\ runThread' = TRUE /\ vevent' = FALSE
    /\ vpc' = "while"
    /\ Later("idle")
    /\ UNCHANGED <<buffer, modes>>

VideoQuit ==
    /\ mpc = "free"
    /\ buffer' = FALSE /\ targets' = FALSE /\ texture' = FALSE
    /\ Later("quit")
    /\ UNCHANGED <<vpc, runThread, vevent, modes>>
--------------------------------------------------------------------------------
VideoThread ==
    \/ While \/ Wake \/ NoFrame \/ BeginFrame
    \/ TestRepaint \/ ClearRepaint \/ Paint \/ EndFrame

ModeSetting == Signal \/ Join \/ Alloc \/ SceneExit \/ StartThread \/ VideoQuit

Next ==
    \/ VideoThread
    \/ Change \/ RequestRepaint \/ Flip
    \/ SetVideoMode \/ Quit \/ ModeSetting

(* The threads go on; main() flips once a turn of its loop, and neither    *)
(* the GPU nor the right to it is withheld for ever.                       *)
Fairness ==
    /\ WF_vars(VideoThread) /\ SF_vars(BeginFrame)
    /\ WF_vars(RequestRepaint /\ wpc = "request")
    /\ WF_vars(RequestRepaint /\ mpc = "request")
    /\ SF_vars(Flip)
    /\ WF_vars(ModeSetting)

Spec == Init /\ [][Next]_vars /\ Fairness
--------------------------------------------------------------------------------
VideoPC == {"none", "while", "wait", "begin", "draw", "clear", "paint", "end", "exit"}
ModePC == {"signal", "join", "alloc", "sceneExit", "sceneInit"}
QuitPC == {"quitsignal", "quitjoin", "free", "quit"}

TypeOK ==
    /\ vpc \in VideoPC
    /\ runThread \in BOOLEAN /\ vevent \in BOOLEAN /\ repaint \in BOOLEAN
    /\ buffer \in BOOLEAN /\ targets \in BOOLEAN /\ texture \in BOOLEAN
    /\ mpc \in {"idle", "request", "failed"} \cup ModePC \cup QuitPC
    /\ wpc \in {"idle", "request"}
    /\ modes \in Nat /\ content \in Nat /\ painted \in Nat /\ shown \in Nat

(* While the video thread is within a frame the texture and the targets it *)
(* draws with are there, and whenever main() may flip so is the buffer:    *)
(* SDL_SetVideoMode() and SDL_Quit() take nothing away from a running      *)
(* thread.                                                                 *)
DrawsAlive ==
    /\ vpc \in {"draw", "clear", "paint", "end"} => targets /\ texture
    /\ mpc \in {"idle", "request"} => buffer /\ vpc # "none"

(* Every change of the bottom screen is seen in the end, whatever request  *)
(* it shares the event with and whenever the thread tests and clears it:   *)
(* again and again the screen shows the last of the changes (of which      *)
(* there are MaxChanges).                                                  *)
ChangeIsShown == []<>(shown = content \/ mpc \in QuitPC \cup {"failed"})

(* A mode is set or refused, and quitting ends: the join never waits for   *)
(* a thread that waits for a flip.                                         *)
ModeIsSet == mpc \in ModePC \cup QuitPC ~> mpc \in {"idle", "failed", "quit"}
================================================================================
