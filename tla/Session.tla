-------------------------------- MODULE Session --------------------------------
(***************************************************************************)
(* One session after another: main() of main.c (lines 1784-2044) starts    *)
(* the services the user configured, turns its loop while any of them      *)
(* runs, cleans up, and asks the user whether to retry.  `active` counts   *)
(* the services; nothing else tells the loop that there is work left.      *)
(***************************************************************************)
EXTENDS Integers

CONSTANTS DsuMayFail,    (* may the Cemuhook server fail to start?         *)
          UserCommands   (* may the user give commands during a session?   *)

ASSUME SessionAssumption == DsuMayFail \in BOOLEAN /\ UserCommands \in BOOLEAN

VARIABLES
    pc,            (* what main() does next                                *)
    cl, cl2,       (* is there a VNC client for the top, the bottom screen?*)
    cursor, cursor2,   (* useRemoteCursor, as last told to their servers   *)
    audio,         (* config.enableaudio: the stream is running            *)
    udp, dsu,      (* the feeder and the Cemuhook server, see Feed and Dsu *)
    active,        (* services counted as running                          *)
    config,        (* the switches the user may turn during a session      *)
    recalc_event_target, evtarget, taphandling,
    ext            (* the user asked to disconnect                         *)

clients == <<cl, cl2>>
target == <<recalc_event_target, evtarget, taphandling>>
cursors == <<cursor, cursor2>>
feeds == <<audio, udp, dsu>>
vars == <<pc, clients, cursors, feeds, active, config, target, ext>>

Feed == {"off", "up", "failed"}
Dsu == {"off", "up",
        "failed",     \* bind() failed: a socket without an address
        "nosocket"}   \* socket() failed
Switch == {"eventtarget", "notaphandling", "ctr_vnc_keys", "ctr_vnc_touch"}

Init ==
    /\ pc = "getconfig"
    /\ cl = FALSE /\ cl2 = FALSE /\ cursor = FALSE /\ cursor2 = FALSE
    /\ audio = FALSE /\ udp = "off" /\ dsu = "off"
    /\ active = 0
    /\ config = [s \in Switch |-> FALSE]
    /\ recalc_event_target = FALSE /\ evtarget = FALSE /\ taphandling = TRUE
    /\ ext = FALSE
------------------------------------------------------------------------------
(* Starting a session.                                                     *)

(* The saved switches are any; a service that is not wanted is passed by.  *)
GetConfig ==
    /\ pc = "getconfig"
    /\ config' \in [Switch -> BOOLEAN]
    /\ active' = 0 /\ ext' = FALSE
    /\ pc' = "top"
    /\ UNCHANGED <<clients, cursors, feeds, target>>

GiveUp ==
    /\ pc = "getconfig"
    /\ pc' = "ended"
    /\ UNCHANGED <<clients, cursors, feeds, active, config, target, ext>>

(* rfbInitClient() connects, or frees the client and reports failure.      *)
ConnectTop ==
    /\ pc = "top"
    /\ cl' \in BOOLEAN
    /\ cursor' = FALSE
    /\ active' = IF cl' THEN active + 1 ELSE active
    /\ pc' = "bottom"
    /\ UNCHANGED <<cl2, cursor2, feeds, config, target, ext>>

ConnectBottom ==
    /\ pc = "bottom"
    /\ cl2' \in BOOLEAN
    /\ cursor2' = FALSE
    /\ active' = IF cl2' THEN active + 1 ELSE active
    /\ pc' = "audio"
    /\ UNCHANGED <<cl, cursor, feeds, config, target, ext>>

(* What start_stream() answers is not looked at: run_stream() will tell.   *)
StartAudio ==
    /\ pc = "audio"
    /\ audio' \in BOOLEAN
    /\ active' = IF audio' THEN active + 1 ELSE active
    /\ pc' = "udp"
    /\ UNCHANGED <<clients, cursors, udp, dsu, config, target, ext>>

StartUdp ==
    /\ pc = "udp"
    /\ udp' \in Feed
    /\ active' = IF udp' = "up" THEN active + 1 ELSE active
    /\ pc' = "dsu"
    /\ UNCHANGED <<clients, cursors, audio, dsu, config, target, ext>>

StartDsu ==
    /\ pc = "dsu"
    /\ dsu' \in IF DsuMayFail THEN Dsu ELSE {"off", "up"}
    /\ active' = IF dsu' = "up" THEN active + 1 ELSE active
    /\ pc' = "check"
    /\ UNCHANGED <<clients, cursors, audio, udp, config, target, ext>>

(* checkconfig(): events go to a client that is there.                     *)
CheckedOnce(conf, top, bot) ==              \* plausible bug: first line forgotten
    [conf EXCEPT !["ctr_vnc_keys"] = @ /\ (top \/ bot),
                 !["ctr_vnc_touch"] = @ /\ (top \/ bot)]

Checked(conf, top, bot) ==
    [conf EXCEPT !["eventtarget"] = @ \/ (~top /\ bot),
                 !["ctr_vnc_keys"] = @ /\ (top \/ bot),
                 !["ctr_vnc_touch"] = @ /\ (top \/ bot)]

StartLoop ==
    /\ pc = "check"
    /\ config' = Checked(config, cl, cl2)
    /\ evtarget' = TRUE /\ taphandling' = TRUE
    /\ recalc_event_target' = TRUE
    /\ pc' = "while"
    /\ UNCHANGED <<clients, cursors, feeds, active, ext>>
------------------------------------------------------------------------------
(* One turn of the loop.                                                   *)

(* The head of the loop: where do touches and buttons go, and which client *)
(* draws the cursor itself?  A change is told to the server.               *)
Recalculated ==
    /\ evtarget' = (cl2 /\ config["eventtarget"])
    /\ taphandling' = (evtarget' => ~config["notaphandling"])
    /\ cursor' = IF cl THEN evtarget' ELSE cursor
    /\ cursor2' = IF cl2 THEN ~(evtarget' /\ taphandling') ELSE cursor2

Turn ==
    /\ pc = "while"
    /\ active # 0
    /\ IF recalc_event_target THEN Recalculated
       ELSE UNCHANGED <<evtarget, taphandling, cursors>>
    /\ recalc_event_target' = FALSE
    /\ pc' = "events"
    /\ UNCHANGED <<clients, feeds, active, config, ext>>

NoneLeft ==
    /\ pc = "while"
    /\ active = 0
    /\ pc' = "cleanup"
    /\ UNCHANGED <<clients, cursors, feeds, active, config, target, ext>>

(* The commands of handleSDLEvent() that the session depends on.           *)
ToggleEventTarget ==
    /\ pc = "events" /\ UserCommands
    /\ cl /\ cl2
    /\ config' = [config EXCEPT !["eventtarget"] = ~@]
    /\ recalc_event_target' = TRUE
    /\ UNCHANGED <<pc, clients, cursors, feeds, active, evtarget, taphandling, ext>>

ToggleTapHandling ==
    /\ pc = "events" /\ UserCommands
    /\ cl2
    /\ config' = [config EXCEPT !["notaphandling"] = ~@]
    /\ recalc_event_target' = TRUE
    /\ UNCHANGED <<pc, clients, cursors, feeds, active, evtarget, taphandling, ext>>

UnguardedToggle(s) ==                       \* plausible bug: cl || cl2 not tested
    /\ pc = "events" /\ UserCommands
    /\ config' = [config EXCEPT ![s] = ~@]
    /\ UNCHANGED <<pc, clients, cursors, feeds, active, target, ext>>

ToggleToVnc(s) ==
    /\ pc = "events" /\ UserCommands
    /\ cl \/ cl2
    /\ config' = [config EXCEPT ![s] = ~@]
    /\ UNCHANGED <<pc, clients, cursors, feeds, active, target, ext>>

(* Hiding the log or the keyboard runs checkconfig() once more.            *)
ToggleUi ==
    /\ pc = "events" /\ UserCommands
    /\ config' = Checked(config, cl, cl2)
    /\ UNCHANGED <<pc, clients, cursors, feeds, active, target, ext>>

Disconnect ==
    /\ pc = "events" /\ UserCommands
    /\ ext' = TRUE
    /\ pc' = "cleanup"
    /\ UNCHANGED <<clients, cursors, feeds, active, config, target>>

NoMoreEvents ==
    /\ pc = "events"
    /\ pc' = "pads"
    /\ UNCHANGED <<clients, cursors, feeds, active, config, target, ext>>

(* dsu_server_run() fails for want of a socket, or when select() or        *)
(* recvfrom() does.                                                        *)
RunDsu ==
    /\ pc = "pads"
    /\ dsu # "nosocket"
    /\ pc' = "stream"
    /\ UNCHANGED <<clients, cursors, feeds, active, config, target, ext>>

DsuFails ==
    /\ pc = "pads"
    /\ dsu # "off"
    /\ dsu' = "off"
    /\ active' = active - 1
    /\ pc' = "stream"
    /\ UNCHANGED <<clients, cursors, audio, udp, config, target, ext>>

RunStream ==
    /\ pc = "stream"
    /\ pc' = "wait"
    /\ UNCHANGED <<clients, cursors, feeds, active, config, target, ext>>

StreamFailsUncounted ==                     \* plausible bug: --active forgotten
    /\ pc = "stream"
    /\ audio
    /\ audio' = FALSE
    /\ pc' = "wait"
    /\ UNCHANGED <<clients, cursors, udp, dsu, active, config, target, ext>>

StreamFails ==
    /\ pc = "stream"
    /\ audio
    /\ audio' = FALSE
    /\ active' = active - 1
    /\ pc' = "wait"
    /\ UNCHANGED <<clients, cursors, udp, dsu, config, target, ext>>

WaitTop ==
    /\ pc = "wait"
    /\ pc' = "wait2"
    /\ UNCHANGED <<clients, cursors, feeds, active, config, target, ext>>

TopLostQuietly ==                           \* plausible bug: no recalculation
    /\ pc = "wait"
    /\ cl
    /\ cl' = FALSE
    /\ active' = active - 1
    /\ config' = Checked(config, FALSE, cl2)
    /\ pc' = "wait2"
    /\ UNCHANGED <<cl2, cursors, feeds, target, ext>>

TopLost ==
    /\ pc = "wait"
    /\ cl
    /\ cl' = FALSE
    /\ recalc_event_target' = TRUE
    /\ active' = active - 1
    /\ config' = Checked(config, FALSE, cl2)
    /\ pc' = "wait2"
    /\ UNCHANGED <<cl2, cursors, feeds, evtarget, taphandling, ext>>

WaitBottom ==
    /\ pc = "wait2"
    /\ pc' = "while"
    /\ UNCHANGED <<clients, cursors, feeds, active, config, target, ext>>

BottomLost ==
    /\ pc = "wait2"
    /\ cl2
    /\ cl2' = FALSE
    /\ recalc_event_target' = TRUE
    /\ active' = active - 1
    /\ config' = Checked(config, cl, FALSE)
    /\ pc' = "while"
    /\ UNCHANGED <<cl, cursors, feeds, evtarget, taphandling, ext>>
------------------------------------------------------------------------------
(* The end of a session.                                                   *)

CleanUp ==
    /\ pc = "cleanup"
    /\ cl' = FALSE /\ cl2' = FALSE
    /\ audio' = FALSE /\ udp' = "off" /\ dsu' = "off"
    /\ pc' = IF ext THEN "getconfig" ELSE "retry"
    /\ UNCHANGED <<cursors, active, config, target, ext>>

Retry ==
    /\ pc = "retry"
    /\ pc' = "getconfig"
    /\ UNCHANGED <<clients, cursors, feeds, active, config, target, ext>>

Quit ==
    /\ pc = "retry"
    /\ pc' = "ended"
    /\ UNCHANGED <<clients, cursors, feeds, active, config, target, ext>>

(* SDL_QUIT, from HOME: safeexit() cleans up the clients and exits; the    *)
(* system takes back the rest.                                             *)
SafeExit ==
    /\ pc \in {"events", "retry"} /\ UserCommands
    /\ cl' = FALSE /\ cl2' = FALSE
    /\ pc' = "ended"
    /\ UNCHANGED <<cursors, feeds, active, config, target, ext>>

Ended == pc = "ended" /\ UNCHANGED vars

Start ==
    ConnectTop \/ ConnectBottom \/ StartAudio \/ StartUdp \/ StartDsu \/ StartLoop
Command ==
    \/ ToggleEventTarget \/ ToggleTapHandling \/ ToggleUi
    \/ ToggleToVnc("ctr_vnc_keys") \/ ToggleToVnc("ctr_vnc_touch")
Loss == DsuFails \/ StreamFails \/ TopLost \/ BottomLost
Loop ==
    \/ Turn \/ NoneLeft \/ NoMoreEvents \/ RunDsu \/ RunStream
    \/ WaitTop \/ WaitBottom \/ Loss \/ CleanUp

Next ==
    \/ GetConfig \/ GiveUp \/ Start \/ Loop \/ Command \/ Disconnect
    \/ Retry \/ Quit \/ SafeExit \/ Ended

(* main() keeps running, and the events of a turn come to an end; the user *)
(* need do nothing.                                                        *)
Fairness == WF_vars(Start) /\ WF_vars(Loop)

Spec == Init /\ [][Next]_vars /\ Fairness
------------------------------------------------------------------------------
InLoop == {"while", "events", "pads", "stream", "wait", "wait2"}
Starting == {"top", "bottom", "audio", "udp", "dsu", "check"}

TypeOK ==
    /\ pc \in {"getconfig", "cleanup", "retry", "ended"} \cup Starting \cup InLoop
    /\ cl \in BOOLEAN /\ cl2 \in BOOLEAN
    /\ cursor \in BOOLEAN /\ cursor2 \in BOOLEAN
    /\ audio \in BOOLEAN /\ udp \in Feed /\ dsu \in Dsu
    /\ active \in 0 .. 5
    /\ config \in [Switch -> BOOLEAN]
    /\ recalc_event_target \in BOOLEAN
    /\ evtarget \in BOOLEAN /\ taphandling \in BOOLEAN
    /\ ext \in BOOLEAN

One(running) == IF running THEN 1 ELSE 0
Services ==
    One(cl) + One(cl2) + One(audio) + One(udp = "up") + One(dsu = "up")

(* The loop counts the services that run, whichever of them failed at the  *)
(* start, failed later, or was never wanted.                               *)
ActiveCounts == pc \in Starting \cup InLoop => active = Services

(* While something runs only the user ends the session: when the loop      *)
(* stops by itself there is nothing left to do (the message of main.c:1880 *)
(* for no active service is "Nothing to do ...").                          *)
NothingToDo == pc = "cleanup" /\ ~ext => Services = 0

(* No key and no pointer event is sent through a client that is not there. *)
EventsTo == IF cl2 /\ config["eventtarget"] THEN cl2 ELSE cl
NoNullTarget ==
    pc \in InLoop /\ (config["ctr_vnc_keys"] \/ config["ctr_vnc_touch"])
        => EventsTo

(* What a turn remembers of the event target while the network is served   *)
(* is what the configuration says, or the next turn is told to look again; *)
(* and each server has last been told the cursor mode that follows from it.*)
TargetInStep ==
    pc \in InLoop /\ ~recalc_event_target =>
        /\ evtarget = (cl2 /\ config["eventtarget"])
        /\ taphandling = (evtarget => ~config["notaphandling"])
        /\ cl => cursor = evtarget
        /\ cl2 => cursor2 = ~(evtarget /\ taphandling)

(* When nothing runs any more the session does not go on for ever: the     *)
(* user is asked what to do, or has left.                                  *)
NothingLeftAsks ==
    pc \in InLoop /\ Services = 0 ~> pc \in {"retry", "getconfig", "ended"}
==============================================================================
