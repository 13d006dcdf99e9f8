----------------------------- MODULE SessionProofs -----------------------------
(***************************************************************************)
(* Proofs about the sessions of Session.tla, for any user and any order of *)
(* failures.  Where keys and touches go is right in every case; the count  *)
(* of services is right provided the Cemuhook server starts when it is     *)
(* wanted (NothingToDo of Session.tla says what happens when it does not). *)
(***************************************************************************)
EXTENDS Session, TLAPS

Place ==
    pc \in {"getconfig", "cleanup", "retry", "ended"} \cup Starting \cup InLoop
Flags ==
    /\ cl \in BOOLEAN /\ cl2 \in BOOLEAN
    /\ cursor \in BOOLEAN /\ cursor2 \in BOOLEAN /\ audio \in BOOLEAN
    /\ recalc_event_target \in BOOLEAN
    /\ evtarget \in BOOLEAN /\ taphandling \in BOOLEAN /\ ext \in BOOLEAN
Feeds == udp \in Feed /\ dsu \in Dsu
Types ==
    /\ Place /\ Flags /\ Feeds
    /\ active \in Int
    /\ config \in [Switch -> BOOLEAN]

(* What checkconfig() establishes and every command and loss keeps.        *)
Targetable ==
    pc \in InLoop =>
        /\ ~cl /\ cl2 => config["eventtarget"]
        /\ config["ctr_vnc_keys"] \/ config["ctr_vnc_touch"] => cl \/ cl2

Steered == Targetable /\ TargetInStep
TargetInv == Types /\ Steered

(* What main() has not yet started, or has already stopped, is off.        *)
NotYetStarted ==
    /\ pc \in {"getconfig", "retry", "top"} => ~cl
    /\ pc \in {"getconfig", "retry", "top", "bottom"} => ~cl2
    /\ pc \in {"getconfig", "retry", "top", "bottom", "audio"} => ~audio
    /\ pc \in {"getconfig", "retry", "top", "bottom", "audio", "udp"}
           => udp = "off"
    /\ pc \in {"getconfig", "retry", "top", "bottom", "audio", "udp", "dsu"}
           => dsu = "off"

Counted ==
    /\ NotYetStarted /\ dsu \in {"off", "up"}
    /\ ActiveCounts /\ active \in 0 .. 5
CountInv == Types /\ Counted
------------------------------------------------------------------------------
(* What checkconfig() leaves of the switches.                              *)
LEMMA CheckedSwitches ==
    ASSUME NEW conf \in [Switch -> BOOLEAN],
           NEW top \in BOOLEAN, NEW bot \in BOOLEAN
    PROVE  LET c == Checked(conf, top, bot)
           IN  /\ c \in [Switch -> BOOLEAN]
               /\ ~top /\ bot => c["eventtarget"]
               /\ c["ctr_vnc_keys"] \/ c["ctr_vnc_touch"] => top \/ bot
               /\ c["notaphandling"] = conf["notaphandling"]
               /\ c["eventtarget"] = (conf["eventtarget"] \/ (~top /\ bot))
  BY DEF Checked, Switch

(* Turning one switch leaves switches.                                     *)
LEMMA ToggledSwitch ==
    ASSUME NEW conf \in [Switch -> BOOLEAN], NEW s \in Switch
    PROVE  /\ [conf EXCEPT ![s] = ~@] \in [Switch -> BOOLEAN]
           /\ \A t \in Switch \ {s} : [conf EXCEPT ![s] = ~@][t] = conf[t]
  BY DEF Switch

(* main() is always in one of its places, and every flag is one.           *)
LEMMA TypesInit == Init => Types
  <1> SUFFICES ASSUME Init PROVE Types
    OBVIOUS
  <1>1. Place /\ Feeds /\ active \in Int
    BY DEF Init, Place, Feeds, Feed, Dsu
  <1>2. Flags
    BY DEF Init, Flags
  <1>3. config \in [Switch -> BOOLEAN]
    BY DEF Init
  <1> QED
    BY <1>1, <1>2, <1>3 DEF Types

(* Every step keeps them so.                                               *)
LEMMA TypesNext == Types /\ [Next]_vars => Types'
  <1> SUFFICES ASSUME Types, [Next]_vars PROVE Types'
    OBVIOUS
  <1> USE DEF Types, clients, cursors, feeds, target
  <1>1. ASSUME GetConfig PROVE Types'
    <2>1. Place' /\ Feeds'
      BY <1>1 DEF GetConfig, Place, Feeds, Starting, InLoop
    <2>2. Flags'
      BY <1>1 DEF GetConfig, Flags
    <2>3. active' \in Int /\ config' \in [Switch -> BOOLEAN]
      BY <1>1 DEF GetConfig
    <2> QED
      BY <2>1, <2>2, <2>3
  <1>2. ASSUME GiveUp PROVE Types'
    <2>1. Place' /\ Feeds'
      BY <1>2 DEF GiveUp, Place, Feeds, Starting, InLoop
    <2>2. Flags'
      BY <1>2 DEF GiveUp, Flags
    <2>3. active' \in Int /\ config' \in [Switch -> BOOLEAN]
      BY <1>2 DEF GiveUp
    <2> QED
      BY <2>1, <2>2, <2>3
  <1>3. ASSUME ConnectTop PROVE Types'
    <2>1. Place' /\ Feeds'
      BY <1>3 DEF ConnectTop, Place, Feeds, Starting, InLoop
    <2>2. Flags'
      BY <1>3 DEF ConnectTop, Flags
    <2>3. active' \in Int /\ config' \in [Switch -> BOOLEAN]
      BY <1>3 DEF ConnectTop
    <2> QED
      BY <2>1, <2>2, <2>3
  <1>4. ASSUME ConnectBottom PROVE Types'
    <2>1. Place' /\ Feeds'
      BY <1>4 DEF ConnectBottom, Place, Feeds, Starting, InLoop
    <2>2. Flags'
      BY <1>4 DEF ConnectBottom, Flags
    <2>3. active' \in Int /\ config' \in [Switch -> BOOLEAN]
      BY <1>4 DEF ConnectBottom
    <2> QED
      BY <2>1, <2>2, <2>3
  <1>5. ASSUME StartAudio PROVE Types'
    <2>1. Place' /\ Feeds'
      BY <1>5 DEF StartAudio, Place, Feeds, Starting, InLoop
    <2>2. Flags'
      BY <1>5 DEF StartAudio, Flags
    <2>3. active' \in Int /\ config' \in [Switch -> BOOLEAN]
      BY <1>5 DEF StartAudio
    <2> QED
      BY <2>1, <2>2, <2>3
  <1>6. ASSUME StartUdp PROVE Types'
    <2>1. Place' /\ Feeds'
      BY <1>6 DEF StartUdp, Place, Feeds, Starting, InLoop, Feed, Dsu
    <2>2. Flags'
      BY <1>6 DEF StartUdp, Flags
    <2>3. active' \in Int /\ config' \in [Switch -> BOOLEAN]
      BY <1>6 DEF StartUdp
    <2> QED
      BY <2>1, <2>2, <2>3
  <1>7. ASSUME StartDsu PROVE Types'
    <2>1. Place' /\ Feeds'
      BY <1>7 DEF StartDsu, Place, Feeds, Starting, InLoop, Dsu
    <2>2. Flags'
      BY <1>7 DEF StartDsu, Flags
    <2>3. active' \in Int /\ config' \in [Switch -> BOOLEAN]
      BY <1>7 DEF StartDsu
    <2> QED
      BY <2>1, <2>2, <2>3
  <1>8. ASSUME StartLoop PROVE Types'
    <2>1. Place' /\ Feeds'
      BY <1>8 DEF StartLoop, Place, Feeds, Starting, InLoop
    <2>2. Flags'
      BY <1>8 DEF StartLoop, Flags
    <2>3. active' \in Int /\ config' \in [Switch -> BOOLEAN]
      BY CheckedSwitches, <1>8 DEF StartLoop, Flags
    <2> QED
      BY <2>1, <2>2, <2>3
  <1>9. ASSUME Turn PROVE Types'
    <2>1. Place' /\ Feeds'
      BY <1>9 DEF Turn, Place, Feeds, Starting, InLoop
    <2>2. Flags'
      BY <1>9 DEF Turn, Flags, Recalculated
    <2>3. active' \in Int /\ config' \in [Switch -> BOOLEAN]
      BY <1>9 DEF Turn
    <2> QED
      BY <2>1, <2>2, <2>3
  <1>10. ASSUME NoneLeft PROVE Types'
    <2>1. Place' /\ Feeds'
      BY <1>10 DEF NoneLeft, Place, Feeds, Starting, InLoop
    <2>2. Flags'
      BY <1>10 DEF NoneLeft, Flags
    <2>3. active' \in Int /\ config' \in [Switch -> BOOLEAN]
      BY <1>10 DEF NoneLeft
    <2> QED
      BY <2>1, <2>2, <2>3
  <1>11. ASSUME ToggleEventTarget PROVE Types'
    <2>1. Place' /\ Feeds'
      BY <1>11 DEF ToggleEventTarget, Place, Feeds, Starting, InLoop
    <2>2. Flags'
      BY <1>11 DEF ToggleEventTarget, Flags
    <2>3. active' \in Int /\ config' \in [Switch -> BOOLEAN]
      BY ToggledSwitch, <1>11 DEF ToggleEventTarget, Switch
    <2> QED
      BY <2>1, <2>2, <2>3
  <1>12. ASSUME ToggleTapHandling PROVE Types'
    <2>1. Place' /\ Feeds'
      BY <1>12 DEF ToggleTapHandling, Place, Feeds, Starting, InLoop
    <2>2. Flags'
      BY <1>12 DEF ToggleTapHandling, Flags
    <2>3. active' \in Int /\ config' \in [Switch -> BOOLEAN]
      BY ToggledSwitch, <1>12 DEF ToggleTapHandling, Switch
    <2> QED
      BY <2>1, <2>2, <2>3
  <1>13. ASSUME ToggleToVnc("ctr_vnc_keys") PROVE Types'
    <2>1. Place' /\ Feeds'
      BY <1>13 DEF ToggleToVnc, Place, Feeds, Starting, InLoop
    <2>2. Flags'
      BY <1>13 DEF ToggleToVnc, Flags
    <2>3. active' \in Int /\ config' \in [Switch -> BOOLEAN]
      BY ToggledSwitch, <1>13 DEF ToggleToVnc, Switch
    <2> QED
      BY <2>1, <2>2, <2>3
  <1>14. ASSUME ToggleToVnc("ctr_vnc_touch") PROVE Types'
    <2>1. Place' /\ Feeds'
      BY <1>14 DEF ToggleToVnc, Place, Feeds, Starting, InLoop
    <2>2. Flags'
      BY <1>14 DEF ToggleToVnc, Flags
    <2>3. active' \in Int /\ config' \in [Switch -> BOOLEAN]
      BY ToggledSwitch, <1>14 DEF ToggleToVnc, Switch
    <2> QED
      BY <2>1, <2>2, <2>3
  <1>15. ASSUME ToggleUi PROVE Types'
    <2>1. Place' /\ Feeds'
      BY <1>15 DEF ToggleUi, Place, Feeds, Starting, InLoop
    <2>2. Flags'
      BY <1>15 DEF ToggleUi, Flags
    <2>3. active' \in Int /\ config' \in [Switch -> BOOLEAN]
      BY CheckedSwitches, <1>15 DEF ToggleUi, Flags
    <2> QED
      BY <2>1, <2>2, <2>3
  <1>16. ASSUME Disconnect PROVE Types'
    <2>1. Place' /\ Feeds'
      BY <1>16 DEF Disconnect, Place, Feeds, Starting, InLoop
    <2>2. Flags'
      BY <1>16 DEF Disconnect, Flags
    <2>3. active' \in Int /\ config' \in [Switch -> BOOLEAN]
      BY <1>16 DEF Disconnect
    <2> QED
      BY <2>1, <2>2, <2>3
  <1>17. ASSUME NoMoreEvents PROVE Types'
    <2>1. Place' /\ Feeds'
      BY <1>17 DEF NoMoreEvents, Place, Feeds, Starting, InLoop
    <2>2. Flags'
      BY <1>17 DEF NoMoreEvents, Flags
    <2>3. active' \in Int /\ config' \in [Switch -> BOOLEAN]
      BY <1>17 DEF NoMoreEvents
    <2> QED
      BY <2>1, <2>2, <2>3
  <1>18. ASSUME RunDsu PROVE Types'
    <2>1. Place' /\ Feeds'
      BY <1>18 DEF RunDsu, Place, Feeds, Starting, InLoop
    <2>2. Flags'
      BY <1>18 DEF RunDsu, Flags
    <2>3. active' \in Int /\ config' \in [Switch -> BOOLEAN]
      BY <1>18 DEF RunDsu
    <2> QED
      BY <2>1, <2>2, <2>3
  <1>19. ASSUME DsuFails PROVE Types'
    <2>1. Place' /\ Feeds'
      BY <1>19 DEF DsuFails, Place, Feeds, Starting, InLoop, Dsu
    <2>2. Flags'
      BY <1>19 DEF DsuFails, Flags
    <2>3. active' \in Int /\ config' \in [Switch -> BOOLEAN]
      BY <1>19 DEF DsuFails
    <2> QED
      BY <2>1, <2>2, <2>3
  <1>20. ASSUME RunStream PROVE Types'
    <2>1. Place' /\ Feeds'
      BY <1>20 DEF RunStream, Place, Feeds, Starting, InLoop
    <2>2. Flags'
      BY <1>20 DEF RunStream, Flags
    <2>3. active' \in Int /\ config' \in [Switch -> BOOLEAN]
      BY <1>20 DEF RunStream
    <2> QED
      BY <2>1, <2>2, <2>3
  <1>21. ASSUME StreamFails PROVE Types'
    <2>1. Place' /\ Feeds'
      BY <1>21 DEF StreamFails, Place, Feeds, Starting, InLoop
    <2>2. Flags'
      BY <1>21 DEF StreamFails, Flags
    <2>3. active' \in Int /\ config' \in [Switch -> BOOLEAN]
      BY <1>21 DEF StreamFails
    <2> QED
      BY <2>1, <2>2, <2>3
  <1>22. ASSUME WaitTop PROVE Types'
    <2>1. Place' /\ Feeds'
      BY <1>22 DEF WaitTop, Place, Feeds, Starting, InLoop
    <2>2. Flags'
      BY <1>22 DEF WaitTop, Flags
    <2>3. active' \in Int /\ config' \in [Switch -> BOOLEAN]
      BY <1>22 DEF WaitTop
    <2> QED
      BY <2>1, <2>2, <2>3
  <1>23. ASSUME TopLost PROVE Types'
    <2>1. Place' /\ Feeds'
      BY <1>23 DEF TopLost, Place, Feeds, Starting, InLoop
    <2>2. Flags'
      BY <1>23 DEF TopLost, Flags
    <2>3. active' \in Int /\ config' \in [Switch -> BOOLEAN]
      BY <1>23 DEF TopLost, Flags, Checked, Switch
    <2> QED
      BY <2>1, <2>2, <2>3
  <1>24. ASSUME WaitBottom PROVE Types'
    <2>1. Place' /\ Feeds'
      BY <1>24 DEF WaitBottom, Place, Feeds, Starting, InLoop
    <2>2. Flags'
      BY <1>24 DEF WaitBottom, Flags
    <2>3. active' \in Int /\ config' \in [Switch -> BOOLEAN]
      BY <1>24 DEF WaitBottom
    <2> QED
      BY <2>1, <2>2, <2>3
  <1>25. ASSUME BottomLost PROVE Types'
    <2>1. Place' /\ Feeds'
      BY <1>25 DEF BottomLost, Place, Feeds, Starting, InLoop
    <2>2. Flags'
      BY <1>25 DEF BottomLost, Flags
    <2>3. active' \in Int /\ config' \in [Switch -> BOOLEAN]
      BY <1>25 DEF BottomLost, Flags, Checked, Switch
    <2> QED
      BY <2>1, <2>2, <2>3
  <1>26. ASSUME CleanUp PROVE Types'
    <2>1. Place' /\ Feeds'
      BY <1>26 DEF CleanUp, Place, Feeds, Starting, InLoop, Feed, Dsu
    <2>2. Flags'
      BY <1>26 DEF CleanUp, Flags
    <2>3. active' \in Int /\ config' \in [Switch -> BOOLEAN]
      BY <1>26 DEF CleanUp
    <2> QED
      BY <2>1, <2>2, <2>3
  <1>27. ASSUME Retry PROVE Types'
    <2>1. Place' /\ Feeds'
      BY <1>27 DEF Retry, Place, Feeds, Starting, InLoop
    <2>2. Flags'
      BY <1>27 DEF Retry, Flags
    <2>3. active' \in Int /\ config' \in [Switch -> BOOLEAN]
      BY <1>27 DEF Retry
    <2> QED
      BY <2>1, <2>2, <2>3
  <1>28. ASSUME Quit PROVE Types'
    <2>1. Place' /\ Feeds'
      BY <1>28 DEF Quit, Place, Feeds, Starting, InLoop
    <2>2. Flags'
      BY <1>28 DEF Quit, Flags
    <2>3. active' \in Int /\ config' \in [Switch -> BOOLEAN]
      BY <1>28 DEF Quit
    <2> QED
      BY <2>1, <2>2, <2>3
  <1>29. ASSUME SafeExit PROVE Types'
    <2>1. Place' /\ Feeds'
      BY <1>29 DEF SafeExit, Place, Feeds, Starting, InLoop
    <2>2. Flags'
      BY <1>29 DEF SafeExit, Flags
    <2>3. active' \in Int /\ config' \in [Switch -> BOOLEAN]
      BY <1>29 DEF SafeExit
    <2> QED
      BY <2>1, <2>2, <2>3
  <1>30. ASSUME Ended PROVE Types'
    <2>1. Place' /\ Feeds'
      BY <1>30 DEF Ended, Place, Feeds, Starting, InLoop, vars
    <2>2. Flags'
      BY <1>30 DEF Ended, Flags, vars
    <2>3. active' \in Int /\ config' \in [Switch -> BOOLEAN]
      BY <1>30 DEF Ended, vars
    <2> QED
      BY <2>1, <2>2, <2>3
  <1>99. ASSUME UNCHANGED vars PROVE Types'
    BY <1>99 DEF vars, Place, Flags, Feeds
  <1> QED
    BY <1>1, <1>2, <1>3, <1>4, <1>5, <1>6, <1>7, <1>8, <1>9, <1>10,
       <1>11, <1>12, <1>13, <1>14, <1>15, <1>16, <1>17, <1>18, <1>19, <1>20,
       <1>21, <1>22, <1>23, <1>24, <1>25, <1>26, <1>27, <1>28, <1>29, <1>30,
       <1>99
    DEF Next, Start, Loop, Command, Loss

(* Every step keeps the event target in step.                              *)
LEMMA TargetNext == TargetInv /\ [Next]_vars => Steered'
  <1> SUFFICES ASSUME TargetInv, [Next]_vars PROVE Steered'
    OBVIOUS
  <1> USE DEF TargetInv, Types, Steered, Targetable, TargetInStep, InLoop,
              clients, cursors, feeds, target
  <1>1. ASSUME GetConfig PROVE Steered'
    BY <1>1 DEF GetConfig
  <1>2. ASSUME GiveUp PROVE Steered'
    BY <1>2 DEF GiveUp
  <1>3. ASSUME ConnectTop PROVE Steered'
    BY <1>3 DEF ConnectTop
  <1>4. ASSUME ConnectBottom PROVE Steered'
    BY <1>4 DEF ConnectBottom
  <1>5. ASSUME StartAudio PROVE Steered'
    BY <1>5 DEF StartAudio
  <1>6. ASSUME StartUdp PROVE Steered'
    BY <1>6 DEF StartUdp
  <1>7. ASSUME StartDsu PROVE Steered'
    BY <1>7 DEF StartDsu
  <1>8. ASSUME StartLoop PROVE Steered'
    BY <1>8, CheckedSwitches DEF StartLoop, Flags
  <1>9. ASSUME Turn PROVE Steered'
    BY <1>9 DEF Turn, Recalculated, Flags
  <1>10. ASSUME NoneLeft PROVE Steered'
    BY <1>10 DEF NoneLeft
  <1>11. ASSUME ToggleEventTarget PROVE Steered'
    BY <1>11, ToggledSwitch DEF ToggleEventTarget, Switch
  <1>12. ASSUME ToggleTapHandling PROVE Steered'
    BY <1>12, ToggledSwitch DEF ToggleTapHandling, Switch
  <1>13. ASSUME ToggleToVnc("ctr_vnc_keys") PROVE Steered'
    BY <1>13, ToggledSwitch DEF ToggleToVnc, Switch
  <1>14. ASSUME ToggleToVnc("ctr_vnc_touch") PROVE Steered'
    BY <1>14, ToggledSwitch DEF ToggleToVnc, Switch
  <1>15. ASSUME ToggleUi PROVE Steered'
    <2>1. pc' = pc /\ UNCHANGED <<cl, cl2, cursor, cursor2, target>>
      BY <1>15 DEF ToggleUi
    <2>2. /\ ~cl /\ cl2 => config'["eventtarget"]
          /\ config'["ctr_vnc_keys"] \/ config'["ctr_vnc_touch"] => cl \/ cl2
          /\ config'["notaphandling"] = config["notaphandling"]
          /\ config'["eventtarget"] = (config["eventtarget"] \/ (~cl /\ cl2))
      <3>1. config \in [Switch -> BOOLEAN] /\ cl \in BOOLEAN /\ cl2 \in BOOLEAN
        BY DEF Flags
      <3>2. config' = Checked(config, cl, cl2)
        BY <1>15 DEF ToggleUi
      <3> QED
        BY <3>1, <3>2 DEF Checked, Switch
    <2> HIDE DEF Types
    <2>3. Targetable'
      BY <2>1, <2>2
    <2>4. TargetInStep'
      BY <2>1, <2>2
    <2> QED
      BY <2>3, <2>4
  <1>16. ASSUME Disconnect PROVE Steered'
    BY <1>16 DEF Disconnect
  <1>17. ASSUME NoMoreEvents PROVE Steered'
    BY <1>17 DEF NoMoreEvents
  <1>18. ASSUME RunDsu PROVE Steered'
    BY <1>18 DEF RunDsu
  <1>19. ASSUME DsuFails PROVE Steered'
    BY <1>19 DEF DsuFails
  <1>20. ASSUME RunStream PROVE Steered'
    BY <1>20 DEF RunStream
  <1>21. ASSUME StreamFails PROVE Steered'
    BY <1>21 DEF StreamFails
  <1>22. ASSUME WaitTop PROVE Steered'
    BY <1>22 DEF WaitTop
  <1>23. ASSUME TopLost PROVE Steered'
    BY <1>23, CheckedSwitches DEF TopLost, Flags
  <1>24. ASSUME WaitBottom PROVE Steered'
    BY <1>24 DEF WaitBottom
  <1>25. ASSUME BottomLost PROVE Steered'
    BY <1>25, CheckedSwitches DEF BottomLost, Flags
  <1>26. ASSUME CleanUp PROVE Steered'
    BY <1>26 DEF CleanUp
  <1>27. ASSUME Retry PROVE Steered'
    BY <1>27 DEF Retry
  <1>28. ASSUME Quit PROVE Steered'
    BY <1>28 DEF Quit
  <1>29. ASSUME SafeExit PROVE Steered'
    BY <1>29 DEF SafeExit
  <1>30. ASSUME Ended PROVE Steered'
    BY <1>30 DEF Ended, vars
  <1>31. ASSUME UNCHANGED vars PROVE Steered'
    BY <1>31 DEF vars
  <1> QED
    BY <1>1, <1>2, <1>3, <1>4, <1>5, <1>6, <1>7, <1>8, <1>9, <1>10,
       <1>11, <1>12, <1>13, <1>14, <1>15, <1>16, <1>17, <1>18, <1>19, <1>20,
       <1>21, <1>22, <1>23, <1>24, <1>25, <1>26, <1>27, <1>28, <1>29, <1>30,
       <1>31
    DEF Next, Start, Loop, Command, Loss

(* Every step keeps the count, if the Cemuhook server starts.              *)
LEMMA CountNext ==
    ASSUME ~DsuMayFail
    PROVE  CountInv /\ [Next]_vars => Counted'
  <1> SUFFICES ASSUME CountInv, [Next]_vars PROVE Counted'
    OBVIOUS
  <1> USE DEF CountInv, Counted, NotYetStarted, ActiveCounts, Services, One,
              Types, Place, Flags, Starting, InLoop, clients, feeds
  <1>1. ASSUME GetConfig PROVE Counted'
    BY <1>1 DEF GetConfig
  <1>2. ASSUME GiveUp PROVE Counted'
    BY <1>2 DEF GiveUp
  <1>3. ASSUME ConnectTop PROVE Counted'
    BY <1>3 DEF ConnectTop
  <1>4. ASSUME ConnectBottom PROVE Counted'
    BY <1>4 DEF ConnectBottom
  <1>5. ASSUME StartAudio PROVE Counted'
    BY <1>5 DEF StartAudio
  <1>6. ASSUME StartUdp PROVE Counted'
    BY <1>6 DEF StartUdp
  <1>7. ASSUME StartDsu PROVE Counted'
    BY <1>7 DEF StartDsu
  <1>8. ASSUME StartLoop PROVE Counted'
    BY <1>8 DEF StartLoop
  <1>9. ASSUME Turn PROVE Counted'
    BY <1>9 DEF Turn
  <1>10. ASSUME NoneLeft PROVE Counted'
    BY <1>10 DEF NoneLeft
  <1>11. ASSUME ToggleEventTarget PROVE Counted'
    BY <1>11 DEF ToggleEventTarget
  <1>12. ASSUME ToggleTapHandling PROVE Counted'
    BY <1>12 DEF ToggleTapHandling
  <1>13. ASSUME ToggleToVnc("ctr_vnc_keys") PROVE Counted'
    BY <1>13 DEF ToggleToVnc
  <1>14. ASSUME ToggleToVnc("ctr_vnc_touch") PROVE Counted'
    BY <1>14 DEF ToggleToVnc
  <1>15. ASSUME ToggleUi PROVE Counted'
    BY <1>15 DEF ToggleUi
  <1>16. ASSUME Disconnect PROVE Counted'
    BY <1>16 DEF Disconnect
  <1>17. ASSUME NoMoreEvents PROVE Counted'
    BY <1>17 DEF NoMoreEvents
  <1>18. ASSUME RunDsu PROVE Counted'
    BY <1>18 DEF RunDsu
  <1>19. ASSUME DsuFails PROVE Counted'
    BY <1>19 DEF DsuFails
  <1>20. ASSUME RunStream PROVE Counted'
    BY <1>20 DEF RunStream
  <1>21. ASSUME StreamFails PROVE Counted'
    BY <1>21 DEF StreamFails
  <1>22. ASSUME WaitTop PROVE Counted'
    BY <1>22 DEF WaitTop
  <1>23. ASSUME TopLost PROVE Counted'
    BY <1>23 DEF TopLost
  <1>24. ASSUME WaitBottom PROVE Counted'
    BY <1>24 DEF WaitBottom
  <1>25. ASSUME BottomLost PROVE Counted'
    BY <1>25 DEF BottomLost
  <1>26. ASSUME CleanUp PROVE Counted'
    BY <1>26 DEF CleanUp
  <1>27. ASSUME Retry PROVE Counted'
    BY <1>27 DEF Retry
  <1>28. ASSUME Quit PROVE Counted'
    BY <1>28 DEF Quit
  <1>29. ASSUME SafeExit PROVE Counted'
    BY <1>29 DEF SafeExit
  <1>30. ASSUME Ended PROVE Counted'
    BY <1>30 DEF Ended, vars
  <1>31. ASSUME UNCHANGED vars PROVE Counted'
    BY <1>31 DEF vars
  <1> QED
    BY <1>1, <1>2, <1>3, <1>4, <1>5, <1>6, <1>7, <1>8, <1>9, <1>10,
       <1>11, <1>12, <1>13, <1>14, <1>15, <1>16, <1>17, <1>18, <1>19, <1>20,
       <1>21, <1>22, <1>23, <1>24, <1>25, <1>26, <1>27, <1>28, <1>29, <1>30,
       <1>31
    DEF Next, Start, Loop, Command, Loss

(* The invariant of the event target holds whatever fails.                 *)
THEOREM TargetInvariant == Spec => []TargetInv
  <1>1. Init => TargetInv
    BY TypesInit DEF Init, TargetInv, Steered, Targetable, TargetInStep, InLoop
  <1>2. TargetInv /\ [Next]_vars => TargetInv'
    BY TypesNext, TargetNext DEF TargetInv
  <1> QED
    BY <1>1, <1>2, PTL DEF Spec

(* handleSDLEvent() never sends through a client that is not there.        *)
THEOREM TargetIsThere == Spec => []NoNullTarget
  <1>1. TargetInv => NoNullTarget
    BY DEF TargetInv, Types, Flags, Steered, Targetable, NoNullTarget, EventsTo
  <1> QED
    BY <1>1, TargetInvariant, PTL

(* The loop's idea of the event target, and what each server was told of   *)
(* its cursor, follow every command and every loss of a client.            *)
THEOREM TargetFollows == Spec => []TargetInStep
  <1>1. TargetInv => TargetInStep
    BY DEF TargetInv, Steered
  <1> QED
    BY <1>1, TargetInvariant, PTL

(* The invariant of the count, if the Cemuhook server starts when wanted.  *)
THEOREM CountInvariant == ASSUME ~DsuMayFail PROVE Spec => []CountInv
  <1>1. Init => CountInv
    BY TypesInit
    DEF Init, CountInv, Counted, NotYetStarted, ActiveCounts, Starting, InLoop
  <1>2. CountInv /\ [Next]_vars => CountInv'
    BY TypesNext, CountNext DEF CountInv
  <1> QED
    BY <1>1, <1>2, PTL DEF Spec

(* Every variable keeps its range; `active`, in particular, never goes     *)
(* below zero, where the loop would not end.                               *)
THEOREM Typed == ASSUME ~DsuMayFail PROVE Spec => []TypeOK
  <1>1. CountInv => TypeOK
    BY DEF CountInv, Counted, Types, Place, Flags, Feeds, TypeOK
  <1> QED
    BY <1>1, CountInvariant, PTL

(* main()'s `active` is the number of services that run, in every turn of  *)
(* every session: the loop ends when the last has failed and not before.   *)
THEOREM ActiveIsServices == ASSUME ~DsuMayFail PROVE Spec => []ActiveCounts
  <1>1. CountInv => ActiveCounts
    BY DEF CountInv, Counted
  <1> QED
    BY <1>1, CountInvariant, PTL

==============================================================================
