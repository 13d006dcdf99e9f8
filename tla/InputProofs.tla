------------------------------ MODULE InputProofs ------------------------------
(***************************************************************************)
(* Proofs about what the user gives the program: the keys of KeyInput.tla, *)
(* for every set of buttons and every keymap, and the menu and file of     *)
(* ConfigMenu.tla, for any number of entries and whatever is typed.        *)
(***************************************************************************)
EXTENDS KeyInput, ConfigMenu, NumberLemmas

(* Between sessions nothing is pressed anywhere, keys are not sent where   *)
(* there is no server, and what a press sent is what the keymap says.      *)
QuietBetween == session = "none" => server = Nowhere
NoKeysToFeeds == session = "feeds" => ~ctr_vnc_keys
SentByKeymap ==
    \A b \in Button : by[b] # None => by[b].sym = Keymap(by[b].shift, b)

KeyInv ==
    /\ TypeOK /\ RepeatsHeldButton
    /\ QuietBetween /\ NoKeysToFeeds /\ SentByKeymap

(* The state that a key event changes, when it may be any.                 *)
Meant ==
    /\ session \in {"none", "vnc", "feeds"}
    /\ shift \in BOOLEAN /\ uib_qmenu_active \in BOOLEAN
    /\ ctr_vnc_keys \in BOOLEAN /\ eventtarget \in Target
    /\ server \in [Target -> SUBSET Symbol]
    /\ by \in [Button -> Sent \cup {None}]
    /\ QuietBetween /\ NoKeysToFeeds /\ SentByKeymap
------------------------------------------------------------------------------
(* Keys are symbols or commands, never both; a symbol that a press sends is *)
(* the keymap's.                                                           *)
LEMMA KeymapType ==
    ASSUME NEW s \in BOOLEAN, NEW b \in Button
    PROVE  Keymap(s, b) \in Symbol \cup Command
  BY KeyAssumption DEF Keymap, Command

(* The menu gives commands only.                                           *)
LEMMA MeaningIs ==
    ASSUME NEW b \in Button, NEW pressed \in BOOLEAN,
           shift \in BOOLEAN, uib_qmenu_active \in BOOLEAN
    PROVE  /\ Meaning(b, pressed) \in Symbol \cup Command
           /\ uib_qmenu_active => Meaning(b, pressed) \in Command \ {"SHIFT", "QMENU"}
           /\ ~uib_qmenu_active => Meaning(b, pressed) = Keymap(shift, b)
  <1>1. CASE uib_qmenu_active /\ pressed
    BY <1>1, KeyAssumption DEF Meaning
  <1>2. CASE uib_qmenu_active /\ ~pressed
    BY <1>2, KeyAssumption DEF Meaning, Command
  <1>3. CASE ~uib_qmenu_active
    BY <1>3, KeymapType DEF Meaning
  <1> QED
    BY <1>1, <1>2, <1>3

(* A key event, pressed or released, keeps what a key event may change.    *)
LEMMA HandleMeant ==
    ASSUME Meant, NEW b \in Button, NEW pressed \in BOOLEAN, Handle(b, pressed)
    PROVE  Meant'
  <1>1. CASE session = "none"
    BY <1>1 DEF Handle, meaning, Meant, QuietBetween, NoKeysToFeeds, SentByKeymap
  <1>2. CASE session # "none"
    <2> DEFINE c == Meaning(b, pressed)
    <2>o. Obey(b, c, pressed)
      BY <1>2 DEF Handle
    <2>m. /\ c \in Symbol \cup Command
          /\ c \in Symbol => c = Keymap(shift, b)
      BY MeaningIs, KeyAssumption DEF Meant
    <2>d. c = "DISCONNECT" => c \notin Symbol
      BY KeyAssumption DEF Command
    <2> HIDE DEF c
    <2>1. /\ session' \in {"none", "vnc", "feeds"}
          /\ shift' \in BOOLEAN /\ uib_qmenu_active' \in BOOLEAN
      BY <2>o DEF Obey, Meant
    <2>2. ctr_vnc_keys' \in BOOLEAN
      BY <2>o DEF Obey, Meant
    <2>3. eventtarget' \in Target
      BY <2>o DEF Obey, Meant, Target
    <2>4. server' \in [Target -> SUBSET Symbol]
      <3>1. CASE c = "DISCONNECT"
        BY <3>1, <2>d, <2>o DEF Obey, Nowhere
      <3>2. CASE c # "DISCONNECT" /\ c \in Symbol /\ ctr_vnc_keys
        <4>1. Send(c, pressed)
          BY <3>2, <2>o DEF Obey
        <4> QED
          BY <4>1, <3>2 DEF Send, Meant
      <3>3. CASE c # "DISCONNECT" /\ ~(c \in Symbol /\ ctr_vnc_keys)
        BY <3>3, <2>o DEF Obey, Meant
      <3> QED
        BY <3>1, <3>2, <3>3
    <2>5. by' \in [Button -> Sent \cup {None}] /\ SentByKeymap'
      <3>1. CASE c \in Symbol /\ ctr_vnc_keys /\ pressed
        <4>1. by' = [by EXCEPT ![b] = [sym |-> c, to |-> eventtarget, shift |-> shift]]
          BY <3>1, <2>o DEF Obey
        <4>2. [sym |-> c, to |-> eventtarget, shift |-> shift] \in Sent
          BY <3>1 DEF Sent, Meant
        <4> QED
          BY <4>1, <4>2, <2>m, <3>1 DEF SentByKeymap, Meant
      <3>2. CASE ~(c \in Symbol /\ ctr_vnc_keys /\ pressed)
        BY <3>2, <2>o DEF Obey, Meant, SentByKeymap
      <3> QED
        BY <3>1, <3>2
    <2>6. QuietBetween' /\ NoKeysToFeeds'
      <3>1. CASE c = "DISCONNECT"
        BY <3>1, <2>d, <2>o DEF Obey, QuietBetween, NoKeysToFeeds
      <3>2. CASE c # "DISCONNECT"
        BY <3>2, <1>2, <2>o DEF Obey, QuietBetween, NoKeysToFeeds, Meant
      <3> QED
        BY <3>1, <3>2
    <2> QED
      BY <2>1, <2>2, <2>3, <2>4, <2>5, <2>6 DEF Meant
  <1> QED
    BY <1>1, <1>2

(* When the program starts nothing is held and nothing is sent.            *)
LEMMA KeyInit == Init => KeyInv
  <1> SUFFICES ASSUME Init PROVE KeyInv
    OBVIOUS
  <1>1. server = Nowhere /\ server \in [Target -> SUBSET Symbol]
    BY DEF Init, Nowhere
  <1>2. /\ \A b \in Button : by[b] = None
        /\ by \in [Button -> Sent \cup {None}]
    BY DEF Init
  <1>3. TypeOK
    <2>1. /\ session \in {"none", "vnc", "feeds"} /\ held \subseteq Button
          /\ keydown \in Button \cup {None} /\ repeat_state \in 0 .. 2
          /\ eventtarget \in Target
      BY DEF Init, Target
    <2>2. /\ shift \in BOOLEAN /\ uib_qmenu_active \in BOOLEAN
          /\ ctr_vnc_keys \in BOOLEAN
      BY DEF Init
    <2> QED
      BY <1>1, <1>2, <2>1, <2>2 DEF TypeOK
  <1> QED
    BY <1>1, <1>2, <1>3
    DEF Init, KeyInv, RepeatsHeldButton, QuietBetween, NoKeysToFeeds, SentByKeymap

(* Every step keeps the invariant.                                         *)
LEMMA KeyNext == KeyInv /\ [Next]_vars => KeyInv'
  <1> SUFFICES ASSUME KeyInv, [Next]_vars PROVE KeyInv'
    OBVIOUS
  <1>m. Meant
    BY DEF KeyInv, Meant, TypeOK
  <1>t. /\ held \subseteq Button /\ RepeatsHeldButton
        /\ keydown \in Button \cup {None} /\ repeat_state \in 0 .. 2
    BY DEF KeyInv, TypeOK
  <1> DEFINE Rest ==
        /\ held \subseteq Button /\ RepeatsHeldButton
        /\ keydown \in Button \cup {None} /\ repeat_state \in 0 .. 2
  <1>q. Meant' /\ Rest' => KeyInv'
    BY DEF KeyInv, Meant, TypeOK
  <1>1. ASSUME NEW b \in Button, Press(b) PROVE KeyInv'
    <2>1. Meant'
      BY <1>1, <1>m, HandleMeant DEF Press
    <2>2. Rest'
      BY <1>1, <1>t DEF Press, RepeatsHeldButton
    <2> QED
      BY <2>1, <2>2, <1>q
  <1>2. ASSUME NEW b \in Button, Release(b) PROVE KeyInv'
    <2>1. Meant'
      BY <1>2, <1>m, HandleMeant DEF Release
    <2>2. Rest'
      BY <1>2, <1>t DEF Release, RepeatsHeldButton
    <2> QED
      BY <2>1, <2>2, <1>q
  <1>3. ASSUME CheckKeyRepeat PROVE KeyInv'
    <2>1. keydown \in Button
      BY <1>3, <1>t DEF CheckKeyRepeat
    <2>2. Meant'
      <3>1. CASE Handle(keydown, TRUE)
        BY <3>1, <2>1, <1>m, HandleMeant
      <3>2. CASE Handle(keydown, FALSE)
        BY <3>2, <2>1, <1>m, HandleMeant
      <3>3. CASE UNCHANGED <<session, meaning, server, by>>
        BY <3>3, <1>m
        DEF meaning, Meant, QuietBetween, NoKeysToFeeds, SentByKeymap
      <3> QED
        BY <3>1, <3>2, <3>3, <1>3 DEF CheckKeyRepeat
    <2>3. Rest'
      BY <1>3, <1>t DEF CheckKeyRepeat, RepeatsHeldButton, NextRepeat
    <2> QED
      BY <2>2, <2>3, <1>q
  <1>4. ASSUME StartSession PROVE KeyInv'
    <2>1. /\ session' \in {"vnc", "feeds"} /\ eventtarget' \in Target
          /\ ctr_vnc_keys' \in BOOLEAN /\ (session' = "feeds" => ~ctr_vnc_keys')
      BY <1>4 DEF StartSession
    <2>2. /\ server' \in [Target -> SUBSET Symbol]
          /\ by' \in [Button -> Sent \cup {None}]
          /\ \A b \in Button : by'[b] = None
      BY <1>4 DEF StartSession, Nowhere
    <2>3. Meant'
      BY <1>4, <1>m, <2>1, <2>2
      DEF StartSession, Meant, QuietBetween, NoKeysToFeeds, SentByKeymap
    <2>4. Rest'
      BY <1>4, <1>t DEF StartSession, repeat, RepeatsHeldButton
    <2> QED
      BY <2>3, <2>4, <1>q
  <1>5. ASSUME LoseSession PROVE KeyInv'
    <2>1. server' \in [Target -> SUBSET Symbol]
      BY <1>5 DEF LoseSession, Nowhere
    <2>2. Meant'
      BY <1>5, <1>m, <2>1
      DEF LoseSession, meaning, Meant, QuietBetween, NoKeysToFeeds, SentByKeymap
    <2>3. Rest'
      BY <1>5, <1>t DEF LoseSession, repeat, RepeatsHeldButton
    <2> QED
      BY <2>2, <2>3, <1>q
  <1>6. ASSUME UNCHANGED vars PROVE KeyInv'
    <2>1. Meant'
      BY <1>6, <1>m
      DEF vars, meaning, repeat, Meant, QuietBetween, NoKeysToFeeds, SentByKeymap
    <2>2. Rest'
      BY <1>6, <1>t DEF vars, repeat, RepeatsHeldButton
    <2> QED
      BY <2>1, <2>2, <1>q
  <1> QED
    BY <1>1, <1>2, <1>3, <1>4, <1>5, <1>6 DEF Next

(* The invariant holds in every reachable state.                           *)
THEOREM KeyInvariant == Spec => []KeyInv
  <1>1. Init => KeyInv
    BY KeyInit
  <1>2. KeyInv /\ [Next]_vars => KeyInv'
    BY KeyNext
  <1> QED
    BY <1>1, <1>2, PTL DEF Spec

(* checkKeyRepeat() repeats a button only while it is held, through every  *)
(* menu, session and release of another button.                            *)
THEOREM RepeatIsHeld == Spec => []RepeatsHeldButton
  <1>1. KeyInv => RepeatsHeldButton
    BY DEF KeyInv
  <1> QED
    BY <1>1, KeyInvariant, PTL

(* "do not send keyup events for repeating when RFB connection is active": *)
(* whatever the keymap, the repeat never makes a key go up at a server.    *)
THEOREM RepeatNeverReleases == Spec => HeldStaysDown
  <1>1. ASSUME KeyInv, Next, held' = held, session' = session
        PROVE  \A t \in Target : server[t] \subseteq server'[t]
    <2>1. CheckKeyRepeat
      <3>1. ASSUME NEW b \in Button PROVE ~Press(b) /\ ~Release(b)
        BY <1>1 DEF Press, Release
      <3>2. ~StartSession /\ ~LoseSession
        BY <1>1 DEF StartSession, LoseSession
      <3> QED
        BY <1>1, <3>1, <3>2 DEF Next
    <2>t. /\ server \in [Target -> SUBSET Symbol] /\ keydown \in Button
          /\ shift \in BOOLEAN /\ uib_qmenu_active \in BOOLEAN
          /\ session \in {"none", "vnc", "feeds"} /\ NoKeysToFeeds
      BY <1>1, <2>1 DEF KeyInv, TypeOK, CheckKeyRepeat
    <2>2. ASSUME NEW pressed \in BOOLEAN, session # "none",
                 Handle(keydown, pressed), pressed \/ ~ctr_vnc_keys
          PROVE  \A t \in Target : server[t] \subseteq server'[t]
      <3> DEFINE c == Meaning(keydown, pressed)
      <3>o. Obey(keydown, c, pressed)
        BY <2>2 DEF Handle
      <3> HIDE DEF c
      <3>1. c # "DISCONNECT"
        BY <3>o, <1>1, <2>2 DEF Obey
      <3>2. CASE c \in Symbol /\ ctr_vnc_keys
        <4>1. Send(c, TRUE)
          BY <3>o, <3>1, <3>2, <2>2 DEF Obey
        <4> QED
          BY <4>1, <2>t DEF Send
      <3>3. CASE ~(c \in Symbol /\ ctr_vnc_keys)
        BY <3>o, <3>1, <3>3 DEF Obey
      <3> QED
        BY <3>2, <3>3
    <2>3. CASE Handle(keydown, TRUE)
      <3>1. CASE session = "none"
        BY <2>3, <3>1 DEF Handle
      <3>2. CASE session # "none"
        BY <2>2, <2>3, <3>2
      <3> QED
        BY <3>1, <3>2
    <2>4. CASE Handle(keydown, FALSE) /\ session # "vnc"
      <3>1. CASE session = "none"
        BY <2>4, <3>1 DEF Handle
      <3>2. CASE session = "feeds"
        BY <2>2, <2>4, <2>t, <3>2 DEF NoKeysToFeeds
      <3> QED
        BY <2>4, <2>t, <3>1, <3>2
    <2>5. CASE UNCHANGED server
      BY <2>5
    <2> QED
      BY <2>1, <2>3, <2>4, <2>5 DEF CheckKeyRepeat, RepeatReleases
  <1>2. KeyInv /\ [Next]_vars =>
            [held' = held /\ session' = session =>
                \A t \in Target : server[t] \subseteq server'[t]]_vars
    BY <1>1
  <1> QED
    BY <1>2, KeyInvariant, PTL DEF Spec, HeldStaysDown

(* Only Release() takes a button from those that are held.                 *)
LEMMA OnlyReleaseReleases ==
    ASSUME Next, NEW b \in held \ held'
    PROVE  Release(b)
  BY DEF Next, Press, Release, CheckKeyRepeat, StartSession, LoseSession

(* Whatever the keymap, a key is left pressed at a server only if the menu, *)
(* keys to VNC, shift or the event target changed what its release meant.  *)
THEOREM ReleaseReaches == Spec => KeysReleased
  <1>1. ASSUME KeyInv, Next, NEW b \in held \ held', Orphans(b),
               ~uib_qmenu_active, ctr_vnc_keys,
               by[b].shift = shift, by[b].to = eventtarget
        PROVE  FALSE
    <2>t. /\ b \in Button /\ by[b] \in Sent
          /\ server \in [Target -> SUBSET Symbol] /\ eventtarget \in Target
          /\ shift \in BOOLEAN /\ uib_qmenu_active \in BOOLEAN
      BY <1>1 DEF KeyInv, TypeOK, Orphans
    <2>1. Handle(b, FALSE)
      BY <1>1, OnlyReleaseReleases DEF Release
    <2>2. CASE session = "none"
      <3>1. server'[by[b].to] = {}
        BY <1>1, <2>1, <2>2, <2>t DEF Handle, KeyInv, QuietBetween, Nowhere
      <3> QED
        BY <3>1, <1>1 DEF Orphans
    <2>3. CASE session # "none"
      <3> DEFINE c == Meaning(b, FALSE)
      <3>o. Obey(b, c, FALSE)
        BY <2>1, <2>3 DEF Handle
      <3>1. c = by[b].sym /\ c \in Symbol
        BY <1>1, <2>t, MeaningIs DEF KeyInv, SentByKeymap, Orphans, Sent
      <3>2. c # "DISCONNECT"
        BY <3>1, KeyAssumption DEF Command
      <3> HIDE DEF c
      <3>3. Send(c, FALSE)
        BY <3>o, <3>1, <3>2, <1>1 DEF Obey
      <3>4. c \notin server'[eventtarget]
        BY <3>3, <2>t DEF Send
      <3> QED
        BY <3>1, <3>4, <1>1 DEF Orphans
    <2> QED
      BY <2>2, <2>3
  <1>2. KeyInv /\ [Next]_vars =>
            [\A b \in held \ held' :
               Orphans(b) => \/ uib_qmenu_active \/ ~ctr_vnc_keys
                             \/ by[b].shift # shift \/ by[b].to # eventtarget]_vars
    BY <1>1
  <1> QED
    BY <1>2, KeyInvariant, PTL DEF Spec, KeysReleased

(* If no layer but the first opens the menu, shift is off while it is      *)
(* shown: the release that the menu swallows was not shift's.              *)
MenuUnshifted == uib_qmenu_active => ~shift

(* No event of a button lets the menu be shown with shift on.              *)
LEMMA HandleMenu ==
    ASSUME \A b \in Button : Keymap(TRUE, b) # "QMENU",
           KeyInv, MenuUnshifted, NEW b \in Button, NEW pressed \in BOOLEAN,
           Handle(b, pressed)
    PROVE  MenuUnshifted'
  <1>1. CASE session = "none"
    BY <1>1 DEF Handle, meaning, MenuUnshifted
  <1>2. CASE session # "none"
    <2> DEFINE c == Meaning(b, pressed)
    <2>t. shift \in BOOLEAN /\ uib_qmenu_active \in BOOLEAN
      BY DEF KeyInv, TypeOK
    <2>o. Obey(b, c, pressed)
      BY <1>2 DEF Handle
    <2>m. /\ uib_qmenu_active => c # "SHIFT" /\ c # "QMENU"
          /\ c = "QMENU" => ~shift
      BY <2>t, MeaningIs
    <2> HIDE DEF c
    <2>1. CASE pressed
      BY <2>1, <2>o, <2>m DEF Obey, MenuUnshifted
    <2>2. CASE ~pressed
      BY <2>2, <2>o, <2>m DEF Obey, MenuUnshifted
    <2> QED
      BY <2>1, <2>2
  <1> QED
    BY <1>1, <1>2

(* If no layer but the first opens the menu, the release of a shift button *)
(* in a session always ends the shift.                                     *)
THEOREM ShiftEnds ==
    ASSUME \A b \in Button : Keymap(TRUE, b) # "QMENU"
    PROVE  Spec => ShiftReleased
  <1>1. Init => MenuUnshifted
    BY DEF Init, MenuUnshifted
  <1>2. KeyInv /\ MenuUnshifted /\ [Next]_vars => MenuUnshifted'
    <2> SUFFICES ASSUME KeyInv, MenuUnshifted, [Next]_vars PROVE MenuUnshifted'
      OBVIOUS
    <2>1. ASSUME NEW b \in Button, Press(b) PROVE MenuUnshifted'
      BY <2>1, HandleMenu DEF Press
    <2>2. ASSUME NEW b \in Button, Release(b) PROVE MenuUnshifted'
      BY <2>2, HandleMenu DEF Release
    <2>3. ASSUME CheckKeyRepeat PROVE MenuUnshifted'
      <3>1. keydown \in Button
        BY <2>3 DEF CheckKeyRepeat, KeyInv, TypeOK
      <3>2. CASE UNCHANGED <<session, meaning, server, by>>
        BY <3>2 DEF meaning, MenuUnshifted
      <3> QED
        BY <2>3, <3>1, <3>2, HandleMenu DEF CheckKeyRepeat
    <2>4. ASSUME StartSession PROVE MenuUnshifted'
      BY <2>4 DEF StartSession, MenuUnshifted
    <2>5. ASSUME LoseSession PROVE MenuUnshifted'
      BY <2>5 DEF LoseSession, meaning, MenuUnshifted
    <2>6. ASSUME UNCHANGED vars PROVE MenuUnshifted'
      BY <2>6 DEF vars, meaning, MenuUnshifted
    <2> QED
      BY <2>1, <2>2, <2>3, <2>4, <2>5, <2>6 DEF Next
  <1>3. Spec => []MenuUnshifted
    BY <1>1, <1>2, KeyInvariant, PTL DEF Spec
  <1>4. ASSUME KeyInv, MenuUnshifted, Next, NEW b \in held \ held',
               session # "none", Keymap(FALSE, b) = "SHIFT"
        PROVE  ~shift'
    <2> DEFINE c == Meaning(b, FALSE)
    <2>t. b \in Button /\ shift \in BOOLEAN /\ uib_qmenu_active \in BOOLEAN
      BY <1>4 DEF KeyInv, TypeOK
    <2>1. Keymap(TRUE, b) = "SHIFT"
      BY <1>4, <2>t, KeyAssumption DEF Keymap, Command
    <2>2. Obey(b, c, FALSE)
      BY <1>4, OnlyReleaseReleases DEF Release, Handle
    <2>3. ~uib_qmenu_active => c = "SHIFT"
      BY <1>4, <2>1, <2>t, MeaningIs
    <2>4. uib_qmenu_active => c # "SHIFT"
      BY <2>t, MeaningIs
    <2> HIDE DEF c
    <2> QED
      BY <2>2, <2>3, <2>4, <1>4 DEF Obey, MenuUnshifted
  <1>5. KeyInv /\ MenuUnshifted /\ [Next]_vars =>
            [\A b \in held \ held' :
               session # "none" /\ Keymap(FALSE, b) = "SHIFT" => ~shift']_vars
    BY <1>4
  <1> QED
    BY <1>3, <1>5, KeyInvariant, PTL DEF Spec, ShiftReleased

------------------------------------------------------------------------------
(* What a user gives and what an address makes are names; an entry in the   *)
(* list, on the card and in the form is one, and its name is as it should  *)
(* be.                                                                     *)
GoodEntry(c) == c \in Entry /\ Named(c)

(* A file that this version wrote says so.                                 *)
MenuInv ==
    /\ DOMAIN conf = Index /\ \A i \in Index : GoodEntry(conf[i])
    /\ sel \in Index /\ cpy \in 0 .. NUMCONF
    /\ GoodEntry(nc)
    /\ \A i \in Index : GoodEntry(file.entries[i])
    /\ saved => file.version = "now"

LEMMA DefaultGood == GoodEntry(default_config)
  <1> DEFINE d == default_config
  <1>1. /\ d.name = NoName /\ d.typed = Derives /\ d.host = Empty /\ d.user = Empty
        /\ d.port = DefaultPort
    BY DEF default_config
  <1>2. d \in Entry
    BY DEF default_config, Entry, Switches
  <1>3. Named(d)
    <2> HIDE DEF d
    <2> QED
      BY <1>1 DEF Named, Derived
  <1> QED
    BY <1>2, <1>3 DEF GoodEntry

(* An older file's entry is one, too.                                      *)
LEMMA UpgradedGood ==
    ASSUME NEW c, GoodEntry(c)
    PROVE  GoodEntry(Upgraded(c))
  <1> DEFINE d == Upgraded(c)
             on == default_config.on
  <1>1. on \in SUBSET Switches
    BY DEF default_config, Switches
  <1>2. d = [name |-> c.name, typed |-> c.typed, host |-> c.host, port |-> c.port,
             user |-> c.user, on |-> on]
    <2> DEFINE e == default_config
    <2>1. e \in [{"name", "typed", "host", "port", "user", "on"} -> {e[x] : x \in DOMAIN e}]
      BY DEF default_config
    <2>2. d = [e EXCEPT !.name = c.name, !.typed = c.typed, !.host = c.host,
                        !.port = c.port, !.user = c.user]
      BY DEF Upgraded
    <2>3. on = e.on
      OBVIOUS
    <2> HIDE DEF e, d, on
    <2> QED
      BY <2>1, <2>2, <2>3
  <1> HIDE DEF d, on
  <1>3. d \in Entry
    BY <1>1, <1>2 DEF GoodEntry, Entry
  <1>4. /\ d.name = c.name /\ d.typed = c.typed /\ d.host = c.host
        /\ d.port = c.port /\ d.user = c.user
    BY <1>2
  <1>5. Named(d)
    BY <1>4 DEF GoodEntry, Named, Derived
  <1> QED
    BY <1>3, <1>5 DEF GoodEntry, d

(* An entry is changed field by field.                                     *)
LEMMA EntryFields ==
    ASSUME NEW c \in Entry
    PROVE  /\ c = [name |-> c.name, typed |-> c.typed, host |-> c.host,
                   port |-> c.port, user |-> c.user, on |-> c.on]
           /\ c.typed \in Names \cup {NoName, Derives}
           /\ c.host \in Hosts \cup {Empty} /\ c.port \in Ports \cup {DefaultPort}
           /\ c.user \in Users \cup {Empty} /\ c.on \in SUBSET Switches
  BY DEF Entry

(* The derived name of an entry is a name.                                 *)
LEMMA DerivedName ==
    ASSUME NEW h \in Hosts \cup {Empty}, NEW p \in Ports \cup {DefaultPort},
           NEW u \in Users \cup {Empty}, NEW c, c.host = h, c.port = p, c.user = u
    PROVE  Derived(c) \in {NoName} \cup
               ((Users \cup {Empty}) \X (Hosts \cup {Empty}) \X (Ports \cup {DefaultPort}))
  BY DEF Derived

(* checkset(): however the address is changed, the name follows it or is   *)
(* the one the user gave.                                                  *)
LEMMA ChecksetGood ==
    ASSUME NEW c, GoodEntry(c),
           NEW h \in Hosts \cup {Empty}, NEW p \in Ports \cup {DefaultPort},
           NEW u \in Users \cup {Empty},
           NEW new, new = [name |-> c.name, typed |-> c.typed, host |-> h,
                           port |-> p, user |-> u, on |-> c.on]
    PROVE  GoodEntry(Checkset(c, new))
  <1> DEFINE d == Checkset(c, new)
             derived == Derived(new)
  <1>0. c \in Entry /\ c.on \in SUBSET Switches
    BY EntryFields DEF GoodEntry
  <1>1. new \in Entry /\ new.host = h /\ new.port = p /\ new.user = u
        /\ new.name = c.name /\ new.typed = c.typed
    BY <1>0 DEF Entry
  <1>2. derived \in {NoName} \cup
            ((Users \cup {Empty}) \X (Hosts \cup {Empty}) \X (Ports \cup {DefaultPort}))
    BY <1>1, DerivedName
  <1>3. CASE c.name \in {NoName, Derived(c)}
    <2>1. d = [name |-> derived, typed |-> Derives, host |-> h, port |-> p,
               user |-> u, on |-> c.on]
      BY <1>3 DEF Checkset
    <2> HIDE DEF d, derived
    <2>2. d \in Entry
      BY <1>0, <1>2, <2>1 DEF Entry
    <2>3. /\ d.name = derived /\ d.typed = Derives /\ d.host = h
          /\ d.port = p /\ d.user = u
      BY <2>1
    <2>4. Derived(d) = derived
      BY <1>1, <2>3 DEF Derived, derived
    <2> QED
      BY <2>2, <2>3, <2>4 DEF GoodEntry, Named, d
  <1>4. CASE c.name \notin {NoName, Derived(c)}
    <2>1. d = new
      BY <1>4 DEF Checkset
    <2>2. c.typed # Derives /\ c.name = c.typed
      BY <1>4 DEF GoodEntry, Named
    <2>3. Named(new)
      BY <1>1, <2>2 DEF Named
    <2> QED
      BY <1>1, <2>1, <2>3 DEF GoodEntry
  <1> QED
    BY <1>3, <1>4

(* Whatever A does to the field the cursor is at, the entry is good.       *)
LEMMA EditedGood ==
    ASSUME NEW c, GoodEntry(c), NEW f, NEW d \in Edited(c, f)
    PROVE  GoodEntry(d)
  <1>1. /\ c \in Entry
        /\ c = [name |-> c.name, typed |-> c.typed, host |-> c.host,
                port |-> c.port, user |-> c.user, on |-> c.on]
        /\ c.host \in Hosts \cup {Empty} /\ c.port \in Ports \cup {DefaultPort}
        /\ c.user \in Users \cup {Empty} /\ c.on \in SUBSET Switches
    BY EntryFields DEF GoodEntry
  <1>2. CASE f = "NAME"
    <2>1. PICK n \in Names \cup {NoName} : d = Renamed(c, n)
      BY <1>2 DEF Edited, Switches
    <2> DEFINE derived == Derived(c)
               typed == IF n = derived THEN Derives ELSE n
    <2>2. d = [name |-> n, typed |-> typed, host |-> c.host, port |-> c.port,
               user |-> c.user, on |-> c.on]
      <3>1. d = [c EXCEPT !.name = n, !.typed = typed]
        BY <2>1 DEF Renamed
      <3> HIDE DEF typed
      <3> QED
        BY <1>1, <3>1
    <2>3. typed \in Names \cup {NoName, Derives}
      OBVIOUS
    <2> HIDE DEF typed, derived
    <2>4. d \in Entry
      BY <1>1, <2>2, <2>3 DEF Entry
    <2>5. /\ d.name = n /\ d.typed = typed /\ d.host = c.host
          /\ d.port = c.port /\ d.user = c.user
      BY <2>2
    <2>6. Derived(d) = derived
      BY <2>5 DEF Derived, derived
    <2>7. n # Derives
      <3>1. Len(NoName) = 0 /\ Len(Derives) = 1
        BY DEF NoName, Derives
      <3>2. NoName # Derives
        BY <3>1
      <3>3. Derives \notin Names
        BY EditAssumption
      <3> QED
        BY <3>2, <3>3
    <2>8. Named(d)
      BY <2>5, <2>6, <2>7 DEF Named, typed
    <2> QED
      BY <2>4, <2>8 DEF GoodEntry
  <1>3. CASE f \in {"HOST", "PORT", "USER"}
    <2>1. PICK h \in Hosts \cup {Empty}, p \in Ports \cup {DefaultPort},
               u \in Users \cup {Empty} :
            d = Checkset(c, [name |-> c.name, typed |-> c.typed, host |-> h,
                             port |-> p, user |-> u, on |-> c.on])
      <3>1. CASE f = "HOST"
        <4>1. PICK h \in Hosts \cup {Empty} : d = Checkset(c, [c EXCEPT !.host = h])
          BY <3>1 DEF Edited, Switches
        <4>2. [c EXCEPT !.host = h] =
                  [name |-> c.name, typed |-> c.typed, host |-> h,
                   port |-> c.port, user |-> c.user, on |-> c.on]
          BY <1>1
        <4> QED
          BY <1>1, <4>1, <4>2
      <3>2. CASE f = "PORT"
        <4>1. PICK p \in Ports : d = Checkset(c, [c EXCEPT !.port = p])
          BY <3>2 DEF Edited, Switches
        <4>2. [c EXCEPT !.port = p] =
                  [name |-> c.name, typed |-> c.typed, host |-> c.host,
                   port |-> p, user |-> c.user, on |-> c.on]
          BY <1>1
        <4> QED
          BY <1>1, <4>1, <4>2
      <3>3. CASE f = "USER"
        <4>1. PICK u \in Users \cup {Empty} : d = Checkset(c, [c EXCEPT !.user = u])
          BY <3>3 DEF Edited, Switches
        <4>2. [c EXCEPT !.user = u] =
                  [name |-> c.name, typed |-> c.typed, host |-> c.host,
                   port |-> c.port, user |-> u, on |-> c.on]
          BY <1>1
        <4> QED
          BY <1>1, <4>1, <4>2
      <3> QED
        BY <1>3, <3>1, <3>2, <3>3
    <2> QED
      BY <2>1, ChecksetGood
  <1>4. CASE f \in Switches
    <2>1. d = [c EXCEPT !.on = (@ \ {f}) \cup ({f} \ @)]
      BY <1>4 DEF Edited, Switches
    <2> DEFINE on == (c.on \ {f}) \cup ({f} \ c.on)
    <2>2. on \in SUBSET Switches
      BY <1>1, <1>4
    <2>3. d = [c EXCEPT !.on = on]
      BY <1>1, <2>1
    <2> HIDE DEF on
    <2>4. d = [name |-> c.name, typed |-> c.typed, host |-> c.host,
               port |-> c.port, user |-> c.user, on |-> on]
      BY <1>1, <2>3
    <2>5. d \in Entry
      BY <1>1, <2>2, <2>4 DEF Entry
    <2>6. /\ d.name = c.name /\ d.typed = c.typed /\ d.host = c.host
          /\ d.port = c.port /\ d.user = c.user
      BY <2>4
    <2> QED
      BY <2>5, <2>6 DEF GoodEntry, Named, Derived
  <1> QED
    BY <1>2, <1>3, <1>4 DEF Edited

(* readconfig() finds good entries in every file.                          *)
LEMMA ReadGood ==
    ASSUME MenuInv
    PROVE  DOMAIN Readconfig = Index /\ \A i \in Index : GoodEntry(Readconfig[i])
  <1>1. ASSUME NEW i \in Index
        PROVE  GoodEntry(Readconfig[i])
    <2>1. GoodEntry(file.entries[i]) /\ GoodEntry(Upgraded(file.entries[i]))
      BY UpgradedGood DEF MenuInv
    <2>2. Readconfig[i] \in {default_config, Upgraded(file.entries[i]), file.entries[i]}
      BY DEF Readconfig
    <2> QED
      BY <2>1, <2>2, DefaultGood
  <1> QED
    BY <1>1 DEF Readconfig

(* getconfig() puts the cursor at an entry, whichever of them are in use.  *)
LEMMA GetconfigGood ==
    ASSUME NEW entries, Getconfig(entries), sel \in Index
    PROVE  sel' \in Index /\ cpy' = 0 /\ GoodEntry(nc')
  <1> DEFINE used == {i \in Index : entries[i].host # Empty}
             first == CHOOSE i \in used : \A j \in used : i <= j
  <1>1. cpy' = 0
    BY DEF Getconfig
  <1>2. CASE used # {} /\ sel' = (IF sel \in used THEN sel ELSE first) /\ ClosedForm
    <2>1. used \in SUBSET Nat
      BY MenuAssumption DEF Index
    <2>2. \E i \in used : \A j \in used : i <= j
      <3> HIDE DEF used
      <3> QED
        BY <1>2, <2>1, LeastNumber
    <2>3. first \in used
      <3> HIDE DEF used
      <3> QED
        BY <2>2
    <2> HIDE DEF first
    <2>4. sel' \in Index
      BY <1>2, <2>3
    <2>5. nc' = default_config
      BY <1>2 DEF ClosedForm
    <2> QED
      BY <1>1, <2>4, <2>5, DefaultGood
  <1>3. CASE used = {} /\ UNCHANGED sel /\ OpenForm(default_config)
    <2>1. nc' = default_config
      BY <1>3 DEF OpenForm
    <2> QED
      BY <1>1, <1>3, <2>1, DefaultGood
  <1> HIDE DEF used, first
  <1>4. \/ used # {} /\ sel' = (IF sel \in used THEN sel ELSE first) /\ ClosedForm
        \/ used = {} /\ UNCHANGED sel /\ OpenForm(default_config)
    BY Zenon DEF Getconfig, used, first
  <1> QED
    BY <1>2, <1>3, <1>4

(* One entry of the list is replaced by a good one.                        *)
LEMMA EntrySet ==
    ASSUME MenuInv, NEW c, GoodEntry(c), conf' = [conf EXCEPT ![sel] = c]
    PROVE  DOMAIN conf' = Index /\ \A i \in Index : GoodEntry(conf'[i])
  BY DEF MenuInv

(* The program starts with good entries, and the file holds such.          *)
LEMMA MenuStarts == MenuInit => MenuInv
  <1> SUFFICES ASSUME MenuInit PROVE MenuInv
    OBVIOUS
  <1>1. /\ DOMAIN conf = Index /\ \A i \in Index : conf[i] = default_config
        /\ sel = 1 /\ cpy = 0 /\ nc = default_config /\ ~saved
    BY DEF MenuInit
  <1>2. sel \in Index /\ cpy \in 0 .. NUMCONF
    BY <1>1, MenuAssumption DEF Index
  <1>3. ASSUME NEW i \in Index
        PROVE  GoodEntry(file.entries[i])
    <2>1. file \in FirstFiles
      BY DEF MenuInit
    <2>2. file \in [version : STRING, entries : [Index -> Entry]]
      BY <2>1, MenuAssumption
    <2>3. Named(file.entries[i])
      BY <2>1, MenuAssumption
    <2>4. file.entries \in [Index -> Entry]
      BY <2>2
    <2> QED
      BY <2>3, <2>4 DEF GoodEntry
  <1> QED
    BY <1>1, <1>2, <1>3, DefaultGood DEF MenuInv

(* Every step keeps the invariant.                                         *)
LEMMA MenuKeeps == MenuInv /\ [MenuNext]_menuvars => MenuInv'
  <1> SUFFICES ASSUME MenuInv, [MenuNext]_menuvars
               PROVE  MenuInv'
    OBVIOUS
  <1>1. /\ DOMAIN conf = Index /\ \A i \in Index : GoodEntry(conf[i])
        /\ sel \in Index /\ cpy \in 0 .. NUMCONF
        /\ GoodEntry(nc)
        /\ \A i \in Index : GoodEntry(file.entries[i])
        /\ saved => file.version = "now"
    BY DEF MenuInv
  <1>2. NUMCONF \in Nat \ {0}
    BY MenuAssumption
  <1>c. ASSUME UNCHANGED card
        PROVE  /\ \A i \in Index : GoodEntry(file'.entries[i])
               /\ saved' => file'.version = "now"
    BY <1>1, <1>c DEF card
  <1>n. ASSUME UNCHANGED form \/ ClosedForm
        PROVE  GoodEntry(nc')
    BY <1>1, <1>n, DefaultGood DEF form, ClosedForm
  <1>3. ASSUME Start PROVE MenuInv'
    <2>1. DOMAIN conf' = Index /\ \A i \in Index : GoodEntry(conf'[i])
      BY <1>3, ReadGood DEF Start
    <2>2. sel' \in Index /\ cpy' = 0 /\ GoodEntry(nc')
      BY <1>1, <1>3, GetconfigGood DEF Start
    <2>3. UNCHANGED <<file, saved>>
      BY <1>3 DEF Start
    <2> QED
      BY <1>1, <1>2, <2>1, <2>2, <2>3 DEF MenuInv
  <1>4. ASSUME Move PROVE MenuInv'
    <2>1. /\ UNCHANGED <<conf, cpy>> /\ UNCHANGED form /\ UNCHANGED card
          /\ sel' \in {(sel % NUMCONF) + 1, ((sel + NUMCONF - 2) % NUMCONF) + 1}
      BY <1>4 DEF Move, Looking, Listing
    <2>2. sel' \in Index
      <3>1. \A a \in Int : a % NUMCONF \in 0 .. NUMCONF - 1
        BY <1>2
      <3>2. sel \in Int /\ sel + NUMCONF - 2 \in Int
        BY <1>1, <1>2 DEF Index
      <3>3. /\ sel % NUMCONF \in 0 .. NUMCONF - 1
            /\ (sel + NUMCONF - 2) % NUMCONF \in 0 .. NUMCONF - 1
        BY <3>1, <3>2
      <3> DEFINE a == sel % NUMCONF
                 b == (sel + NUMCONF - 2) % NUMCONF
      <3>4. a \in 0 .. NUMCONF - 1 /\ b \in 0 .. NUMCONF - 1 /\ sel' \in {a + 1, b + 1}
        BY <2>1, <3>3
      <3> HIDE DEF a, b
      <3> QED
        BY <1>2, <3>4 DEF Index
    <2> QED
      BY <1>1, <1>c, <1>n, <2>1, <2>2 DEF MenuInv
  <1>5. ASSUME Delete PROVE MenuInv'
    <2>1. /\ UNCHANGED <<sel, cpy>> /\ UNCHANGED form /\ UNCHANGED card
          /\ conf' = [conf EXCEPT ![sel] = default_config]
      BY <1>5 DEF Delete, Listing
    <2> QED
      BY <1>1, <1>c, <1>n, <2>1, EntrySet, DefaultGood DEF MenuInv
  <1>6. ASSUME Copy PROVE MenuInv'
    <2>1. /\ UNCHANGED <<conf, sel>> /\ UNCHANGED form /\ UNCHANGED card
          /\ cpy' \in {sel, 0}
      BY <1>6 DEF Copy, Looking, Listing
    <2>2. cpy' \in 0 .. NUMCONF
      BY <1>1, <1>2, <2>1 DEF Index
    <2> QED
      BY <1>1, <1>c, <1>n, <2>1, <2>2 DEF MenuInv
  <1>7. ASSUME Paste PROVE MenuInv'
    <2>1. /\ UNCHANGED sel /\ UNCHANGED form /\ UNCHANGED card /\ cpy' = 0
          /\ UNCHANGED conf \/ (cpy # 0 /\ conf' = [conf EXCEPT ![sel] = conf[cpy]])
      BY <1>7 DEF Paste, Listing
    <2>2. DOMAIN conf' = Index /\ \A i \in Index : GoodEntry(conf'[i])
      <3>1. CASE UNCHANGED conf
        BY <1>1, <3>1
      <3>2. CASE cpy # 0 /\ conf' = [conf EXCEPT ![sel] = conf[cpy]]
        <4>1. cpy \in Index
          BY <1>1, <1>2, <3>2 DEF Index
        <4> QED
          BY <1>1, <3>2, <4>1, EntrySet
      <3> QED
        BY <2>1, <3>1, <3>2
    <2> QED
      BY <1>1, <1>2, <1>c, <1>n, <2>1, <2>2 DEF MenuInv
  <1>8. ASSUME Edit PROVE MenuInv'
    <2>1. /\ UNCHANGED <<conf, sel, cpy>> /\ UNCHANGED card
          /\ nc' \in {default_config, conf[sel]}
      BY <1>8 DEF Edit, Looking, Listing, OpenForm
    <2>2. GoodEntry(nc')
      BY <1>1, <2>1, DefaultGood
    <2> QED
      BY <1>1, <1>c, <2>1, <2>2 DEF MenuInv
  <1>9. ASSUME Select PROVE MenuInv'
    <2>1. UNCHANGED <<conf, sel, file, saved>> /\ UNCHANGED form /\ cpy' = 0
      BY <1>9 DEF Select
    <2> QED
      BY <1>1, <1>2, <1>n, <2>1 DEF MenuInv
  <1>10. ASSUME EndSession PROVE MenuInv'
    <2>1. UNCHANGED conf /\ UNCHANGED card /\ Getconfig(conf)
      BY <1>10 DEF EndSession
    <2>2. sel' \in Index /\ cpy' = 0 /\ GoodEntry(nc')
      BY <1>1, <2>1, GetconfigGood
    <2> QED
      BY <1>1, <1>2, <1>c, <2>1, <2>2 DEF MenuInv
  <1>11. ASSUME TurnPage \/ MoveField PROVE MenuInv'
    <2>1. UNCHANGED <<conf, sel, cpy, nc>> /\ UNCHANGED card
      BY <1>11 DEF TurnPage, MoveField, Editing, SameEntries
    <2> QED
      BY <1>1, <1>c, <2>1 DEF MenuInv
  <1>12. ASSUME PressField PROVE MenuInv'
    <2>1. UNCHANGED <<conf, sel, cpy>> /\ UNCHANGED card /\ nc' \in Edited(nc, field)
      BY <1>12 DEF PressField, Editing
    <2>2. GoodEntry(nc')
      BY <1>1, <2>1, EditedGood
    <2> QED
      BY <1>1, <1>c, <2>1, <2>2 DEF MenuInv
  <1>13. ASSUME Cancel PROVE MenuInv'
    <2>1. UNCHANGED <<conf, sel, cpy>> /\ UNCHANGED card /\ ClosedForm
      BY <1>13 DEF Cancel, Editing
    <2> QED
      BY <1>1, <1>c, <1>n, <2>1 DEF MenuInv
  <1>14. ASSUME Confirm PROVE MenuInv'
    <2>1. /\ UNCHANGED <<sel, cpy>> /\ UNCHANGED card /\ ClosedForm
          /\ conf' = [conf EXCEPT ![sel] = nc]
      BY <1>14 DEF Confirm, Editing
    <2> QED
      BY <1>1, <1>c, <1>n, <2>1, EntrySet DEF MenuInv
  <1>f. ASSUME Forget
        PROVE  /\ DOMAIN conf' = Index /\ \A i \in Index : GoodEntry(conf'[i])
               /\ sel' \in Index /\ cpy' \in 0 .. NUMCONF
    <2>1. /\ DOMAIN conf' = Index /\ \A i \in Index : conf'[i] = default_config
          /\ sel' = 1 /\ cpy' = 0
      BY <1>f DEF Forget
    <2>2. 1 \in Index /\ 0 \in 0 .. NUMCONF
      BY <1>2 DEF Index
    <2> QED
      BY <2>1, <2>2, DefaultGood
  <1>15. ASSUME SafeExit PROVE MenuInv'
    <2>1. file' = Saved(conf) /\ Forget /\ ClosedForm
      BY <1>15 DEF SafeExit
    <2>2. file'.version = "now" /\ file'.entries = conf
      BY <2>1 DEF Saved
    <2> QED
      BY <1>1, <1>f, <1>n, <2>1, <2>2 DEF MenuInv
  <1>16. ASSUME PowerCut PROVE MenuInv'
    <2>1. UNCHANGED card /\ Forget /\ ClosedForm
      BY <1>16 DEF PowerCut
    <2> QED
      BY <1>c, <1>f, <1>n, <2>1 DEF MenuInv
  <1>17. ASSUME UNCHANGED menuvars PROVE MenuInv'
    BY <1>1, <1>17 DEF MenuInv, menuvars, form, card
  <1> QED
    BY <1>3, <1>4, <1>5, <1>6, <1>7, <1>8, <1>9, <1>10, <1>11, <1>12, <1>13,
       <1>14, <1>15, <1>16, <1>17 DEF MenuNext

(* The invariant holds in every reachable state.                           *)
THEOREM MenuInvariant == MenuSpec => []MenuInv
  <1> QED
    BY MenuStarts, MenuKeeps, PTL DEF MenuSpec

(* The name of an entry is the one the user gave it or follows the address,
   however the edits, the copies, the upgrades and the restarts mix.       *)
THEOREM NamesAreRight == MenuSpec => []NameFollows
  <1>1. MenuInv => NameFollows
    BY DEF MenuInv, GoodEntry, NameFollows
  <1> QED
    BY <1>1, MenuInvariant, PTL

(* Once this version has been left, no start deletes a keymap, whenever the
   power is cut.                                                           *)
THEOREM KeymapStays == MenuSpec => KeymapKept
  <1>1. ASSUME MenuInv, MenuNext, saved, keymap
        PROVE  keymap'
    <2>1. file.version = "now"
      BY <1>1 DEF MenuInv
    <2>2. CASE Start
      <3>1. keymap' = (keymap /\ file.version \notin {"0.9", "1.0"})
        BY <2>2 DEF Start
      <3>2. keymap /\ file.version \notin {"0.9", "1.0"}
        BY <1>1, <2>1
      <3> QED
        BY <3>1, <3>2
    <2>3. CASE Select
      BY <2>3 DEF Select
    <2>4. CASE UNCHANGED keymap
      BY <1>1, <2>4
    <2>5. \/ Start \/ Select \/ UNCHANGED keymap
      BY <1>1
      DEF MenuNext, Move, Delete, Copy, Paste, Edit, EndSession, TurnPage, MoveField,
          PressField, Cancel, Confirm, SafeExit, PowerCut, Looking, Listing, Editing,
          card
    <2> QED
      BY <2>2, <2>3, <2>4, <2>5
  <1>2. MenuInv /\ [MenuNext]_menuvars => [saved /\ keymap => keymap']_menuvars
    BY <1>1
  <1> QED
    BY <1>2, MenuInvariant, PTL DEF MenuSpec, KeymapKept

------------------------------------------------------------------------------
(* The form.  Its fields are told apart by their places, so that what is    *)
(* shown, and where the cursor goes, are facts about numbers and switches. *)
Place == 1 .. 26

(* The fields, in the order of the enumeration.                            *)
LEMMA FieldsAre ==
    /\ EditConf[1] = "NAME" /\ EditConf[2] = "HOST" /\ EditConf[3] = "PORT"
    /\ EditConf[4] = "USER" /\ EditConf[5] = "PASS" /\ EditConf[6] = "SCALING"
    /\ EditConf[7] = "VNCOFF" /\ EditConf[8] = "ENABLEVNC2" /\ EditConf[9] = "PORT2"
    /\ EditConf[10] = "SCALING2" /\ EditConf[11] = "EVENTTARGET"
    /\ EditConf[12] = "NOTAPHANDLING" /\ EditConf[13] = "HIDELOG"
    /\ EditConf[14] = "BACKOFF" /\ EditConf[15] = "HIDEKB" /\ EditConf[16] = "ENABLEAUDIO"
    /\ EditConf[17] = "AUDIOPORT" /\ EditConf[18] = "AUDIOPATH"
    /\ EditConf[19] = "CTRVNCKEYS" /\ EditConf[20] = "CTRVNCTOUCH"
    /\ EditConf[21] = "CTRUDPENABLE" /\ EditConf[22] = "CTRUDPPORT"
    /\ EditConf[23] = "CTRUDPMOTION" /\ EditConf[24] = "CTRUDPMOTIONPORT"
    /\ EditConf[25] = "CTRDSUENABLE" /\ EditConf[26] = "CTRDSUPORT"
  BY DEF EditConf

(* There are as many places as fields.                                     *)
LEMMA FormSize == END = 26 /\ DOMAIN EditConf = Place
  BY DEF END, EditConf, Place

(* A field has one place only.                                             *)
LEMMA PlacesApart ==
    ASSUME NEW i \in Place, NEW j \in Place, EditConf[i] = EditConf[j]
    PROVE  i = j
  BY FieldsAre DEF Place

(* That place is the number the enumeration gives it.                      *)
LEMMA NoIs ==
    ASSUME NEW i \in Place
    PROVE  No[EditConf[i]] = i
  <1>1. EditConf[i] \in ToSet(EditConf)
    BY FormSize DEF ToSet
  <1>2. No[EditConf[i]] = CHOOSE j \in 1 .. END : EditConf[j] = EditConf[i]
    BY <1>1 DEF No
  <1>3. \A j \in 1 .. END : EditConf[j] = EditConf[i] => j = i
    BY FormSize, PlacesApart DEF Place
  <1>4. i \in 1 .. END
    BY FormSize DEF Place
  <1> QED
    BY <1>2, <1>3, <1>4

(* Behind the last field comes the first.                                  *)
Ring(i) == IF i <= 26 THEN i ELSE i - 26

(* So many places on from a field is the field at that place.              *)
LEMMA BeyondIs ==
    ASSUME NEW i \in Place, NEW n \in 0 .. 26
    PROVE  Beyond(EditConf[i], n) = EditConf[Ring(i + n)] /\ Ring(i + n) \in Place
  <1>1. No[EditConf[i]] = i
    BY NoIs
  <1>2. ((i - 1 + n) % 26) + 1 = Ring(i + n)
    BY DEF Ring, Place
  <1> QED
    BY <1>1, <1>2, FormSize DEF Beyond, Ring, Place

(* The pages are ranges of places.                                         *)
LEMMA FirstPageIs ==
    ASSUME NEW i \in Place
    PROVE  /\ EditConf[i] \in FirstPage <=> i \in 2 .. 15
           /\ EditConf[i] \in SecondPage <=> i \in 16 .. 26
  <1>1. (2 .. 15) \subseteq Place /\ (16 .. 26) \subseteq Place
    BY DEF Place
  <1> QED
    BY <1>1, FormSize, PlacesApart DEF FirstPage, SecondPage

(* What the switches hide, by places.                                      *)
PlaceHidden(on, i) ==
    \/ i \in 9 .. 12 /\ "ENABLEVNC2" \notin on
    \/ i = 12 /\ "EVENTTARGET" \notin on
    \/ i \in 17 .. 18 /\ "ENABLEAUDIO" \notin on
    \/ i \in 22 .. 24 /\ "CTRUDPENABLE" \notin on
    \/ i = 24 /\ "CTRUDPMOTION" \notin on
    \/ i = 26 /\ "CTRDSUENABLE" \notin on

(* A field is hidden exactly if its place is.                              *)
LEMMA HiddenIs ==
    ASSUME NEW on, NEW i \in Place
    PROVE  EditConf[i] \in Hidden(on) <=> PlaceHidden(on, i)
  <1>1. EditConf[i] \in Hidden(on) <=>
          \/ /\ EditConf[i] \in {"PORT2", "SCALING2", "EVENTTARGET", "NOTAPHANDLING"}
             /\ "ENABLEVNC2" \notin on
          \/ EditConf[i] = "NOTAPHANDLING" /\ "EVENTTARGET" \notin on
          \/ EditConf[i] \in {"AUDIOPORT", "AUDIOPATH"} /\ "ENABLEAUDIO" \notin on
          \/ /\ EditConf[i] \in {"CTRUDPPORT", "CTRUDPMOTION", "CTRUDPMOTIONPORT"}
             /\ "CTRUDPENABLE" \notin on
          \/ EditConf[i] = "CTRUDPMOTIONPORT" /\ "CTRUDPMOTION" \notin on
          \/ EditConf[i] = "CTRDSUPORT" /\ "CTRDSUENABLE" \notin on
    BY DEF Hidden
  <1>2. /\ EditConf[i] \in {"PORT2", "SCALING2", "EVENTTARGET", "NOTAPHANDLING"}
              <=> i \in 9 .. 12
        /\ EditConf[i] = "NOTAPHANDLING" <=> i = 12
        /\ EditConf[i] \in {"AUDIOPORT", "AUDIOPATH"} <=> i \in 17 .. 18
        /\ EditConf[i] \in {"CTRUDPPORT", "CTRUDPMOTION", "CTRUDPMOTIONPORT"} <=> i \in 22 .. 24
        /\ EditConf[i] = "CTRUDPMOTIONPORT" <=> i = 24
        /\ EditConf[i] = "CTRDSUPORT" <=> i = 26
    BY FieldsAre DEF Place
  <1> QED
    BY <1>1, <1>2 DEF PlaceHidden

(* What a page shows, by places.                                           *)
PlaceShown(p, on, i) ==
    i = 1 \/ ((IF p = 0 THEN i \in 2 .. 15 ELSE i \in 16 .. 26) /\ ~PlaceHidden(on, i))

(* A field is shown exactly if its place is.                               *)
LEMMA ShownIs ==
    ASSUME NEW p, NEW on, NEW i \in Place
    PROVE  EditConf[i] \in Shown(p, on) <=> PlaceShown(p, on, i)
  <1>1. EditConf[i] = "NAME" <=> i = 1
    BY FieldsAre DEF Place
  <1> QED
    BY <1>1, FirstPageIs, HiddenIs DEF Shown, PlaceShown

(* The next field that is shown is the one with none shown before it.      *)
LEMMA AfterIs ==
    ASSUME NEW p, NEW on, NEW i \in Place, NEW n \in 1 .. 26,
           PlaceShown(p, on, Ring(i + n)),
           \A m \in 1 .. n - 1 : ~PlaceShown(p, on, Ring(i + m))
    PROVE  After(p, on, EditConf[i]) = EditConf[Ring(i + n)]
  <1> DEFINE f == EditConf[i]
             First(k) == /\ Beyond(f, k) \in Shown(p, on)
                         /\ \A m \in 1 .. k - 1 : Beyond(f, m) \notin Shown(p, on)
  <1>1. \A k \in 1 .. 26 :
            /\ Beyond(f, k) = EditConf[Ring(i + k)]
            /\ Beyond(f, k) \in Shown(p, on) <=> PlaceShown(p, on, Ring(i + k))
    BY BeyondIs, ShownIs
  <1>2. First(n)
    BY <1>1
  <1>3. \A k \in 1 .. 26 : First(k) => k = n
    <2> SUFFICES ASSUME NEW k \in 1 .. 26, First(k), k # n
                 PROVE  FALSE
      OBVIOUS
    <2>1. k < n => k \in 1 .. n - 1
      OBVIOUS
    <2>2. n < k => n \in 1 .. k - 1
      OBVIOUS
    <2> QED
      BY <1>2, <2>1, <2>2
  <1>4. After(p, on, f) = Beyond(f, CHOOSE k \in 1 .. 26 : First(k))
    BY FormSize DEF After
  <1> HIDE DEF First
  <1>5. (CHOOSE k \in 1 .. 26 : First(k)) = n
    BY <1>2, <1>3
  <1> QED
    BY <1>1, <1>4, <1>5

(* And so is the last one.                                                 *)
LEMMA BeforeIs ==
    ASSUME NEW p, NEW on, NEW i \in Place, NEW n \in 1 .. 26,
           PlaceShown(p, on, Ring(i + 26 - n)),
           \A m \in 1 .. n - 1 : ~PlaceShown(p, on, Ring(i + 26 - m))
    PROVE  Before(p, on, EditConf[i]) = EditConf[Ring(i + 26 - n)]
  <1> DEFINE f == EditConf[i]
             First(k) == /\ Beyond(f, 26 - k) \in Shown(p, on)
                         /\ \A m \in 1 .. k - 1 : Beyond(f, 26 - m) \notin Shown(p, on)
  <1>1. \A k \in 1 .. 26 :
            /\ Beyond(f, 26 - k) = EditConf[Ring(i + 26 - k)]
            /\ Beyond(f, 26 - k) \in Shown(p, on) <=> PlaceShown(p, on, Ring(i + 26 - k))
    <2> SUFFICES ASSUME NEW k \in 1 .. 26
                 PROVE  /\ Beyond(f, 26 - k) = EditConf[Ring(i + 26 - k)]
                        /\ Beyond(f, 26 - k) \in Shown(p, on)
                              <=> PlaceShown(p, on, Ring(i + 26 - k))
      OBVIOUS
    <2>1. 26 - k \in 0 .. 26 /\ i + (26 - k) = i + 26 - k
      BY DEF Place
    <2>2. Beyond(f, 26 - k) = EditConf[Ring(i + (26 - k))] /\ Ring(i + (26 - k)) \in Place
      BY <2>1, BeyondIs
    <2> QED
      BY <2>1, <2>2, ShownIs
  <1>2. First(n)
    <2>1. \A m \in 1 .. n - 1 : m \in 1 .. 26
      OBVIOUS
    <2>2. \A m \in 1 .. n - 1 : Beyond(f, 26 - m) \notin Shown(p, on)
      BY <1>1, <2>1
    <2> QED
      BY <1>1, <2>2
  <1>3. \A k \in 1 .. 26 : First(k) => k = n
    <2> SUFFICES ASSUME NEW k \in 1 .. 26, First(k), k # n
                 PROVE  FALSE
      OBVIOUS
    <2>1. k < n => k \in 1 .. n - 1
      OBVIOUS
    <2>2. n < k => n \in 1 .. k - 1
      OBVIOUS
    <2> QED
      BY <1>2, <2>1, <2>2
  <1>4. Before(p, on, f) = Beyond(f, 26 - CHOOSE k \in 1 .. 26 : First(k))
    BY FormSize DEF Before
  <1> HIDE DEF First
  <1>5. (CHOOSE k \in 1 .. 26 : First(k)) = n
    BY <1>2, <1>3
  <1> QED
    BY <1>1, <1>4, <1>5

(* How many places down the rules for the cursor take it.                  *)
Skipped(p, on, i) ==
    IF p = 0
    THEN IF i = 15 THEN 12
         ELSE IF i = 8 /\ "ENABLEVNC2" \notin on THEN 5
         ELSE IF i = 11 /\ "EVENTTARGET" \notin on THEN 2
         ELSE 1
    ELSE IF i = 1 THEN 15
         ELSE IF i = 16 /\ "ENABLEAUDIO" \notin on THEN 3
         ELSE IF i = 21 /\ "CTRUDPENABLE" \notin on THEN 4
         ELSE IF i = 23 /\ "CTRUDPMOTION" \notin on THEN 2
         ELSE IF i = 25 /\ "CTRDSUENABLE" \notin on THEN 2
         ELSE 1

(* The rules of the code go that far.                                      *)
LEMMA DownGoes ==
    ASSUME NEW p \in {0, 1}, NEW on, NEW i \in Place, PlaceShown(p, on, i)
    PROVE  Down(p, on, EditConf[i]) = EditConf[Ring(i + Skipped(p, on, i))]
  <1> DEFINE j == Ring(i + 1)
  <1>1. Beyond(EditConf[i], 1) = EditConf[j] /\ j \in Place
    BY BeyondIs
  <1>2. /\ EditConf[j] = "ENABLEAUDIO" <=> j = 16
        /\ EditConf[j] = "PORT2" <=> j = 9
        /\ EditConf[j] = "NOTAPHANDLING" <=> j = 12
        /\ EditConf[j] \in FirstPage <=> j \in 2 .. 15
        /\ EditConf[j] = "AUDIOPORT" <=> j = 17
        /\ EditConf[j] = "CTRUDPPORT" <=> j = 22
        /\ EditConf[j] = "CTRDSUPORT" <=> j = 26
        /\ EditConf[j] = "CTRUDPMOTIONPORT" <=> j = 24
    BY <1>1, FieldsAre, FirstPageIs DEF Place
  <1>3. Down(p, on, EditConf[i]) =
        CASE p = 0 /\ j = 16 -> "NAME"
          [] p = 0 /\ j = 9 /\ "ENABLEVNC2" \notin on -> "HIDELOG"
          [] p = 0 /\ j = 12 /\ "EVENTTARGET" \notin on -> "HIDELOG"
          [] p = 1 /\ j \in 2 .. 15 -> "ENABLEAUDIO"
          [] p = 1 /\ j = 17 /\ "ENABLEAUDIO" \notin on -> "CTRVNCKEYS"
          [] p = 1 /\ j = 22 /\ "CTRUDPENABLE" \notin on -> "CTRDSUENABLE"
          [] p = 1 /\ j = 26 /\ "CTRDSUENABLE" \notin on -> "NAME"
          [] p = 1 /\ j = 24 /\ "CTRUDPMOTION" \notin on -> "CTRDSUENABLE"
          [] OTHER -> EditConf[j]
    BY <1>1, <1>2 DEF Down
  <1> QED
    BY <1>3, FieldsAre DEF Place, Ring, PlaceShown, PlaceHidden, Skipped

(* Where they go a field is shown, and none of those passed over is.       *)
LEMMA DownIsAfter ==
    ASSUME NEW p \in {0, 1}, NEW on, NEW i \in Place, PlaceShown(p, on, i)
    PROVE  /\ Down(p, on, EditConf[i]) \in Shown(p, on)
           /\ Down(p, on, EditConf[i]) = After(p, on, EditConf[i])
  <1> DEFINE n == Skipped(p, on, i)
  <1>1. n \in 1 .. 26
    BY DEF Skipped
  <1>2. PlaceShown(p, on, Ring(i + n))
    BY DEF Place, Ring, PlaceShown, PlaceHidden, Skipped
  <1>3. \A m \in 1 .. n - 1 : ~PlaceShown(p, on, Ring(i + m))
    BY DEF Place, Ring, PlaceShown, PlaceHidden, Skipped
  <1> HIDE DEF n
  <1>4. Ring(i + n) \in Place
    BY <1>1, BeyondIs
  <1> QED
    BY <1>1, <1>2, <1>3, <1>4, DownGoes, AfterIs, ShownIs DEF n

(* How many places up the rules take it.                                   *)
SkippedUp(p, on, i) ==
    IF p = 0
    THEN IF i = 1 THEN 12
         ELSE IF i = 13 /\ "ENABLEVNC2" \notin on THEN 5
         ELSE IF i = 13 /\ "EVENTTARGET" \notin on THEN 2
         ELSE 1
    ELSE IF i = 16 THEN 15
         ELSE IF i = 19 /\ "ENABLEAUDIO" \notin on THEN 3
         ELSE IF i = 25 /\ "CTRUDPENABLE" \notin on THEN 4
         ELSE IF i = 25 /\ "CTRUDPMOTION" \notin on THEN 2
         ELSE IF i = 1 /\ "CTRDSUENABLE" \notin on THEN 2
         ELSE 1

(* The rules of the code go that far back.                                 *)
LEMMA UpGoes ==
    ASSUME NEW p \in {0, 1}, NEW on, NEW i \in Place, PlaceShown(p, on, i)
    PROVE  Up(p, on, EditConf[i]) = EditConf[Ring(i + 26 - SkippedUp(p, on, i))]
  <1> DEFINE j == Ring(i + 25)
  <1>1. Beyond(EditConf[i], 25) = EditConf[j] /\ j \in Place
    BY BeyondIs
  <1>2. /\ EditConf[j] \in SecondPage <=> j \in 16 .. 26
        /\ EditConf[j] \in FirstPage <=> j \in 2 .. 15
        /\ EditConf[j] = "NOTAPHANDLING" <=> j = 12
        /\ EditConf[j] = "AUDIOPATH" <=> j = 18
        /\ EditConf[j] = "CTRUDPMOTIONPORT" <=> j = 24
        /\ EditConf[j] = "CTRDSUPORT" <=> j = 26
    BY <1>1, FieldsAre, FirstPageIs DEF Place
  <1>3. Up(p, on, EditConf[i]) =
        CASE p = 0 /\ j \in 16 .. 26 -> "HIDEKB"
          [] p = 0 /\ j = 12 /\ "ENABLEVNC2" \notin on -> "ENABLEVNC2"
          [] p = 0 /\ j = 12 /\ "EVENTTARGET" \notin on /\ "ENABLEVNC2" \in on -> "EVENTTARGET"
          [] p = 1 /\ j \in 2 .. 15 -> "NAME"
          [] p = 1 /\ j = 18 /\ "ENABLEAUDIO" \notin on -> "ENABLEAUDIO"
          [] p = 1 /\ j = 24 /\ "CTRUDPENABLE" \notin on -> "CTRUDPENABLE"
          [] p = 1 /\ j = 26 /\ "CTRDSUENABLE" \notin on -> "CTRDSUENABLE"
          [] p = 1 /\ j = 24 /\ "CTRUDPMOTION" \notin on /\ "CTRUDPENABLE" \in on
                -> "CTRUDPMOTION"
          [] OTHER -> EditConf[j]
    BY <1>1, <1>2, FormSize DEF Up
  <1>4. CASE p = 0
    BY <1>3, <1>4, FieldsAre DEF Place, Ring, PlaceShown, PlaceHidden, SkippedUp
  <1>5. CASE p = 1
    <2>1. CASE i = 1
      BY <1>3, <1>5, <2>1, FieldsAre DEF Place, Ring, SkippedUp
    <2>2. CASE i = 16
      BY <1>3, <1>5, <2>2, FieldsAre DEF Place, Ring, SkippedUp
    <2>3. CASE i \in 17 .. 26
      <3>1. j = i - 1
        BY <2>3 DEF Ring
      <3> HIDE DEF j
      <3> QED
        BY <1>3, <1>5, <2>3, <3>1, FieldsAre DEF Ring, PlaceShown, PlaceHidden, SkippedUp
    <2>4. i = 1 \/ i = 16 \/ i \in 17 .. 26
      BY <1>5 DEF Place, PlaceShown
    <2> QED
      BY <2>1, <2>2, <2>3, <2>4
  <1> QED
    BY <1>4, <1>5

(* Going up, too, nothing that is shown is passed over.                    *)
LEMMA UpIsBefore ==
    ASSUME NEW p \in {0, 1}, NEW on, NEW i \in Place, PlaceShown(p, on, i)
    PROVE  /\ Up(p, on, EditConf[i]) \in Shown(p, on)
           /\ Up(p, on, EditConf[i]) = Before(p, on, EditConf[i])
  <1> DEFINE n == SkippedUp(p, on, i)
  <1>1. n \in 1 .. 26
    BY DEF SkippedUp
  <1>2. PlaceShown(p, on, Ring(i + 26 - n))
    BY DEF Place, Ring, PlaceShown, PlaceHidden, SkippedUp
  <1>3. \A m \in 1 .. n - 1 : ~PlaceShown(p, on, Ring(i + 26 - m))
    BY DEF Place, Ring, PlaceShown, PlaceHidden, SkippedUp
  <1> HIDE DEF n
  <1>4. Ring(i + 26 - n) \in Place
    BY <1>1 DEF Ring, Place
  <1>5. Before(p, on, EditConf[i]) = EditConf[Ring(i + 26 - n)]
    BY <1>1, <1>2, <1>3, BeforeIs
  <1>6. Up(p, on, EditConf[i]) = EditConf[Ring(i + 26 - n)]
    BY UpGoes DEF n
  <1>7. EditConf[Ring(i + 26 - n)] \in Shown(p, on)
    BY <1>2, <1>4, ShownIs
  <1> QED
    BY <1>5, <1>6, <1>7

(* Every field that is shown is at a place that is.                        *)
LEMMA ShownPlace ==
    ASSUME NEW p, NEW on, NEW f \in Shown(p, on)
    PROVE  \E i \in Place : f = EditConf[i] /\ PlaceShown(p, on, i)
  <1>1. \E i \in Place : f = EditConf[i]
    BY FieldsAre, FormSize DEF Shown, FirstPage, SecondPage, Place
  <1> QED
    BY <1>1, ShownIs

(* The cursor of the open form is at a field that its page shows.          *)
FormInv ==
    /\ page \in {0, 1}
    /\ pc = "edit" => field \in Shown(page, nc.on)

(* Where the cursor begins on a page, whatever the switches say.           *)
FirstShown ==
    /\ \A on : "HOST" \in Shown(0, on)
    /\ \A on : "ENABLEAUDIO" \in Shown(1, on)
    /\ \A p, on : "NAME" \in Shown(p, on)
(* These fields no switch hides.                                           *)
LEMMA AlwaysShown == FirstShown
  <1>1. 2 \in Place /\ 16 \in Place
    BY DEF Place
  <1>2. \A on : PlaceShown(0, on, 2) /\ PlaceShown(1, on, 16)
    BY DEF PlaceShown, PlaceHidden
  <1>3. /\ \A on : EditConf[2] \in Shown(0, on)
        /\ \A on : EditConf[16] \in Shown(1, on)
    BY <1>1, <1>2, ShownIs
  <1> QED
    BY <1>3, FieldsAre DEF FirstShown, Shown

(* What A does at a field leaves all switches alone but the one it is at.  *)
LEMMA SwitchesStay ==
    ASSUME NEW c \in Entry, NEW f, NEW d \in Edited(c, f), NEW s, s # f
    PROVE  s \in d.on <=> s \in c.on
  <1>1. c = [name |-> c.name, typed |-> c.typed, host |-> c.host,
             port |-> c.port, user |-> c.user, on |-> c.on]
    BY DEF Entry
  <1>2. CASE f = "NAME"
    <2>1. PICK n \in Names \cup {NoName} : d = Renamed(c, n)
      BY <1>2 DEF Edited, Switches
    <2> DEFINE t == IF n = Derived(c) THEN Derives ELSE n
    <2>2. d = [c EXCEPT !.name = n, !.typed = t]
      BY <2>1 DEF Renamed
    <2> HIDE DEF t
    <2>3. d = [name |-> n, typed |-> t, host |-> c.host,
               port |-> c.port, user |-> c.user, on |-> c.on]
      BY <1>1, <2>2
    <2> QED
      BY <2>3
  <1>3. ASSUME NEW new, new \in {[c EXCEPT !.host = x] : x \in Hosts \cup {Empty}}
                            \cup {[c EXCEPT !.port = x] : x \in Ports}
                            \cup {[c EXCEPT !.user = x] : x \in Users \cup {Empty}}
        PROVE  Checkset(c, new).on = c.on
    <2>1. PICK h, p, u : new = [name |-> c.name, typed |-> c.typed, host |-> h,
                                port |-> p, user |-> u, on |-> c.on]
      <3>1. CASE new \in {[c EXCEPT !.host = x] : x \in Hosts \cup {Empty}}
        BY <1>1, <3>1
      <3>2. CASE new \in {[c EXCEPT !.port = x] : x \in Ports}
        BY <1>1, <3>2
      <3>3. CASE new \in {[c EXCEPT !.user = x] : x \in Users \cup {Empty}}
        BY <1>1, <3>3
      <3> QED
        BY <1>3, <3>1, <3>2, <3>3
    <2> QED
      BY <2>1 DEF Checkset
  <1>4. CASE f \in {"HOST", "PORT", "USER"}
    <2>1. d.on = c.on
      <3>1. CASE f = "HOST"
        <4>1. PICK x \in Hosts \cup {Empty} : d = Checkset(c, [c EXCEPT !.host = x])
          BY <3>1 DEF Edited, Switches
        <4> QED
          BY <1>3, <4>1
      <3>2. CASE f = "PORT"
        <4>1. PICK x \in Ports : d = Checkset(c, [c EXCEPT !.port = x])
          BY <3>2 DEF Edited, Switches
        <4> QED
          BY <1>3, <4>1
      <3>3. CASE f = "USER"
        <4>1. PICK x \in Users \cup {Empty} : d = Checkset(c, [c EXCEPT !.user = x])
          BY <3>3 DEF Edited, Switches
        <4> QED
          BY <1>3, <4>1
      <3> QED
        BY <1>4, <3>1, <3>2, <3>3
    <2> QED
      BY <2>1
  <1>5. CASE f \in Switches
    <2>1. d = [c EXCEPT !.on = (@ \ {f}) \cup ({f} \ @)]
      BY <1>5 DEF Edited, Switches
    <2>2. d.on = (c.on \ {f}) \cup ({f} \ c.on)
      BY <1>1, <2>1
    <2> QED
      BY <2>2
  <1> QED
    BY <1>2, <1>4, <1>5 DEF Edited

(* No switch hides itself: the field that A is pressed on stays shown.     *)
LEMMA PressKeepsShown ==
    ASSUME NEW c \in Entry, NEW p \in {0, 1}, NEW f \in Shown(p, c.on),
           NEW d \in Edited(c, f)
    PROVE  f \in Shown(p, d.on)
  <1>1. PICK i \in Place : f = EditConf[i] /\ PlaceShown(p, c.on, i)
    BY ShownPlace
  <1>2. \A s : s # f => (s \in d.on <=> s \in c.on)
    BY SwitchesStay
  <1>3. /\ i \in 9 .. 12 => f # "ENABLEVNC2"
        /\ i = 12 => f # "EVENTTARGET"
        /\ i \in 17 .. 18 => f # "ENABLEAUDIO"
        /\ i \in 22 .. 24 => f # "CTRUDPENABLE"
        /\ i = 24 => f # "CTRUDPMOTION"
        /\ i = 26 => f # "CTRDSUENABLE"
    BY <1>1, FieldsAre
  <1>4. PlaceShown(p, d.on, i)
    BY <1>1, <1>2, <1>3 DEF PlaceShown, PlaceHidden
  <1> QED
    BY <1>1, <1>4, ShownIs

(* The form begins closed.                                                 *)
LEMMA FormStarts == MenuInit => FormInv
  BY DEF MenuInit, FormInv

(* It opens with the cursor at the address.                                *)
LEMMA OpenFormShown == ASSUME NEW c, OpenForm(c) PROVE FormInv'
  BY AlwaysShown DEF OpenForm, FormInv, FirstShown

(* So it does when nothing is configured yet.                              *)
LEMMA GetconfigShown == ASSUME NEW entries, Getconfig(entries) PROVE FormInv'
  <1>1. \/ pc' = "list" /\ ClosedForm
        \/ OpenForm(default_config)
    BY Zenon DEF Getconfig
  <1> QED
    BY <1>1, OpenFormShown DEF ClosedForm, FormInv

(* Turned, walked through or edited: the cursor stays at what is shown.    *)
LEMMA FormKeeps == nc \in Entry /\ FormInv /\ [MenuNext]_menuvars => FormInv'
  <1> SUFFICES ASSUME nc \in Entry, FormInv, [MenuNext]_menuvars
               PROVE  FormInv'
    OBVIOUS
  <1>1. page \in {0, 1} /\ (pc = "edit" => field \in Shown(page, nc.on))
    BY DEF FormInv
  <1>2. ASSUME Start \/ EndSession PROVE FormInv'
    BY <1>2, GetconfigShown DEF Start, EndSession
  <1>3. ASSUME Move \/ Delete \/ Copy \/ Paste \/ Select PROVE FormInv'
    <2>1. UNCHANGED form /\ pc' # "edit"
      BY <1>3 DEF Move, Delete, Copy, Paste, Select, Looking, Listing
    <2> QED
      BY <1>1, <2>1 DEF form, FormInv
  <1>4. ASSUME Edit PROVE FormInv'
    BY <1>4, OpenFormShown DEF Edit
  <1>5. ASSUME TurnPage PROVE FormInv'
    <2>1. page' = 1 - page /\ field' = Turned(page, field) /\ nc' = nc
      BY <1>5 DEF TurnPage
    <2>2. page' \in {0, 1}
      BY <1>1, <2>1
    <2>3. field' \in Shown(page', nc'.on)
      BY <1>1, <2>1, AlwaysShown DEF FirstShown, Turned
    <2> QED
      BY <2>2, <2>3 DEF FormInv
  <1>6. ASSUME MoveField PROVE FormInv'
    <2>1. /\ pc = "edit" /\ page' = page /\ nc' = nc
          /\ field' \in {Down(page, nc.on, field), Up(page, nc.on, field)}
      BY <1>6 DEF MoveField, Editing
    <2>2. PICK i \in Place : field = EditConf[i] /\ PlaceShown(page, nc.on, i)
      BY <1>1, <2>1, ShownPlace
    <2>3. field' \in Shown(page, nc.on)
      BY <1>1, <2>1, <2>2, DownIsAfter, UpIsBefore
    <2> QED
      BY <1>1, <2>1, <2>3 DEF FormInv
  <1>7. ASSUME PressField PROVE FormInv'
    <2>1. /\ pc = "edit" /\ page' = page /\ field' = field /\ nc' \in Edited(nc, field)
      BY <1>7 DEF PressField, Editing
    <2>2. field \in Shown(page, nc'.on)
      BY <1>1, <2>1, PressKeepsShown
    <2> QED
      BY <1>1, <2>1, <2>2 DEF FormInv
  <1>8. ASSUME Cancel \/ Confirm \/ SafeExit \/ PowerCut PROVE FormInv'
    <2>1. ClosedForm /\ pc' # "edit"
      BY <1>8 DEF Cancel, Confirm, SafeExit, PowerCut, Forget
    <2> QED
      BY <2>1 DEF ClosedForm, FormInv
  <1>9. ASSUME UNCHANGED menuvars PROVE FormInv'
    BY <1>1, <1>9 DEF FormInv, menuvars, form
  <1> QED
    BY <1>2, <1>3, <1>4, <1>5, <1>6, <1>7, <1>8, <1>9 DEF MenuNext

(* From such a field both directions lead to the nearest one.              *)
LEMMA ShownIsNearest == FormInv => CursorIsShown
  <1> SUFFICES ASSUME FormInv, pc = "edit"
               PROVE  /\ field \in Shown(page, nc.on)
                      /\ Down(page, nc.on, field) = After(page, nc.on, field)
                      /\ Up(page, nc.on, field) = Before(page, nc.on, field)
    BY DEF CursorIsShown
  <1>1. page \in {0, 1} /\ field \in Shown(page, nc.on)
    BY DEF FormInv
  <1>2. PICK i \in Place : field = EditConf[i] /\ PlaceShown(page, nc.on, i)
    BY <1>1, ShownPlace
  <1> QED
    BY <1>1, <1>2, DownIsAfter, UpIsBefore

(* The cursor of the form is at a field the user sees and goes to the next or
   the last one of them, however the switches stand: the two lists of rules,
   for drawing and for moving, agree.                                      *)
THEOREM CursorStaysShown == MenuSpec => []CursorIsShown
  <1>1. MenuInv => nc \in Entry
    BY DEF MenuInv, GoodEntry
  <1>2. MenuInv /\ FormInv /\ [MenuNext]_menuvars => FormInv'
    BY <1>1, FormKeeps
  <1>3. MenuSpec => []FormInv
    BY <1>2, FormStarts, MenuInvariant, PTL DEF MenuSpec
  <1> QED
    BY <1>3, ShownIsNearest, PTL
================================================================================
