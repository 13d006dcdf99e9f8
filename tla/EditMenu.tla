-------------------------------- MODULE EditMenu --------------------------------
(***************************************************************************)
(* The form in which one entry of the configuration is edited: the fields  *)
(* of editconfig() in main.c (lines 965-1501), which of them are on the    *)
(* screen, where the cursor goes, and how the entry's name follows the     *)
(* server's address (checkset(), 946-963).                                 *)
(***************************************************************************)
EXTENDS Integers, Sequences, SequencesExt

CONSTANTS DefaultPort,   (* SERVER_PORT_OFFSET                             *)
          Hosts, Ports, Users, Names  (* what the user types               *)

(* "" is the empty text; the name is compared with "user@host:port".       *)
Empty == ""
NoName == <<>>
Derives == <<"auto">>     \* no name anybody gives

ASSUME EditAssumption ==
    /\ Empty \notin Hosts /\ Empty \notin Users
    /\ DefaultPort \in Nat /\ Ports \subseteq 1 .. 65535
    /\ Derives \notin Names

EditConf == <<"NAME", "HOST", "PORT", "USER", "PASS", "SCALING", "VNCOFF",
              "ENABLEVNC2", "PORT2", "SCALING2", "EVENTTARGET", "NOTAPHANDLING",
              "HIDELOG", "BACKOFF", "HIDEKB", "ENABLEAUDIO", "AUDIOPORT",
              "AUDIOPATH", "CTRVNCKEYS", "CTRVNCTOUCH", "CTRUDPENABLE",
              "CTRUDPPORT", "CTRUDPMOTION", "CTRUDPMOTIONPORT",
              "CTRDSUENABLE", "CTRDSUPORT">>
END == Len(EditConf)
No[f \in ToSet(EditConf)] == CHOOSE i \in 1 .. END : EditConf[i] = f

(* The fields before EDITCONF_ENABLEAUDIO but for the name.                *)
FirstPage == {EditConf[i] : i \in 2 .. 15}
SecondPage == {EditConf[i] : i \in 16 .. END}

(* The switches that decide what is shown and what a session does.         *)
Switches == {"VNCOFF", "ENABLEVNC2", "EVENTTARGET", "ENABLEAUDIO",
             "CTRUDPENABLE", "CTRUDPMOTION", "CTRDSUENABLE"}

(* An entry; typed is history: the name the user gave it, or "auto".       *)
default_config ==
    [name |-> NoName, typed |-> Derives, host |-> Empty, port |-> DefaultPort,
     user |-> Empty, on |-> {"EVENTTARGET"}]

HasWork(c) ==
    \/ "VNCOFF" \notin c.on
    \/ c.on \cap {"ENABLEVNC2", "ENABLEAUDIO", "CTRUDPENABLE", "CTRDSUENABLE"} # {}
--------------------------------------------------------------------------------
(* What is drawn, page 0 and page 1.                                       *)
Hidden(on) ==
    (IF "ENABLEVNC2" \in on THEN {}
       ELSE {"PORT2", "SCALING2", "EVENTTARGET", "NOTAPHANDLING"})
    \cup (IF "EVENTTARGET" \in on THEN {} ELSE {"NOTAPHANDLING"})
    \cup (IF "ENABLEAUDIO" \in on THEN {} ELSE {"AUDIOPORT", "AUDIOPATH"})
    \cup (IF "CTRUDPENABLE" \in on THEN {}
            ELSE {"CTRUDPPORT", "CTRUDPMOTION", "CTRUDPMOTIONPORT"})
    \cup (IF "CTRUDPMOTION" \in on THEN {} ELSE {"CTRUDPMOTIONPORT"})
    \cup (IF "CTRDSUENABLE" \in on THEN {} ELSE {"CTRDSUPORT"})

Shown(page, on) ==
    {"NAME"} \cup ((IF page = 0 THEN FirstPage ELSE SecondPage) \ Hidden(on))

(* The cursor goes down: sel + 1, and on from what is not to be selected.  *)
Beyond(f, n) == EditConf[((No[f] - 1 + n) % END) + 1]

DownStopsAtPort(page, on, f) ==           \* plausible bug: a forgotten rule
    LET s == Beyond(f, 1)
    IN  IF page = 0 /\ s = "ENABLEAUDIO" THEN "NAME"
        ELSE IF page = 0 /\ s = "PORT2" /\ "ENABLEVNC2" \notin on THEN "HIDELOG"
        ELSE IF page = 1 /\ s \in FirstPage THEN "ENABLEAUDIO"
        ELSE s

Down(page, on, f) ==
    LET s == Beyond(f, 1)
        Skips(p, g, switch) == page = p /\ s = g /\ switch \notin on
    IN  CASE page = 0 /\ s = "ENABLEAUDIO" -> "NAME"
          [] Skips(0, "PORT2", "ENABLEVNC2") -> "HIDELOG"
          [] Skips(0, "NOTAPHANDLING", "EVENTTARGET") -> "HIDELOG"
          [] page = 1 /\ s \in FirstPage -> "ENABLEAUDIO"
          [] Skips(1, "AUDIOPORT", "ENABLEAUDIO") -> "CTRVNCKEYS"
          [] Skips(1, "CTRUDPPORT", "CTRUDPENABLE") -> "CTRDSUENABLE"
          [] Skips(1, "CTRDSUPORT", "CTRDSUENABLE") -> "NAME"
          [] Skips(1, "CTRUDPMOTIONPORT", "CTRUDPMOTION") -> "CTRDSUENABLE"
          [] OTHER -> s

(* Of two rules for the same field the first decides.                      *)
Up(page, on, f) ==
    LET s == Beyond(f, END - 1)
        Skips(p, g, switch) == page = p /\ s = g /\ switch \notin on
    IN  CASE page = 0 /\ s \in SecondPage -> "HIDEKB"
          [] Skips(0, "NOTAPHANDLING", "ENABLEVNC2") -> "ENABLEVNC2"
          [] Skips(0, "NOTAPHANDLING", "EVENTTARGET") /\ "ENABLEVNC2" \in on -> "EVENTTARGET"
          [] page = 1 /\ s \in FirstPage -> "NAME"
          [] Skips(1, "AUDIOPATH", "ENABLEAUDIO") -> "ENABLEAUDIO"
          [] Skips(1, "CTRUDPMOTIONPORT", "CTRUDPENABLE") -> "CTRUDPENABLE"
          [] Skips(1, "CTRDSUPORT", "CTRDSUENABLE") -> "CTRDSUENABLE"
          [] Skips(1, "CTRUDPMOTIONPORT", "CTRUDPMOTION") /\ "CTRUDPENABLE" \in on
                -> "CTRUDPMOTION"
          [] OTHER -> s

(* L and R.                                                                *)
Turned(page, f) ==
    IF f = "NAME" THEN f ELSE IF page = 0 THEN "ENABLEAUDIO" ELSE "HOST"
--------------------------------------------------------------------------------
(* The name an entry has as long as nobody gives it another.               *)
Derived(c) ==
    IF c.host = Empty /\ c.user = Empty /\ c.port = DefaultPort THEN NoName
    ELSE <<c.user, c.host, c.port>>

(* The entries there can be, and those whose name is as it should be.      *)
Entry ==
    LET host == Hosts \cup {Empty}
        port == Ports \cup {DefaultPort}
        user == Users \cup {Empty}
    IN  [name : Names \cup {NoName} \cup (user \X host \X port),
         typed : Names \cup {NoName, Derives},
         host : host, port : port, user : user, on : SUBSET Switches]

Named(c) == c.name = IF c.typed = Derives THEN Derived(c) ELSE c.typed

(* checkset(), before the new value is stored.                             *)
ChecksetLate(c, new) ==                   \* plausible bug: the value stored first
    IF c.name \in {NoName, Derived(new)}
    THEN [new EXCEPT !.name = Derived(new), !.typed = Derives]
    ELSE new

Checkset(c, new) ==
    IF c.name \in {NoName, Derived(c)}
    THEN [new EXCEPT !.name = Derived(new), !.typed = Derives]
    ELSE new

Renamed(c, n) ==
    [c EXCEPT !.name = n, !.typed = IF n = Derived(c) THEN Derives ELSE n]

(* What pressing A on a field may make of the entry.  The fields that are  *)
(* left out (the password, the other ports, ...) change nothing here.      *)
Edited(c, f) ==
    CASE f = "NAME" -> {Renamed(c, n) : n \in Names \cup {NoName}}
      [] f = "HOST" -> {Checkset(c, [c EXCEPT !.host = h]) : h \in Hosts \cup {Empty}}
      [] f = "PORT" -> {Checkset(c, [c EXCEPT !.port = p]) : p \in Ports}
      [] f = "USER" -> {Checkset(c, [c EXCEPT !.user = u]) : u \in Users \cup {Empty}}
      [] f \in Switches -> {[c EXCEPT !.on = (@ \ {f}) \cup ({f} \ @)]}
      [] OTHER -> {}
--------------------------------------------------------------------------------
(* The next and the last field that is shown, in the order of the form.    *)
After(page, on, f) ==
    Beyond(f, CHOOSE n \in 1 .. END :
        /\ Beyond(f, n) \in Shown(page, on)
        /\ \A m \in 1 .. n - 1 : Beyond(f, m) \notin Shown(page, on))
Before(page, on, f) ==
    Beyond(f, END - CHOOSE n \in 1 .. END :
        /\ Beyond(f, END - n) \in Shown(page, on)
        /\ \A m \in 1 .. n - 1 : Beyond(f, END - m) \notin Shown(page, on))
================================================================================
