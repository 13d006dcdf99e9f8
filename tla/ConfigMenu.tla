------------------------------- MODULE ConfigMenu -------------------------------
(***************************************************************************)
(* The list of entries, the form over it (EditMenu.tla) and the file:      *)
(* getconfig() (main.c 1552-1646), editconfig() (992-1501), readconfig()   *)
(* (1503-1550) and saveconfig() on every way out of the program.  The      *)
(* power may also be cut at any time.                                      *)
(***************************************************************************)
EXTENDS EditMenu

CONSTANTS NUMCONF,
          FirstFiles,    (* files the program may find at its first start  *)
          MaxChanges     (* bound on the changes the user makes              *)

VARIABLES
    pc,      (* "off", "list", "edit" or "session"                         *)
    conf,    (* the entries                                                *)
    sel,     (* the entry the cursor is at                                 *)
    cpy,     (* the entry to be pasted, 0 for -1                           *)
    nc,      (* the copy the form works on                                 *)
    page, field,
    file,    (* the configuration on the card: its version and entries     *)
    keymap,  (* is there a keymap file?                                    *)
    saved,   (* history: has this version written its configuration?       *)
    changes

form == <<nc, page, field>>
card == <<file, keymap, saved>>
menuvars == <<pc, conf, sel, cpy, form, card, changes>>

Index == 1 .. NUMCONF

ASSUME MenuAssumption ==
    /\ NUMCONF \in Nat \ {0} /\ MaxChanges \in Nat
    /\ FirstFiles \subseteq [version : STRING, entries : [Index -> Entry]]
    /\ \A f \in FirstFiles, i \in Index : Named(f.entries[i])

ClosedForm == nc' = default_config /\ page' = 0 /\ field' = "HOST"

MenuInit ==
    /\ pc = "off"
    /\ conf = [i \in Index |-> default_config]
    /\ sel = 1 /\ cpy = 0
    /\ nc = default_config /\ page = 0 /\ field = "HOST"
    /\ file \in FirstFiles /\ keymap = TRUE /\ saved = FALSE
    /\ changes = 0
--------------------------------------------------------------------------------
(* Older versions have neither switches nor, in part, other fields: what   *)
(* they lack is the default.                                               *)
Upgraded(c) == [default_config EXCEPT !.name = c.name, !.typed = c.typed,
                    !.host = c.host, !.port = c.port, !.user = c.user]

Readconfig ==
    [i \in Index |->
        CASE file.version = "none" -> default_config
          [] file.version \in {"0.9", "1.0"} -> Upgraded(file.entries[i])
          [] OTHER -> file.entries[i]]

(* getconfig() begins: the cursor is at an entry in use, or the form opens.*)
OpenForm(c) ==
    /\ pc' = "edit"
    /\ nc' = IF c.host = Empty THEN default_config ELSE c
    /\ page' = 0 /\ field' = "HOST"

Getconfig(entries) ==
    LET used == {i \in Index : entries[i].host # Empty}
    IN  /\ cpy' = 0
        /\ \/ /\ used # {}
              /\ sel' = IF sel \in used THEN sel
                        ELSE CHOOSE i \in used : \A j \in used : i <= j
              /\ pc' = "list" /\ ClosedForm
           \/ used = {} /\ UNCHANGED sel /\ OpenForm(default_config)

Start ==
    /\ pc = "off"
    /\ conf' = Readconfig
    /\ keymap' = (keymap /\ file.version \notin {"0.9", "1.0"})
    /\ Getconfig(conf')
    /\ UNCHANGED <<file, saved, changes>>
--------------------------------------------------------------------------------
(* What the user changes is bounded.                                       *)
Changing == changes < MaxChanges /\ changes' = changes + 1

(* The list.                                                               *)
Listing == pc = "list" /\ UNCHANGED card
Looking == Listing /\ UNCHANGED changes

Move ==
    /\ Looking
    /\ sel' \in {(sel % NUMCONF) + 1, ((sel + NUMCONF - 2) % NUMCONF) + 1}
    /\ UNCHANGED <<pc, conf, cpy, form>>

Delete ==
    /\ Listing /\ Changing
    /\ conf' = [conf EXCEPT ![sel] = default_config]
    /\ UNCHANGED <<pc, sel, cpy, form>>

Copy ==
    /\ Looking
    /\ cpy' = IF conf[sel].host # Empty THEN sel ELSE 0
    /\ UNCHANGED <<pc, conf, sel, form>>

(* The entry pasted is the one at cpy now, not the one that was copied.    *)
Paste ==
    /\ Listing
    /\ \/ cpy = 0 /\ UNCHANGED <<conf, changes>>
       \/ cpy # 0 /\ conf' = [conf EXCEPT ![sel] = conf[cpy]] /\ Changing
    /\ cpy' = 0
    /\ UNCHANGED <<pc, sel, form>>

Edit == Looking /\ OpenForm(conf[sel]) /\ UNCHANGED <<conf, sel, cpy>>

(* A starts a session with a copy of the entry; readkeymaps() writes the   *)
(* standard keymap when it finds none.                                     *)
Select ==
    /\ pc = "list" /\ conf[sel].host # Empty
    /\ pc' = "session" /\ cpy' = 0
    /\ keymap' = TRUE
    /\ UNCHANGED <<conf, sel, form, file, saved, changes>>

EndSession ==
    /\ pc = "session"
    /\ Getconfig(conf)
    /\ UNCHANGED <<conf, card, changes>>
--------------------------------------------------------------------------------
(* The form.                                                               *)
Editing == pc = "edit" /\ UNCHANGED <<sel, cpy, card>>
SameEntries == UNCHANGED <<pc, conf, changes>>

TurnPage ==
    /\ Editing /\ SameEntries
    /\ page' = 1 - page /\ field' = Turned(page, field)
    /\ UNCHANGED nc

MoveField ==
    /\ Editing /\ SameEntries
    /\ field' \in {Down(page, nc.on, field), Up(page, nc.on, field)}
    /\ UNCHANGED <<nc, page>>

PressField ==
    /\ Editing /\ Changing
    /\ nc' \in Edited(nc, field)
    /\ UNCHANGED <<pc, conf, page, field>>

Cancel ==
    /\ Editing /\ pc' = "list" /\ ClosedForm
    /\ UNCHANGED <<conf, changes>>

Acceptable(c) == c.host # Empty /\ HasWork(c)

Confirm ==
    /\ Editing /\ Acceptable(nc)
    /\ conf' = [conf EXCEPT ![sel] = nc]
    /\ pc' = "list" /\ ClosedForm /\ Changing
--------------------------------------------------------------------------------
(* safeexit(), from every menu and every session, and the power.           *)
SavedIfChanged(entries) ==                \* plausible bug: only what has changed
    IF entries = Readconfig THEN file ELSE [version |-> "now", entries |-> entries]

Saved(entries) == [version |-> "now", entries |-> entries]

Forget == pc' = "off" /\ conf' = [i \in Index |-> default_config] /\ sel' = 1 /\ cpy' = 0

SafeExit ==
    /\ pc # "off"
    /\ file' = Saved(conf) /\ saved' = TRUE
    /\ Forget /\ ClosedForm
    /\ UNCHANGED <<keymap, changes>>

PowerCut ==
    /\ pc # "off"
    /\ Forget /\ ClosedForm
    /\ UNCHANGED <<card, changes>>

MenuNext ==
    \/ Start
    \/ Move \/ Delete \/ Copy \/ Paste \/ Edit \/ Select \/ EndSession
    \/ TurnPage \/ MoveField \/ PressField \/ Cancel \/ Confirm
    \/ SafeExit \/ PowerCut

MenuSpec == MenuInit /\ [][MenuNext]_menuvars
--------------------------------------------------------------------------------
(* The cursor of the form is at a field the user sees, and goes to the     *)
(* next and the last one of them, however the switches stand and whichever *)
(* fields they hide.                                                       *)
CursorIsShown ==
    pc = "edit" =>
        /\ field \in Shown(page, nc.on)
        /\ Down(page, nc.on, field) = After(page, nc.on, field)
        /\ Up(page, nc.on, field) = Before(page, nc.on, field)

(* The name is the one the user gave, or else follows the address, however *)
(* the edits of name, host, port and user mix.                             *)
NameFollows ==
    \A c \in {nc} \cup {conf[i] : i \in Index} : Named(c)

(* Once this version has been left, no start deletes a keymap again: the   *)
(* deletion is for the first start after an upgrade.                       *)
KeymapKept == [][saved /\ keymap => keymap']_menuvars
================================================================================
