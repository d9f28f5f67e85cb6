------------------------------ MODULE Desktop -------------------------------
(***************************************************************************)
(* The egui client (crates/gui/src/main.rs).  The core's callbacks write a *)
(* snapshot under a lock; each frame copies it, draws the copy, acts on    *)
(* the clicks on it, which may take as long as tmux does, and writes the   *)
(* errors back, over whatever the callbacks have done since.               *)
(***************************************************************************)
EXTENDS Presentation

CONSTANTS
  DesktopLists,  \* those of Lists that it is sent
  Flags,         \* of the window that the menu sets; the app has four
  Now            \* the time at which sessions are judged stale

ASSUME FlagsAssumption ==
  /\ Flags \subseteq {"always_on_top", "borderless", "transparent", "click_through"}
  /\ "click_through" \in Flags

\* Those that the window system has to be told of.
Sent == Flags \ {"transparent"}

VARIABLES
  snapshot,  \* sessions, connected and activation_errors
  copy,      \* the frame's copy of it
  phase,     \* of the frame
  asked,     \* pending_delete
  flags,     \* those of Flags that are set
  checked,   \* the menu's items that are
  ticks,     \* the menu's items with an event that is not handled yet
  told,      \* what the window system knows of them
  click,     \* what the last click did: activate or delete a session
  failed     \* history: the sessions whose activation has failed

desktopVars == <<snapshot, copy, phase, asked, flags, checked, ticks, told, click, failed>>

-----------------------------------------------------------------------------
\* The callbacks of EguiObserver; those of the hosts are in Heartbeats.
OnSessionsChanged(list) ==
  /\ snapshot' = [snapshot EXCEPT !.sessions = list, !.errors = {}]
  /\ UNCHANGED <<copy, phase, asked, flags, checked, ticks, told, click, failed>>

OnConnectionChanged ==
  /\ \E connected \in BOOLEAN : snapshot' = [snapshot EXCEPT !.connected = connected]
  /\ UNCHANGED <<copy, phase, asked, flags, checked, ticks, told, click, failed>>

-----------------------------------------------------------------------------
\* The dialog, if one is open: nothing, Delete or Cancel.
ShowDialog ==
  /\ phase = "dialog"
  /\ \/ UNCHANGED <<asked, click>>
     \/ asked # Nothing /\ asked' = Nothing /\ click' = [deleted |-> asked]
     \/ asked # Nothing /\ asked' = Nothing /\ UNCHANGED click
  /\ phase' = "menu"
  /\ UNCHANGED <<snapshot, copy, flags, checked, ticks, told, failed>>

Toggled(set, flag) == IF flag \in set THEN set \ {flag} ELSE set \cup {flag}

\* The menu ticks or clears an item itself, on the same thread as the frames
\* and so between two of them, and sends an event.
TickItem(flag) ==
  /\ phase = "dialog"
  /\ checked' = Toggled(checked, flag)
  /\ ticks' = ticks \cup {flag}
  /\ UNCHANGED <<snapshot, copy, phase, asked, flags, told, click, failed>>

\* Every event that is there is handled: the flag follows the item as it is now.
MenuEvents ==
  /\ phase = "menu"
  /\ flags' = (flags \ ticks) \cup (checked \cap ticks)
  /\ told' = (told \ ticks) \cup (checked \cap ticks \cap Sent)
  /\ ticks' = {}
  /\ phase' = "keys"
  /\ UNCHANGED <<snapshot, copy, asked, checked, click, failed>>

\* Mutant: the shortcut leaves the window system to itself.
ShortcutUntold ==
  /\ phase = "keys"
  /\ flags' = Toggled(flags, "click_through")
  /\ checked' = Toggled(checked, "click_through")
  /\ phase' = "copy"
  /\ UNCHANGED <<snapshot, copy, asked, ticks, told, click, failed>>

\* Cmd or Ctrl, Shift and C, the one way back from a window that lets clicks
\* through.
Shortcut ==
  /\ phase = "keys"
  /\ flags' = Toggled(flags, "click_through")
  /\ told' = IF "click_through" \in flags' THEN told \cup {"click_through"}
                                           ELSE told \ {"click_through"}
  /\ checked' = IF "click_through" \in flags' THEN checked \cup {"click_through"}
                                              ELSE checked \ {"click_through"}
  /\ phase' = "copy"
  /\ UNCHANGED <<snapshot, copy, asked, ticks, click, failed>>

NoShortcut ==
  /\ phase = "keys"
  /\ phase' = "copy"
  /\ UNCHANGED <<snapshot, copy, asked, flags, checked, ticks, told, click, failed>>

CopySnapshot ==
  /\ phase = "copy"
  /\ copy' = snapshot
  /\ phase' = "list"
  /\ UNCHANGED <<snapshot, asked, flags, checked, ticks, told, click, failed>>

-----------------------------------------------------------------------------
\* The rows of the list, in their order, and how render_session draws one.
Row(view) ==
  [id |-> view.id,
   clickable |-> view.tmux,
   dimmed |-> ShouldFade(copy.connected, Now - view.at) \/ ~view.tmux,
   failed |-> view.id \in copy.errors]

Rows ==
  LET order == Partition(copy.sessions, 1..Len(copy.sessions))
  IN  [i \in 1..Len(order) |-> Row(order[i])]

\* A session is clicked and gone to; a success leaves its old error.
ClickRow ==
  /\ phase = "list"
  /\ \E i \in 1..Len(Rows), works \in BOOLEAN :
       /\ Rows[i].clickable
       /\ click' = [activated |-> Rows[i].id]
       /\ copy' = IF works THEN copy ELSE [copy EXCEPT !.errors = @ \cup {Rows[i].id}]
       /\ failed' = IF works THEN failed ELSE failed \cup {Rows[i].id}
  /\ phase' = "write"
  /\ UNCHANGED <<snapshot, asked, flags, checked, ticks, told>>

ClickDelete ==
  /\ phase = "list"
  /\ \E i \in 1..Len(Rows) : asked' = Rows[i].id
  /\ phase' = "write"
  /\ UNCHANGED <<snapshot, copy, flags, checked, ticks, told, click, failed>>

NoClick ==
  /\ phase = "list"
  /\ phase' = "write"
  /\ UNCHANGED <<snapshot, copy, asked, flags, checked, ticks, told, click, failed>>

\* Mutant: the whole copy is written back.
WriteBackAll ==
  /\ phase = "write"
  /\ snapshot' = copy
  /\ phase' = "dialog"
  /\ click' = Nothing
  /\ UNCHANGED <<copy, asked, flags, checked, ticks, told, failed>>

WriteBack ==
  /\ phase = "write"
  /\ snapshot' = [snapshot EXCEPT !.errors = copy.errors]
  /\ phase' = "dialog"
  /\ click' = Nothing
  /\ UNCHANGED <<copy, asked, flags, checked, ticks, told, failed>>

DesktopInit ==
  /\ snapshot = [sessions |-> <<>>, connected |-> FALSE, errors |-> {}]
  /\ copy = snapshot
  /\ phase = "dialog"
  /\ asked = Nothing
  /\ flags = {} /\ checked = {} /\ ticks = {} /\ told = {}
  /\ click = Nothing
  /\ failed = {}

FrameNext ==
  \/ ShowDialog \/ MenuEvents \/ Shortcut \/ NoShortcut \/ CopySnapshot
  \/ ClickRow \/ ClickDelete \/ NoClick \/ WriteBack

DesktopNext ==
  \/ \E list \in DesktopLists : OnSessionsChanged(list)
  \/ OnConnectionChanged
  \/ \E flag \in Flags : TickItem(flag)
  \/ FrameNext

DesktopSpec == DesktopInit /\ [][DesktopNext]_desktopVars

-----------------------------------------------------------------------------
\* No frame takes back what a callback said of the sessions or the connection
\* while it was drawn, though a click on it may take seconds (it does take back
\* that errors were cleared); the window system was told what the flags say,
\* and so does the menu but for events still to be handled, by whichever of the
\* ways they were changed; and an error belongs to a session that could not be
\* gone to (gui/src/main.rs:484, the write-back).
FramesTakeNothingBack ==
  [][/\ FrameNext => /\ snapshot'.sessions = snapshot.sessions
                     /\ snapshot'.connected = snapshot.connected
     /\ told' = flags' \cap Sent
     /\ checked' \ ticks' = flags' \ ticks'
     /\ snapshot'.errors \subseteq failed']_desktopVars
=========================
