------------------------------ MODULE Terminal ------------------------------
(***************************************************************************)
(* The terminal client (crates/tui/src/main.rs: the event loop; ui.rs: its *)
(* state, its keys and what it draws).  The loop applies what the core has *)
(* sent, draws, and waits for a key, so that a key meets the state that    *)
(* was drawn; lists come and sizes change in between.                      *)
(***************************************************************************)
EXTENDS Presentation

CONSTANTS
  LocalHost,    \* the name of this host, or Nothing
  TermSizes,    \* width and height
  WIDE_COLS,
  ExitOnSelect

\* What a key asked for is told from nothing asked for.
ASSUME TerminalAssumption ==
  /\ TermSizes \subseteq [width : Nat, height : Nat]
  /\ Nothing \notin [activated : Ids] \cup [deleted : Ids]

VARIABLES
  stage,       \* of the loop: applying, waiting for a key, ended
  termSize,    \* of the terminal
  size,        \* last_width and last_body_height
  sessions, selected, local, unavailable, errors, pending, view, pendingG, scroll,
  connected,
  frame,       \* what was drawn last
  effect,      \* what the last key asked for: an activation, a deletion, or
               \* none of them
  resized      \* the size has changed since the selection was brought in view

stateVars == <<sessions, selected, local, unavailable, errors, pending, view, pendingG, scroll,
               connected>>
terminalVars == <<stage, termSize, size, stateVars, frame, effect, resized>>

Wide == size.width >= WIDE_COLS
LinesPer == IF Wide THEN 1 ELSE 4
Body == size.height

-----------------------------------------------------------------------------
(***************************************************************************)
(* What is visible, and where it is drawn.                                 *)
(***************************************************************************)

\* The places in a list of the sessions that the filter lets through.
VisibleAt(list, isLocal) == {i \in 1..Len(list) : isLocal => list[i].host = LocalHost}

WaitingCountOf(list, isLocal) == Cardinality(WaitingAt(list, VisibleAt(list, isLocal)))

OrderOf(list, isLocal) ==
  LET order == Partition(list, VisibleAt(list, isLocal))
  IN  [i \in 1..Len(order) |-> order[i].id]

Order == OrderOf(sessions, local)
Visible == LET order == Order IN {order[i] : i \in 1..Len(order)}

PositionIn(order, id) == CHOOSE i \in 1..Len(order) : order[i] = id
Has(order, id) == \E i \in 1..Len(order) : order[i] = id

WaitingCount == WaitingCountOf(sessions, local)

\* build_flat_lines: the lines of a session, between the borders of those that
\* wait; a line is named after its session and its number.
Border == [id |-> Nothing, line |-> 0]

LinesOf(order, from, to) ==
  [k \in 1..((to - from + 1) * LinesPer) |->
     [id |-> order[from + (k - 1) \div LinesPer], line |-> ((k - 1) % LinesPer) + 1]]

FlatLines ==
  LET waiting == WaitingCount
      order == Order
  IN  IF waiting = 0 THEN LinesOf(order, 1, Len(order))
      ELSE <<Border>> \o LinesOf(order, 1, waiting) \o <<Border>>
             \o LinesOf(order, waiting + 1, Len(order))

\* Mutant: the borders are forgotten.
RowWithoutBorders(order, waiting, id) == (PositionIn(order, id) - 1) * LinesPer

\* selected_row, counted from 0.
RowOf(order, waiting, id) ==
  LET i == PositionIn(order, id)
  IN  IF i <= waiting THEN 1 + (i - 1) * LinesPer
      ELSE (IF waiting > 0 THEN 2 ELSE 0) + (i - 1) * LinesPer

\* Mutant: only the first line is kept in view.
SyncedFirstLine(offset, row) ==
  IF Body = 0 THEN offset
  ELSE IF row >= offset + Body THEN row + 1 - Body
  ELSE IF row < offset THEN row ELSE offset

\* sync_viewport: down until the last line of the selection shows, then up
\* until the first one does.
Synced(offset, row) ==
  LET down == IF row + LinesPer - 1 >= offset + Body THEN row + LinesPer - Body ELSE offset
  IN  IF Body = 0 THEN offset ELSE IF row < down THEN row ELSE down

\* The selection is id from here on, and in view.
Select(id, order, waiting) ==
  /\ selected' = id
  /\ IF Has(order, id)
       THEN scroll' = Synced(scroll, RowOf(order, waiting, id)) /\ resized' = (Body = 0)
       ELSE UNCHANGED <<scroll, resized>>

\* draw_detail: the page of the selected session, if it is still listed.
Page == IF view = "detail" /\ Has(Order, selected) THEN selected ELSE Nothing

\* draw_sessions: the lines from the viewport's first one down to the end of
\* the body or of the list.
LinesInView ==
  LET lines == FlatLines
      end == IF scroll + Body <= Len(lines) THEN scroll + Body ELSE Len(lines)
  IN  {lines[i] : i \in (scroll + 1)..end}

Frame ==
  [selected |-> selected,
   visible |-> Visible,
   dialog |-> pending,
   page |-> Page,
   lines |-> IF view = "detail" THEN {} ELSE LinesInView,
   help |-> CASE view = "detail" -> "back"
              [] view # "detail" /\ unavailable -> "unavailable"
              [] OTHER -> "keys"]

-----------------------------------------------------------------------------
(***************************************************************************)
(* The loop.                                                               *)
(***************************************************************************)

\* Mutant: the selection stays in its place.
ReconcileByPlace(previous, order, waiting) ==
  IF order = <<>> \/ selected = Nothing \/ ~Has(previous, selected)
    THEN Select(IF order = <<>> THEN Nothing ELSE order[1], order, waiting) /\ view' = view
    ELSE LET i == PositionIn(previous, selected)
         IN  /\ Select(order[IF i <= Len(order) THEN i ELSE Len(order)], order, waiting)
             /\ view' = view

\* reconcile_selection: the same session if it is still there, else the one in
\* its place, else the first one.
Reconcile(previous, order, waiting) ==
  IF Has(order, selected)
    THEN Select(selected, order, waiting) /\ view' = view
  ELSE IF order = <<>>
    THEN selected' = Nothing /\ scroll' = 0 /\ view' = "list" /\ resized' = FALSE
  ELSE LET place == IF Has(previous, selected) THEN PositionIn(previous, selected) ELSE 1
       IN  /\ Select(order[IF place <= Len(order) THEN place ELSE Len(order)], order, waiting)
           /\ view' = view

\* set_sessions.
ReceiveSessions(list) ==
  /\ stage = "apply"
  /\ sessions' = list
  /\ errors' = {}
  /\ Reconcile(Order, OrderOf(list, local), WaitingCountOf(list, local))
  /\ UNCHANGED <<stage, termSize, size, local, unavailable, pending, pendingG, connected,
                 frame, effect>>

ReceiveConnection ==
  /\ stage = "apply"
  /\ connected' = ~connected
  /\ UNCHANGED <<stage, termSize, size, sessions, selected, local, unavailable, errors, pending,
                 view, pendingG, scroll, frame, effect, resized>>

Resize(new) ==
  /\ stage # "ended"
  /\ termSize' = new
  /\ UNCHANGED <<stage, size, stateVars, frame, effect, resized>>

\* The size is taken over, see update_size, and the frame drawn.
TakeSize ==
  size' = [width |-> termSize.width,
           height |-> IF termSize.height >= 3 THEN termSize.height - 3 ELSE 0]

Draw ==
  /\ stage = "apply"
  /\ TakeSize
  /\ stage' = "key"
  /\ effect' = Nothing
  /\ resized' = (resized \/ size' # size)
  /\ UNCHANGED <<termSize, stateVars>>
  /\ frame' = Frame'

\* No key within the tick, or one that does nothing.
NoKeyPressed ==
  /\ stage = "key"
  /\ stage' = "apply"
  /\ \E forgotten \in BOOLEAN :
       pendingG' = IF forgotten /\ pending = Nothing /\ view = "list" THEN FALSE ELSE pendingG
  /\ UNCHANGED <<termSize, size, sessions, selected, local, unavailable, errors, pending, view,
                 scroll, connected, frame, effect, resized>>

-----------------------------------------------------------------------------
(***************************************************************************)
(* The keys.                                                               *)
(***************************************************************************)
Key == stage = "key"
ListKey == Key /\ pending = Nothing /\ view = "list"

\* What no key but its own changes.
KeyLeaves == UNCHANGED <<termSize, size, sessions, frame, connected>>

\* move_selection, past either end and around.
MoveTo(place) ==
  IF Order = <<>> THEN selected' = Nothing /\ UNCHANGED <<scroll, resized>>
                  ELSE Select(Order[place], Order, WaitingCount)

Moved(delta) ==
  IF Has(Order, selected) THEN ((PositionIn(Order, selected) - 1 + delta) % Len(Order)) + 1
  ELSE IF delta >= 0 THEN 1 ELSE Len(Order)

HalfPage == LET half == (Body \div LinesPer) \div 2 IN IF half >= 1 THEN half ELSE 1

\* j, k, Ctrl-d, Ctrl-u.
KeyMove ==
  /\ ListKey
  /\ \E delta \in {1, -1, HalfPage, -HalfPage} : MoveTo(Moved(delta))
  /\ pendingG' = FALSE
  /\ stage' = "apply"
  /\ KeyLeaves /\ UNCHANGED <<local, unavailable, errors, pending, view, effect>>

\* G.
KeyLast ==
  /\ ListKey
  /\ MoveTo(Len(Order))
  /\ pendingG' = FALSE
  /\ stage' = "apply"
  /\ KeyLeaves /\ UNCHANGED <<local, unavailable, errors, pending, view, effect>>

\* g, once and twice.
KeyFirst ==
  /\ ListKey
  /\ IF pendingG THEN MoveTo(1) ELSE UNCHANGED <<selected, scroll, resized>>
  /\ pendingG' = ~pendingG
  /\ stage' = "apply"
  /\ KeyLeaves /\ UNCHANGED <<local, unavailable, errors, pending, view, effect>>

\* Enter; the activation itself is in the module Activation.
KeyEnter ==
  /\ ListKey
  /\ pendingG' = FALSE
  /\ IF Has(Order, selected)
       THEN \E works \in BOOLEAN :
              /\ errors' = IF works THEN errors \ {selected} ELSE errors \cup {selected}
              /\ effect' = [activated |-> selected]
              /\ stage' = IF works /\ ExitOnSelect THEN "ended" ELSE "apply"
       ELSE UNCHANGED <<errors, effect>> /\ stage' = "apply"
  /\ KeyLeaves /\ UNCHANGED <<selected, scroll, resized, local, unavailable, pending, view>>

\* d.
KeyDelete ==
  /\ ListKey
  /\ pendingG' = FALSE
  /\ pending' = IF Has(Order, selected) THEN selected ELSE Nothing
  /\ stage' = "apply"
  /\ KeyLeaves /\ UNCHANGED <<selected, scroll, resized, local, unavailable, errors, view, effect>>

\* Space opens the page of the session; there Space and Esc close it.
KeySpace ==
  /\ Key /\ pending = Nothing
  /\ IF view = "list"
       THEN /\ view' = IF selected # Nothing THEN "detail" ELSE "list"
            /\ pendingG' = FALSE
       ELSE view' = "list" /\ UNCHANGED pendingG
  /\ stage' = "apply"
  /\ KeyLeaves /\ UNCHANGED <<selected, scroll, resized, local, unavailable, errors, pending, effect>>

\* h.
KeyHosts ==
  /\ ListKey
  /\ pendingG' = FALSE
  /\ IF LocalHost = Nothing
       THEN unavailable' = TRUE /\ UNCHANGED <<selected, scroll, resized, view, local>>
       ELSE /\ unavailable' = FALSE
            /\ local' = ~local
            /\ Reconcile(Order, OrderOf(sessions, local'), WaitingCountOf(sessions, local'))
  /\ stage' = "apply"
  /\ KeyLeaves /\ UNCHANGED <<errors, pending, effect>>

\* Mutant: what is selected is deleted.
ConfirmsSelected == selected

\* y; the session may be gone by now, or hidden.
Confirmed == pending

KeyConfirm ==
  /\ Key /\ pending # Nothing
  /\ effect' = IF Has(Order, Confirmed) THEN [deleted |-> Confirmed] ELSE Nothing
  /\ pending' = Nothing
  /\ stage' = "apply"
  /\ KeyLeaves /\ UNCHANGED <<selected, scroll, resized, local, unavailable, errors, view, pendingG>>

\* n, Esc.
KeyCancel ==
  /\ Key /\ pending # Nothing
  /\ pending' = Nothing
  /\ stage' = "apply"
  /\ KeyLeaves /\ UNCHANGED <<selected, scroll, resized, local, unavailable, errors, view, pendingG, effect>>

\* q and Ctrl-C, but for the dialog.
KeyQuit ==
  /\ Key /\ pending = Nothing
  /\ stage' = "ended"
  /\ UNCHANGED <<termSize, size, stateVars, frame, effect, resized>>

TerminalInit ==
  /\ stage = "apply"
  /\ termSize \in TermSizes
  /\ size = [width |-> 0, height |-> 0]
  /\ sessions = <<>>
  /\ selected = Nothing
  /\ local = FALSE /\ unavailable = FALSE
  /\ errors = {}
  /\ pending = Nothing
  /\ view = "list"
  /\ pendingG = FALSE
  /\ scroll = 0
  /\ connected = FALSE
  /\ frame = Nothing
  /\ effect = Nothing
  /\ resized = FALSE

TerminalNext ==
  \/ \E list \in Lists : ReceiveSessions(list)
  \/ ReceiveConnection
  \/ \E new \in TermSizes : Resize(new)
  \/ Draw \/ NoKeyPressed
  \/ KeyMove \/ KeyLast \/ KeyFirst \/ KeyEnter \/ KeyDelete \/ KeySpace \/ KeyHosts
  \/ KeyConfirm \/ KeyCancel \/ KeyQuit

TerminalSpec == TerminalInit /\ [][TerminalNext]_terminalVars

-----------------------------------------------------------------------------
\* As long as there are sessions one of them is selected, and the list shows
\* where: all its lines are within the window, whatever the list, the filter
\* and the keys have done since, unless the size has changed (ui.rs:235,
\* sync_viewport), and a page is never blank.
SelectedSessionIsShown ==
  stage = "key" =>
    /\ selected = Nothing <=> frame.visible = {}
    /\ view = "detail" => frame.page = selected
    /\ view = "list" /\ selected # Nothing /\ ~resized /\ Body >= LinesPer =>
         \A line \in 1..LinesPer : [id |-> selected, line |-> line] \in frame.lines

\* What a user sees is what a key hits: the session activated is the one drawn
\* as selected, the one deleted the one named by the dialog and still listed;
\* and no list moves the cursor off a session that is still there (ui.rs:332).
AimIsKept ==
  [][/\ effect' \in [activated : Ids] => effect' = effect \/ effect'.activated = frame.selected
     /\ effect' \in [deleted : Ids] =>
          effect' = effect \/ (effect'.deleted = frame.dialog /\ frame.dialog \in frame.visible)
     /\ ~Key /\ Has(OrderOf(sessions', local'), selected) => selected' = selected]_terminalVars
=============================================================================
