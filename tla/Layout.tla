------------------------------- MODULE Layout -------------------------------
(***************************************************************************)
(* How the terminal client cuts a session down to the width it has         *)
(* (crates/tui/src/ui.rs: the rows, cards, header and dialog; crates/      *)
(* common/src/presentation.rs: elide_path, truncate_text).  A text is its  *)
(* length in characters, which is also how the code measures it, and 0     *)
(* where there is none.                                                    *)
(***************************************************************************)
EXTENDS Integers

CONSTANTS
  MIN_CWD,    \* what is kept for the working directory
  MAX_MODAL   \* the width of the dialog

Smaller(a, b) == IF a <= b THEN a ELSE b
SaturatingSub(a, b) == IF a >= b THEN a - b ELSE 0

\* Cut at the left or at the right, the mark of the cut included.
ElidePath(length, width) ==
  IF length <= width THEN length
  ELSE IF width = 0 THEN 0 ELSE 1 + Smaller(length, SaturatingSub(width, 1))

TruncateText(length, width) ==
  IF length <= width THEN length
  ELSE IF width = 0 THEN 0 ELSE SaturatingSub(width, 1) + 1

Present(part) == part > 0
Widened(length, by) == IF Present(length) THEN length + by ELSE 0
If(condition, length) == IF condition THEN length ELSE 0

-----------------------------------------------------------------------------
\* What a session shows of itself: [name] , host: (or the host and a space),
\* a space and branch@remote, the label of its status, its age, the mark of a
\* session without a pane, and the error of its activation.
NamePart(s) == Widened(s.name, 3)
HostPart(s) == Widened(s.host, 1)
BranchPart(s) == Widened(s.branch, 1)
NoTmux(s) == If(~s.tmux, 2)

\* Of a row, what is never given up: status, age, mark and error.
RightWidth(s) == s.status + 2 + s.time + 2 + NoTmux(s) + Widened(s.error, 4)

\* Mutant: the host is not told how much the name has taken.
HostIgnoringName(s, width) ==
  Present(HostPart(s))
    /\ HostPart(s) + MIN_CWD <= SaturatingSub(SaturatingSub(width, RightWidth(s)), 2)

LeftBudget(s, width) == SaturatingSub(SaturatingSub(width, RightWidth(s)), 2)

IncludeName(s, width) ==
  Present(NamePart(s)) /\ NamePart(s) + MIN_CWD <= LeftBudget(s, width)

IncludeHost(s, width) ==
  /\ Present(HostPart(s))
  /\ If(IncludeName(s, width), NamePart(s)) + HostPart(s) + MIN_CWD <= LeftBudget(s, width)

OptionalUsed(s, width) ==
  If(IncludeName(s, width), NamePart(s)) + If(IncludeHost(s, width), HostPart(s))

IncludeBranch(s, budget) == Present(BranchPart(s)) /\ BranchPart(s) + MIN_CWD <= budget

\* session_row_wide.
WideRow(s, width) ==
  LET budget == SaturatingSub(LeftBudget(s, width), OptionalUsed(s, width))
      branch == If(IncludeBranch(s, budget), BranchPart(s))
  IN  [name |-> If(IncludeName(s, width), NamePart(s)),
       host |-> If(IncludeHost(s, width), HostPart(s)),
       cwd |-> ElidePath(s.cwd, SaturatingSub(budget, branch)),
       branch |-> branch,
       right |-> RightWidth(s)]

WideRowWidth(s, width) ==
  LET row == WideRow(s, width)
  IN  2 + row.name + row.host + row.cwd + row.branch + row.right

\* session_card: the gutter and an indent of two take four columns of each line.
CardRemaining(s, width) == SaturatingSub(width, 4 + s.time + 2)

CardName(s, width) == Present(NamePart(s)) /\ NamePart(s) <= CardRemaining(s, width)

CardHost(s, width) ==
  /\ Present(HostPart(s))
  /\ If(CardName(s, width), NamePart(s)) + HostPart(s) <= CardRemaining(s, width)

CardError(s, width) ==
  If(Present(s.error),
     2 + TruncateText(s.error, SaturatingSub(SaturatingSub(width, 4 + s.status + NoTmux(s)), 2)))

CardWidths(s, width) ==
  LET budget == SaturatingSub(width, 4)
      branch == If(IncludeBranch(s, budget), BranchPart(s))
  IN  <<4 + If(CardName(s, width), NamePart(s)) + If(CardHost(s, width), HostPart(s)) + s.time + 2,
        4 + ElidePath(s.cwd, SaturatingSub(budget, branch)) + branch,
        4 + s.status + CardError(s, width) + NoTmux(s)>>

\* header_line of a wide terminal that shows the sessions of this host.
HeaderFixed(connection, waiting, busy) == 3 + 9 + connection + waiting + busy

HeaderWidth(hostname, connection, waiting, busy, width) ==
  HeaderFixed(connection, waiting, busy)
    + TruncateText(hostname, SaturatingSub(width, HeaderFixed(connection, waiting, busy)))

\* draw_delete_modal: the line of the question and the room inside the frame.
ModalInner(width) == SaturatingSub(Smaller(MAX_MODAL, width), 2)
ModalLine(label, width) == 10 + TruncateText(label, SaturatingSub(ModalInner(width), 10))

-----------------------------------------------------------------------------
(***************************************************************************)
(* One session drawn at one width.                                         *)
(***************************************************************************)
CONSTANTS Widths, Texts, Ages

ASSUME LayoutAssumption ==
  /\ MIN_CWD \in Nat /\ MAX_MODAL \in Nat
  /\ Widths \subseteq Nat /\ Texts \subseteq Nat /\ Ages \subseteq Nat

VARIABLES drawn, width
layoutVars == <<drawn, width>>

Fields == [name : Texts, host : Texts, branch : Texts, cwd : Texts \ {0}, time : Ages,
           status : Texts \ {0}, tmux : BOOLEAN, error : Texts]

LayoutInit == drawn = {} /\ width = 0
LayoutNext == width = 0 /\ width' \in Widths /\ drawn' \in Fields

LayoutSpec == LayoutInit /\ [][LayoutNext]_layoutVars

\* Nothing runs over the edge of the terminal as long as the parts that are
\* never given up fit by themselves, and a branch, name or host never costs the
\* working directory its last columns (ui.rs:777: keeping at least 5 chars for
\* cwd).
RowsFit ==
  width > 0 =>
    /\ RightWidth(drawn) + 2 <= width =>
         /\ WideRowWidth(drawn, width) <= width
         /\ WideRow(drawn, width).cwd >= Smaller(drawn.cwd,
              IF OptionalUsed(drawn, width) + WideRow(drawn, width).branch > 0 THEN MIN_CWD ELSE 0)
    /\ 6 + drawn.time <= width => CardWidths(drawn, width)[1] <= width
    /\ 4 <= width => CardWidths(drawn, width)[2] <= width
    /\ 6 + drawn.status + NoTmux(drawn) <= width => CardWidths(drawn, width)[3] <= width
    /\ HeaderFixed(drawn.status, drawn.branch, drawn.time) <= width =>
         HeaderWidth(drawn.host, drawn.status, drawn.branch, drawn.time, width) <= width
    /\ ModalInner(width) >= 10 => ModalLine(drawn.name, width) <= ModalInner(width)
=========================
