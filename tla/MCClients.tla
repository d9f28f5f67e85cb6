----------------------------- MODULE MCClients ------------------------------
(***************************************************************************)
(* The clients on small instances.  The parts do not share state: subject  *)
(* says which of them runs, the others keep their first state.             *)
(***************************************************************************)
EXTENDS Terminal, Desktop, Activation, Layout, Heartbeats

CONSTANTS s1, s2, s3, here, there

View(id, waiting, host, tmux, time) ==
  [id |-> id, waiting |-> waiting, host |-> host, tmux |-> tmux, at |-> time]

\* A session that moves, one that waits, ties, and lists that lose a session.
SomeLists ==
  {<<>>,
   <<View(s1, FALSE, here, TRUE, 1)>>,
   <<View(s1, FALSE, here, TRUE, 1), View(s2, TRUE, there, FALSE, 1),
     View(s3, FALSE, here, TRUE, 2)>>,
   <<View(s3, TRUE, there, TRUE, 1), View(s1, FALSE, here, TRUE, 2)>>,
   <<View(s2, TRUE, there, FALSE, 1), View(s3, TRUE, there, TRUE, 2)>>}

FewLists ==
  {<<>>, <<View(s1, FALSE, here, TRUE, 1)>>,
   <<View(s1, FALSE, here, TRUE, 1), View(s2, TRUE, there, FALSE, 1)>>}

\* Narrow and long, wide and short.
SomeSizes == {[width |-> 1, height |-> 7], [width |-> 2, height |-> 5]}

FirstPane == [session |-> "work", pane |-> 1]
SomePanes == {FirstPane, [session |-> "work", pane |-> 2], [session |-> "workshop", pane |-> 1]}
SomeNames == {<<"workshop", "work">>}
SomeViews == [host : {here, there, NoHostname}, target : {NoTarget, GarbledTarget, FirstPane}]

VARIABLE subject

clientVars == <<terminalVars, desktopVars, activationVars, layoutVars, heartbeatVars, subject>>

\* What a part starts with at random is fixed for the parts that do not run.
ClientsInit ==
  /\ subject \in {"terminal", "desktop", "activation", "layout", "heartbeats"}
  /\ TerminalInit /\ DesktopInit /\ ActivationInit /\ LayoutInit /\ HeartbeatInit
  /\ subject = "terminal" \/ termSize = CHOOSE some \in TermSizes : TRUE
  /\ subject = "heartbeats" \/ pollRest = 0

ClientsNext ==
  /\ subject' = subject
  /\ \/ subject = "terminal" /\ TerminalNext
          /\ UNCHANGED <<desktopVars, activationVars, layoutVars, heartbeatVars>>
     \/ subject = "desktop" /\ DesktopNext
          /\ UNCHANGED <<terminalVars, activationVars, layoutVars, heartbeatVars>>
     \/ subject = "activation" /\ ActivationNext
          /\ UNCHANGED <<terminalVars, desktopVars, layoutVars, heartbeatVars>>
     \/ subject = "layout" /\ LayoutNext
          /\ UNCHANGED <<terminalVars, desktopVars, activationVars, heartbeatVars>>
     \/ subject = "heartbeats" /\ HeartbeatNext
          /\ UNCHANGED <<terminalVars, desktopVars, activationVars, layoutVars>>

ClientsSpec == ClientsInit /\ [][ClientsNext]_clientVars
=============================================================================
