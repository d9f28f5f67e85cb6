----------------------------- MODULE Activation -----------------------------
(***************************************************************************)
(* Going to a session (crates/common/src/activation.rs; crates/core-ffi/   *)
(* src/lib.rs, activate_session).  A session of this host is shown by the  *)
(* tmux client that was used last; another one by a terminal that runs     *)
(* ssh, which a desktop client opens and the terminal client gets by       *)
(* detaching that same tmux client.  Each tmux command is a step of its    *)
(* own: clients come, go and move and panes are closed in between.         *)
(***************************************************************************)
EXTENDS Integers, FiniteSets

CONSTANTS
  Clients,       \* of tmux, on this host
  Panes,         \* of tmux: session and pane
  BeginsWith,    \* pairs of session names, the first of which begins with the second
  Views,         \* what is known of a session: host and target
  KnownAs,       \* what a client takes for the name of its host
  MaxActivity,   \* bound of the time a client was used last
  Detached,      \* not a client at the moment
  NoTarget, GarbledTarget, NoHostname

VARIABLES
  at,         \* per client, the pane it shows, or that it does not
  active,     \* per client, when it was used last
  panes,      \* that exist
  request,    \* the session to go to, and by whom
  step,       \* the next step of it
  chosen,     \* the client to move
  outcome,
  latest,     \* history: the clients used last when they were listed
  refused     \* history: what tmux was asked for and has refused

requestVars == <<request, step, chosen, latest, refused, outcome>>
tmuxVars == <<at, active, panes>>
activationVars == <<tmuxVars, requestVars>>

NoOne == Detached

Callers == {"desktop", "terminal", "ios"}

Ssh(view) == [host |-> view.host, target |-> view.target]

Attached == {c \in Clients : at[c] \in Panes}
SessionsAlive == {p.session : p \in panes}

\* The session that a name after -t stands for: the one of that name, else the
\* only one whose name begins with it.
Named(name) ==
  LET longer == {s \in SessionsAlive : <<s, name>> \in BeginsWith}
  IN  IF name \in SessionsAlive THEN {name}
      ELSE IF Cardinality(longer) = 1 THEN longer ELSE {}

\* The pane that a target after -t stands for.
Targeted(target) == {p \in panes : p.session \in Named(target.session) /\ p.pane = target.pane}

-----------------------------------------------------------------------------
\* What tmux does of itself and at the user's hand: a client is used, which
\* moves it to a pane, attaches it or leaves its activity at the same second;
\* it is detached; panes open and close, and a session ends with its last
\* pane, which detaches the clients that it showed.
ClientUsed(c) ==
  \E pane \in panes, now \in active[c]..MaxActivity :
    /\ at' = [at EXCEPT ![c] = pane]
    /\ active' = [active EXCEPT ![c] = now]
    /\ UNCHANGED <<panes, requestVars>>

ClientLeaves(c) ==
  /\ at[c] # Detached
  /\ at' = [at EXCEPT ![c] = Detached]
  /\ UNCHANGED <<active, panes, requestVars>>

PaneOpens(pane) ==
  /\ panes' = panes \cup {pane}
  /\ UNCHANGED <<at, active, requestVars>>

PaneCloses(pane) ==
  /\ pane \in panes
  /\ panes' = panes \ {pane}
  /\ LET left == {p \in panes' : p.session = pane.session}
     IN  \E next \in IF left = {} THEN {Detached} ELSE left :
           at' = [c \in Clients |-> IF at[c] = pane THEN next ELSE at[c]]
  /\ UNCHANGED <<active, requestVars>>

-----------------------------------------------------------------------------
\* resolve_route.
Route(view, knownAs) ==
  CASE view.target = NoTarget -> "NoTmuxTarget"
    [] view.target = GarbledTarget -> "InvalidTarget"
    [] view.target \in Panes /\ view.host = knownAs -> "local"
    [] view.target \in Panes /\ view.host # knownAs /\ view.host = NoHostname -> "TmuxFailed"
    [] OTHER -> "remote"

FirstStep(caller, route) ==
  CASE caller = "ios" -> "UnsupportedPlatform"
    [] caller # "ios" /\ route = "local" -> "list"
    [] caller = "desktop" /\ route = "remote" -> "open"
    [] caller = "terminal" /\ route = "remote" -> "list"
    [] OTHER -> route

Ends(result) == step' = "over" /\ outcome' = result

\* activate, activate_in_tmux and activate_session up to the first command.
Activate ==
  /\ step = "none"
  /\ \E view \in Views, caller \in Callers, knownAs \in KnownAs :
       LET route == Route(view, knownAs)
           first == FirstStep(caller, route)
       IN  /\ request' = [view |-> view, caller |-> caller, route |-> route]
           /\ IF first \in {"list", "open"} THEN step' = first /\ UNCHANGED outcome
                                            ELSE Ends(first)
  /\ UNCHANGED <<tmuxVars, chosen, latest, refused>>

\* Mutant: the client used first.
LeastRecent == {c \in Attached : \A d \in Attached : active[c] <= active[d]}

\* The clients used last; of two that were, tmux's order decides.
MostRecent == {c \in Attached : \A d \in Attached : active[d] <= active[c]}

\* resolve_most_recent_client; tmux may not start, or fail to answer.
ResolveMostRecentClient ==
  /\ step = "list"
  /\ latest' = {c \in Attached : \A d \in Attached \ {c} : active[d] <= active[c]}
  /\ \/ \E c \in MostRecent :
          /\ chosen' = c
          /\ step' = IF request.route = "local" THEN "pane" ELSE "detach"
          /\ UNCHANGED outcome
     \/ Ends("NoTmuxClients") /\ UNCHANGED chosen
     \/ Ends("TmuxFailed") /\ UNCHANGED chosen
  /\ UNCHANGED <<tmuxVars, request, refused>>

\* run_tmux: tmux moves the client to one of these places, or the command
\* fails, as it always does without a client or a place, and may do for any
\* other reason; then nothing has moved.
Moves(places) ==
  \E place \in places :
    /\ chosen \in Attached
    /\ at' = [at EXCEPT ![chosen] = place]
    /\ Ends("ok")
    /\ UNCHANGED refused

Refuses(what) == refused' = refused \cup {what} /\ UNCHANGED at

\* Mutant: there is no second try.
PaneOrNothing ==
  /\ step = "pane"
  /\ \/ Moves(Targeted(request.view.target))
     \/ Refuses("pane") /\ Ends("TmuxFailed")
  /\ UNCHANGED <<active, panes, request, chosen, latest>>

\* switch-client to the pane; failing that, to its session.
SwitchToPane ==
  /\ step = "pane"
  /\ \/ Moves(Targeted(request.view.target))
     \/ Refuses("pane") /\ step' = "session" /\ UNCHANGED outcome
  /\ UNCHANGED <<active, panes, request, chosen, latest>>

SwitchToSession ==
  /\ step = "session"
  /\ \/ Moves({p \in panes : p.session \in Named(request.view.target.session)})
     \/ Refuses("session") /\ Ends("TmuxFailed")
  /\ UNCHANGED <<active, panes, request, chosen, latest>>

\* activate_remote_tmux, after the listing.
DetachIntoSsh ==
  /\ step = "detach"
  /\ \/ Moves({Ssh(request.view)})
     \/ Refuses("detach") /\ Ends("TmuxFailed")
  /\ UNCHANGED <<active, panes, request, chosen, latest>>

\* activate_remote: nothing is known of the terminal but that it started.
OpenTerminal ==
  /\ step = "open"
  /\ \E starts \in BOOLEAN : Ends(IF starts THEN "ok" ELSE "TerminalLaunchFailed")
  /\ UNCHANGED <<tmuxVars, request, chosen, latest, refused>>

\* The answer is shown, or thrown.
AnswerTaken ==
  /\ step = "over"
  /\ request' = NoTarget /\ step' = "none" /\ outcome' = "none"
  /\ chosen' = NoOne /\ latest' = {} /\ refused' = {}
  /\ UNCHANGED tmuxVars

ActivationInit ==
  /\ panes = Panes
  /\ at = [c \in Clients |-> Detached]
  /\ active = [c \in Clients |-> 0]
  /\ request = NoTarget /\ step = "none" /\ outcome = "none"
  /\ chosen = NoOne /\ latest = {} /\ refused = {}

TmuxNext ==
  \/ \E c \in Clients : ClientUsed(c) \/ ClientLeaves(c)
  \/ \E pane \in Panes : PaneOpens(pane) \/ PaneCloses(pane)

RequestNext ==
  \/ Activate \/ ResolveMostRecentClient \/ SwitchToPane \/ SwitchToSession
  \/ DetachIntoSsh \/ OpenTerminal \/ AnswerTaken

ActivationNext == TmuxNext \/ RequestNext

ActivationSpec == ActivationInit /\ [][ActivationNext]_activationVars

-----------------------------------------------------------------------------
\* An activation moves no client but the one that was used last when it asked,
\* and that one only when it reports success: to the very pane, or, once tmux
\* has refused that, somewhere in its session; to a session that only has a
\* longer name where its own is gone; a session of another host never to a
\* pane of this one.  It reports a failure of tmux only after tmux has refused
\* the pane and the session (activation.rs:189, activate_local and its fallback).
ActivationLands ==
  [][RequestNext =>
       /\ \A c \in Clients : at'[c] # at[c] => c \in latest /\ c = chosen /\ outcome' = "ok"
       /\ request # NoTarget /\ outcome' = "ok" /\ outcome = "none" =>
            LET target == request.view.target IN
            CASE request.route = "local" ->
                   /\ IF target.session \in SessionsAlive
                        THEN at'[chosen].session = target.session
                        ELSE <<at'[chosen].session, target.session>> \in BeginsWith
                   /\ "pane" \notin refused => at'[chosen].pane = target.pane
              [] request.route = "remote" /\ request.caller = "terminal" ->
                   at'[chosen] = Ssh(request.view)
              [] OTHER -> at' = at
       /\ outcome' = "TmuxFailed" /\ outcome = "none" /\ chosen # NoOne =>
            refused' = IF request.route = "local" THEN {"pane", "session"} ELSE {"detach"}
    ]_activationVars
=============================================================================
