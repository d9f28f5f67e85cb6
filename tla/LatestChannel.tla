---------------------------- MODULE LatestChannel ----------------------------
(***************************************************************************)
(* What the event stream of csm-server promises each of its clients, with  *)
(* no queue in sight: a client with an open stream has a slot, every value *)
(* that is announced lands in every slot in the step that announces it,    *)
(* and although a client may show older values on the way, in the end it   *)
(* shows what its slot holds.  It is the contract on which get_events      *)
(* relies when it discards the Lagged errors of a receiver that fell       *)
(* behind (server/src/lib.rs).                                             *)
(***************************************************************************)
CONSTANTS
  Clients,     \* the subscribers
  Announcers,  \* those who announce
  Values,      \* what can be announced
  Closed,      \* the slot of a client with no open stream
  Nothing      \* no value: not shown yet, or not offered

VARIABLES
  offered,  \* what each announcer is about to announce
  slot,     \* the newest value announced to each client
  shown     \* the value each client displays

channelVars == <<offered, slot, shown>>

Init ==
  /\ offered = [a \in Announcers |-> Nothing]
  /\ slot = [c \in Clients |-> Closed]
  /\ shown = [c \in Clients |-> Nothing]

Open(c) ==
  /\ slot[c] = Closed
  /\ \E v \in Values : slot' = [slot EXCEPT ![c] = v]
  /\ UNCHANGED <<offered, shown>>

Close(c) ==
  /\ slot' = [slot EXCEPT ![c] = Closed]
  /\ UNCHANGED <<offered, shown>>

Offer(a) ==
  /\ offered[a] = Nothing
  /\ \E v \in Values : offered' = [offered EXCEPT ![a] = v]
  /\ UNCHANGED <<slot, shown>>

Announce(a) ==
  /\ offered[a] # Nothing
  /\ slot' = [c \in Clients |-> IF slot[c] = Closed THEN Closed ELSE offered[a]]
  /\ offered' = [offered EXCEPT ![a] = Nothing]
  /\ UNCHANGED shown

Show(c) ==
  /\ slot[c] # Closed
  /\ \E v \in Values : shown' = [shown EXCEPT ![c] = v]
  /\ UNCHANGED <<offered, slot>>

\* The announcers fail together, and every stream with them.
Fail ==
  /\ offered' = [a \in Announcers |-> Nothing]
  /\ slot' = [c \in Clients |-> Closed]
  /\ UNCHANGED shown

Next ==
  \/ \E c \in Clients : Open(c) \/ Close(c) \/ Show(c)
  \/ \E a \in Announcers : Offer(a) \/ Announce(a)
  \/ Fail

\* A slot that stays put is what its client ends up showing.
CatchesUp ==
  \A c \in Clients, v \in Values : <>[](slot[c] = v) => <>[](shown[c] = v)

Spec == Init /\ [][Next]_channelVars /\ CatchesUp
=============================================================================
