------------------------------- MODULE Server -------------------------------
(***************************************************************************)
(* The request handlers of csm-server (crates/server/src/lib.rs) on top of *)
(* its store, and the event streams of its clients.                        *)
(*                                                                         *)
(* A handler runs without an .await on one worker thread of the runtime.   *)
(* It locks the store, writes, lists the active sessions, unlocks, and     *)
(* only then sends the list to the broadcast channel; get_events lists     *)
(* under the lock and subscribes after it.  The locked part is one action, *)
(* what follows the unlock another, and `outbox' holds what a worker is    *)
(* carrying from the first to the second.  A request the store answers     *)
(* with "not found" changes nothing and is not an action.                  *)
(*                                                                         *)
(* The broadcast channel (tokio) is modelled as used here: a receiver that *)
(* falls more than Capacity messages behind loses the oldest ones, the     *)
(* Lagged error is filtered out, and it goes on with the rest.             *)
(***************************************************************************)
EXTENDS SessionStore, Sequences

CONSTANTS
  Workers,    \* worker threads of the runtime
  Clients,    \* SSE clients
  Capacity,   \* slots of the broadcast channel, broadcast::channel(64)
  FaultPoints, \* the statements after a committed write that may fail
  MaxFaults,  \* bound on their failures
  Everyone,   \* the addressee of a broadcast
  Idle,       \* a worker with nothing in hand
  Nothing,    \* no first list waiting, or nothing on the screen yet
  Closed      \* the abstract slot of a client with no stream

ASSUME ServerAssumption ==
  /\ Capacity \in Nat \ {0}
  /\ FaultPoints \subseteq {"heartbeat", "list", "first list"}
  /\ MaxFaults \in Nat
  /\ Everyone \notin Clients

VARIABLES
  outbox,      \* what each worker carries past the unlock
  subscribed,  \* the clients whose stream is open
  current,     \* the first item of a stream, until it is received
  ring,        \* broadcasts a receiver has not read yet, oldest first
  screen,      \* the last list each client received, kept when it disconnects
  faults       \* database errors so far

streamVars == <<subscribed, current, ring, screen>>
serverVars == <<storeVars, outbox, streamVars, faults>>

\* The lists a client can be sent: ids with their active rows.
Views == UNION {[ids -> {row \in Row : row.status # Ended}] : ids \in SUBSET Sessions}

EmptyView == [s \in {} |-> NoRow]

Message == [client: Clients \cup {Everyone}, view: Views]

ASSUME MarkerAssumption ==
  /\ Nothing \notin Views
  /\ Closed \notin Views
  /\ Idle \notin Message

ServerTypeOK ==
  /\ StoreTypeOK
  /\ outbox \in [Workers -> Message \cup {Idle}]
  /\ subscribed \in SUBSET Clients
  /\ current \in [Clients -> Views \cup {Nothing}]
  /\ ring \in [Clients -> Seq(Views)]
  /\ \A c \in Clients : Len(ring[c]) <= Capacity
  /\ screen \in [Clients -> Views \cup {Nothing}]
  /\ faults \in 0..MaxFaults

-----------------------------------------------------------------------------
\* The statement at a fault point returns an error.
Fault(point) ==
  /\ point \in FaultPoints
  /\ faults < MaxFaults
  /\ faults' = faults + 1

\* Mutant: the list is made before the write.
ListBeforeWrite(w) ==
  \/ /\ outbox' = [outbox EXCEPT ![w] = [client |-> Everyone, view |-> ListActive(sessions)]]
     /\ UNCHANGED faults
  \/ Fault("list") /\ UNCHANGED outbox

\* The rest of the locked section: list_active_sessions, and its list in hand.
ListForBroadcast(w) ==
  \/ /\ outbox' = [outbox EXCEPT ![w] =
                     [client |-> Everyone, view |-> ListActive(sessions')]]
     /\ UNCHANGED faults
  \/ Fault("list") /\ UNCHANGED outbox

PostSession(w, r) ==
  /\ outbox[w] = Idle
  /\ UpsertSession(r)
  /\ ListForBroadcast(w)
  /\ UNCHANGED <<host_status, now, streamVars>>

PostEnd(w, s) ==
  /\ outbox[w] = Idle
  /\ EndSession(s)
  /\ ListForBroadcast(w)
  /\ UNCHANGED <<host_status, now, streamVars>>

DeleteRequest(w, s) ==
  /\ outbox[w] = Idle
  /\ DeleteSession(s)
  /\ ListForBroadcast(w)
  /\ UNCHANGED <<host_status, now, streamVars>>

\* apply_snapshot has committed when record_host_seen runs; its error, like an
\* error of the list, answers 500 and sends nothing.
PostSnapshot(w, h, k, snap) ==
  /\ outbox[w] = Idle
  /\ ApplySnapshot(h, k, snap)
  /\ \/ Fault("heartbeat") /\ UNCHANGED <<host_status, outbox>>
     \/ /\ RecordHostSeen(h, k)
        /\ IF SnapshotChanges(sessions, h, k, snap)
           THEN ListForBroadcast(w)
           ELSE UNCHANGED <<outbox, faults>>
  /\ UNCHANGED <<now, streamVars>>

\* The first half of get_events; an error of the list yields an empty one.
GetEvents(w, c) ==
  /\ outbox[w] = Idle
  /\ c \notin subscribed
  /\ \A v \in Workers : outbox[v] # Idle => outbox[v].client # c
  /\ \/ /\ outbox' = [outbox EXCEPT ![w] = [client |-> c, view |-> ListActive(sessions)]]
        /\ UNCHANGED faults
     \/ /\ Fault("first list")
        /\ outbox' = [outbox EXCEPT ![w] = [client |-> c, view |-> EmptyView]]
  /\ UNCHANGED <<storeVars, streamVars>>

\* The second half: the receiver exists from here on, its list already made.
Subscribe(w) ==
  /\ outbox[w] # Idle
  /\ outbox[w].client \in Clients
  /\ LET c == outbox[w].client
     IN  /\ subscribed' = subscribed \cup {c}
         /\ current' = [current EXCEPT ![c] = outbox[w].view]
         /\ ring' = [ring EXCEPT ![c] = <<>>]
  /\ outbox' = [outbox EXCEPT ![w] = Idle]
  /\ UNCHANGED <<storeVars, screen, faults>>

\* Mutant: a full receiver loses the new message instead of its oldest.
PushOrDrop(queue, v) == IF Len(queue) < Capacity THEN Append(queue, v) ELSE queue

Push(queue, v) ==
  IF Len(queue) < Capacity THEN Append(queue, v) ELSE Append(Tail(queue), v)

\* tx.send, after the unlock.
Send(w) ==
  /\ outbox[w] # Idle
  /\ outbox[w].client = Everyone
  /\ ring' = [c \in Clients |->
                IF c \in subscribed THEN Push(ring[c], outbox[w].view) ELSE ring[c]]
  /\ outbox' = [outbox EXCEPT ![w] = Idle]
  /\ UNCHANGED <<storeVars, subscribed, current, screen, faults>>

ReceiveCurrent(c) ==
  /\ c \in subscribed
  /\ current[c] # Nothing
  /\ screen' = [screen EXCEPT ![c] = current[c]]
  /\ current' = [current EXCEPT ![c] = Nothing]
  /\ UNCHANGED <<storeVars, outbox, subscribed, ring, faults>>

ReceiveBroadcast(c) ==
  /\ c \in subscribed
  /\ current[c] = Nothing
  /\ ring[c] # <<>>
  /\ screen' = [screen EXCEPT ![c] = Head(ring[c])]
  /\ ring' = [ring EXCEPT ![c] = Tail(ring[c])]
  /\ UNCHANGED <<storeVars, outbox, subscribed, current, faults>>

\* A stream ends: its receiver is dropped, the client keeps its last list.
Close(leaving) ==
  /\ subscribed' = subscribed \ leaving
  /\ current' = [c \in Clients |-> IF c \in leaving THEN Nothing ELSE current[c]]
  /\ ring' = [c \in Clients |-> IF c \in leaving THEN <<>> ELSE ring[c]]
  /\ UNCHANGED screen

Disconnect(c) ==
  /\ c \in subscribed
  /\ Close({c})
  /\ UNCHANGED <<storeVars, outbox, faults>>

\* The process dies and comes back: the database survives, nothing else does.
Restart ==
  /\ outbox' = [w \in Workers |-> Idle]
  /\ Close(Clients)
  /\ UNCHANGED <<storeVars, faults>>

ServerTick == Tick /\ UNCHANGED <<outbox, streamVars, faults>>

ServerInit ==
  /\ StoreInit
  /\ outbox = [w \in Workers |-> Idle]
  /\ subscribed = {}
  /\ current = [c \in Clients |-> Nothing]
  /\ ring = [c \in Clients |-> <<>>]
  /\ screen = [c \in Clients |-> Nothing]
  /\ faults = 0

ServerNext ==
  \/ \E w \in Workers :
       \/ \E r \in Report : PostSession(w, r)
       \/ \E s \in Sessions : PostEnd(w, s) \/ DeleteRequest(w, s)
       \/ \E h \in Hosts, k \in Kinds, snap \in Snapshots : PostSnapshot(w, h, k, snap)
       \/ \E c \in Clients : GetEvents(w, c)
       \/ Subscribe(w)
       \/ Send(w)
  \/ \E c \in Clients : ReceiveCurrent(c) \/ ReceiveBroadcast(c) \/ Disconnect(c)
  \/ Restart
  \/ ServerTick

ServerSpec == ServerInit /\ [][ServerNext]_serverVars

\* A worker never stops between the unlock and the send, and a stream with
\* something to deliver delivers it; requests and disconnections need not come.
FairServerSpec ==
  /\ ServerSpec
  /\ \A w \in Workers : WF_serverVars(Subscribe(w) \/ Send(w))
  /\ \A c \in Clients : WF_serverVars(ReceiveCurrent(c) \/ ReceiveBroadcast(c))

-----------------------------------------------------------------------------
\* The newest list on its way to a client, or else on its screen.
Newest(c) ==
  IF ring[c] # <<>> THEN ring[c][Len(ring[c])]
  ELSE IF current[c] # Nothing THEN current[c]
  ELSE screen[c]

(***************************************************************************)
(* Once no handler is between its unlock and its send, a connected client  *)
(* that has received everything sent to it shows the active sessions of    *)
(* the database: the initial list, the broadcasts and the lag add up, and  *)
(* no committed change is ever left unannounced ("sessions (which the      *)
(* server broadcasts over SSE the instant they change)", view_model.rs).   *)
(***************************************************************************)
ScreensMatchStore ==
  (\A w \in Workers : outbox[w] = Idle) =>
    \A c \in subscribed :
      (current[c] = Nothing /\ ring[c] = <<>>) => screen[c] = ListActive(sessions)

(***************************************************************************)
(* Why it holds when handlers cannot overlap: what a worker carries past   *)
(* the unlock is still the list of the store, it is never addressed to a   *)
(* stream already open, and unless a broadcast is in hand the newest list  *)
(* on its way to each subscriber is the one the store would answer now.    *)
(***************************************************************************)
CarriedListsAreFresh ==
  /\ \A w \in Workers : outbox[w] # Idle =>
       /\ outbox[w].view = ListActive(sessions)
       /\ outbox[w].client \notin subscribed
  /\ (\A w \in Workers : outbox[w] = Idle \/ outbox[w].client # Everyone) =>
       \A c \in subscribed : Newest(c) = ListActive(sessions)

(***************************************************************************)
(* The same promise over time: when the active sessions and a client's     *)
(* connection stay as they are from some point on, the client ends up      *)
(* showing them for good, however far behind it had fallen.                *)
(***************************************************************************)
StableStoreIsShown ==
  \A c \in Clients, v \in Views :
    <>[](c \in subscribed /\ ListActive(sessions) = v) => <>[](screen[c] = v)

(***************************************************************************)
(* The comment of post_snapshot on record_host_seen: only apply_snapshot's *)
(* `changed' result drives the broadcast, "and this call cannot affect     *)
(* that".  So when no statement but that one can fail, the screens match   *)
(* the store as ever.                                                      *)
(***************************************************************************)
HeartbeatCannotAffectBroadcast == FaultPoints = {"heartbeat"} => ScreensMatchStore

(***************************************************************************)
(* With any number of workers the streams implement LatestChannel: a list  *)
(* that is sent becomes at once the newest one on its way to every open    *)
(* stream, no lag ever replaces it by an older one or loses it, and a      *)
(* client whose newest list stays the same ends up showing it.             *)
(***************************************************************************)
Channel == INSTANCE LatestChannel WITH
  Announcers <- Workers,
  Values <- Views,
  offered <- [w \in Workers |->
                IF outbox[w] # Idle /\ outbox[w].client = Everyone
                THEN outbox[w].view ELSE Nothing],
  slot <- [c \in Clients |-> IF c \in subscribed THEN Newest(c) ELSE Closed],
  shown <- screen

ImplementsChannel == Channel!Spec
=============================================================================
