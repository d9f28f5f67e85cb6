---------------------------- MODULE ServerProofs ----------------------------
(***************************************************************************)
(* Theorems about csm-server's handlers and event streams: type safety for *)
(* any number of workers, agreement of screens and store for one, and the  *)
(* safety half of the refinement of LatestChannel.                         *)
(***************************************************************************)
EXTENDS Server, StoreProofs, SequenceTheorems

\* The numbers of ServerAssumption, apart from its strings.
LEMMA Bounds == Capacity \in Nat \ {0} /\ MaxFaults \in Nat
BY ServerAssumption

LEMMA ListActiveType ==
  ASSUME NEW table \in [Sessions -> Row \cup {NoRow}]
  PROVE  ListActive(table) \in Views
<1>. DEFINE ids == {s \in Sessions : Active(table[s])}
            live == {row \in Row : row.status # Ended}
<1>1. ids \in SUBSET Sessions
  OBVIOUS
<1>2. \A s \in ids : table[s] \in live
  BY DEF Active
<1>3. ListActive(table) = [s \in ids |-> table[s]]
  BY DEF ListActive, Restrict
<1>4. ListActive(table) \in [ids -> live]
  <2>. HIDE DEF ids, live
  <2>. QED
    BY <1>2, <1>3
<1>. QED
  BY <1>1, <1>4 DEF Views

LEMMA EmptyViewType == EmptyView \in Views
BY DEF EmptyView, Views

\* Appending to a full ring drops its head, so the bound holds and the newest stays.
LEMMA PushType ==
  ASSUME NEW S, NEW q \in Seq(S), Len(q) <= Capacity, NEW v \in S
  PROVE  /\ Push(q, v) \in Seq(S)
         /\ Len(Push(q, v)) <= Capacity
         /\ Push(q, v) # <<>>
         /\ Push(q, v)[Len(Push(q, v))] = v
<1>. Len(q) \in Nat /\ Capacity \in Nat \ {0}
  BY LenProperties, Bounds
<1>1. CASE Len(q) < Capacity
  BY <1>1, AppendProperties DEF Push
<1>2. CASE ~(Len(q) < Capacity)
  <2>1. Len(q) = Capacity /\ q # <<>>
    BY <1>2, EmptySeq
  <2>2. Tail(q) \in Seq(S) /\ Len(Tail(q)) = Capacity - 1
    BY <2>1, HeadTailProperties
  <2>3. Push(q, v) = Append(Tail(q), v)
    BY <1>2 DEF Push
  <2>4. /\ Push(q, v) \in Seq(S)
        /\ Push(q, v) # <<>>
        /\ Len(Push(q, v)) = Len(Tail(q)) + 1
        /\ Push(q, v)[Len(Tail(q)) + 1] = v
    BY <2>2, <2>3, AppendProperties
  <2>. QED
    BY <2>2, <2>4
<1>. QED
  BY <1>1, <1>2

-----------------------------------------------------------------------------
LEMMA ServerTypeInit == ServerInit => ServerTypeOK
<1>1. <<>> \in Seq(Views) /\ Len(<<>>) = 0
  BY EmptySeq
<1>2. 0 \in 0..MaxFaults /\ 0 <= Capacity
  BY Bounds
<1>. QED
  BY <1>1, <1>2, StoreTypeInit DEF ServerInit, ServerTypeOK

LEMMA FaultType ==
  ASSUME faults \in 0..MaxFaults, NEW point, Fault(point)
  PROVE  faults' \in 0..MaxFaults
BY Bounds DEF Fault

\* The outbox after the tail of a locked section.
LEMMA ListForBroadcastType ==
  ASSUME ServerTypeOK, NEW w \in Workers, ListForBroadcast(w),
         sessions' \in [Sessions -> Row \cup {NoRow}]
  PROVE  /\ outbox' \in [Workers -> Message \cup {Idle}]
         /\ faults' \in 0..MaxFaults
<1>1. [client |-> Everyone, view |-> ListActive(sessions')] \in Message
  BY ListActiveType DEF Message
<1>2. outbox \in [Workers -> Message \cup {Idle}] /\ faults \in 0..MaxFaults
  BY DEF ServerTypeOK
<1>3. CASE Fault("list") /\ UNCHANGED outbox
  BY <1>2, <1>3, FaultType
<1>4. CASE /\ outbox' = [outbox EXCEPT ![w] =
                     [client |-> Everyone, view |-> ListActive(sessions')]]
           /\ UNCHANGED faults
  BY <1>1, <1>2, <1>4
<1>. QED
  BY <1>3, <1>4 DEF ListForBroadcast

LEMMA ServerTypeStep == ServerTypeOK /\ [ServerNext]_serverVars => ServerTypeOK'
<1>. SUFFICES ASSUME ServerTypeOK, [ServerNext]_serverVars
              PROVE  ServerTypeOK'
  OBVIOUS
<1>. StoreTypeOK
  BY DEF ServerTypeOK
<1>1. ASSUME NEW w \in Workers, NEW r \in Report, PostSession(w, r)
      PROVE  ServerTypeOK'
  <2>1. sessions' \in [Sessions -> Row \cup {NoRow}]
    BY <1>1, StoreAssumption DEF PostSession, UpsertSession, Report, Row, StoreTypeOK
  <2>. QED
    BY <1>1, <2>1, ListForBroadcastType
    DEF PostSession, streamVars, ServerTypeOK, StoreTypeOK
<1>2. ASSUME NEW w \in Workers, NEW s \in Sessions, PostEnd(w, s)
      PROVE  ServerTypeOK'
  <2>1. sessions' \in [Sessions -> Row \cup {NoRow}]
    BY <1>2 DEF PostEnd, EndSession, EndedRow, Row, StoreTypeOK
  <2>. QED
    BY <1>2, <2>1, ListForBroadcastType
    DEF PostEnd, streamVars, ServerTypeOK, StoreTypeOK
<1>3. ASSUME NEW w \in Workers, NEW s \in Sessions, DeleteRequest(w, s)
      PROVE  ServerTypeOK'
  <2>1. sessions' \in [Sessions -> Row \cup {NoRow}]
    BY <1>3 DEF DeleteRequest, DeleteSession, StoreTypeOK
  <2>. QED
    BY <1>3, <2>1, ListForBroadcastType
    DEF DeleteRequest, streamVars, ServerTypeOK, StoreTypeOK
<1>4. ASSUME NEW w \in Workers, NEW h \in Hosts, NEW k \in Kinds, NEW snap \in Snapshots,
             PostSnapshot(w, h, k, snap)
      PROVE  ServerTypeOK'
  <2>1. sessions' \in [Sessions -> Row \cup {NoRow}]
    BY <1>4, ReconcileType DEF PostSnapshot, ApplySnapshot
  <2>2. CASE Fault("heartbeat") /\ UNCHANGED <<host_status, outbox>>
    BY <1>4, <2>1, <2>2, FaultType
    DEF PostSnapshot, streamVars, ServerTypeOK, StoreTypeOK
  <2>3. CASE RecordHostSeen(h, k)
    <3>1. host_status' \in [Hosts \X Kinds -> (0..MaxTime) \cup {Never}]
      BY <2>3 DEF RecordHostSeen, StoreTypeOK
    <3>2. CASE SnapshotChanges(sessions, h, k, snap) /\ ListForBroadcast(w)
      BY <1>4, <2>1, <3>1, <3>2, ListForBroadcastType
      DEF PostSnapshot, streamVars, ServerTypeOK, StoreTypeOK
    <3>3. CASE UNCHANGED <<outbox, faults>>
      BY <1>4, <2>1, <3>1, <3>3 DEF PostSnapshot, streamVars, ServerTypeOK, StoreTypeOK
    <3>4. CASE Fault("heartbeat") /\ UNCHANGED <<host_status, outbox>>
      BY <2>2, <3>4
    <3>. QED
      BY <1>4, <3>2, <3>3, <3>4 DEF PostSnapshot
  <2>. QED
    BY <1>4, <2>2, <2>3 DEF PostSnapshot
<1>5. ASSUME NEW w \in Workers, NEW c \in Clients, GetEvents(w, c)
      PROVE  ServerTypeOK'
  <2>1. /\ [client |-> c, view |-> ListActive(sessions)] \in Message
        /\ [client |-> c, view |-> EmptyView] \in Message
    BY ListActiveType, EmptyViewType DEF Message, StoreTypeOK
  <2>2. outbox' \in [Workers -> Message \cup {Idle}] /\ faults' \in 0..MaxFaults
    BY <1>5, <2>1, FaultType DEF GetEvents, ServerTypeOK
  <2>. QED
    BY <1>5, <2>2 DEF GetEvents, storeVars, streamVars, ServerTypeOK, StoreTypeOK
<1>6. ASSUME NEW w \in Workers, Subscribe(w)
      PROVE  ServerTypeOK'
  <2>1. outbox[w] \in Message
    BY <1>6 DEF Subscribe, ServerTypeOK
  <2>2. outbox[w].view \in Views
    BY <2>1 DEF Message
  <2>3. <<>> \in Seq(Views) /\ Len(<<>>) <= Capacity
    BY EmptySeq, Bounds
  <2>. DEFINE c == outbox[w].client
  <2>4. /\ c \in Clients
        /\ subscribed' = subscribed \cup {c}
        /\ current' = [current EXCEPT ![c] = outbox[w].view]
        /\ ring' = [ring EXCEPT ![c] = <<>>]
        /\ outbox' = [outbox EXCEPT ![w] = Idle]
        /\ UNCHANGED <<sessions, host_status, now, screen, faults>>
    BY <1>6 DEF Subscribe, storeVars
  <2>. HIDE DEF c
  <2>. QED
    BY <2>2, <2>3, <2>4 DEF ServerTypeOK, StoreTypeOK
<1>7. ASSUME NEW w \in Workers, Send(w)
      PROVE  ServerTypeOK'
  <2>1. outbox[w] \in Message
    BY <1>7 DEF Send, ServerTypeOK
  <2>2. outbox[w].view \in Views
    BY <2>1 DEF Message
  <2>3. ring' \in [Clients -> Seq(Views)] /\ \A c \in Clients : Len(ring'[c]) <= Capacity
    BY <1>7, <2>2, PushType DEF Send, ServerTypeOK
  <2>. QED
    BY <1>7, <2>3 DEF Send, storeVars, ServerTypeOK, StoreTypeOK
<1>8. ASSUME NEW c \in Clients, ReceiveCurrent(c)
      PROVE  ServerTypeOK'
  BY <1>8 DEF ReceiveCurrent, storeVars, ServerTypeOK, StoreTypeOK
<1>9. ASSUME NEW c \in Clients, ReceiveBroadcast(c)
      PROVE  ServerTypeOK'
  <2>1. ring[c] \in Seq(Views) /\ ring[c] # <<>> /\ Len(ring[c]) <= Capacity
    BY <1>9 DEF ReceiveBroadcast, ServerTypeOK
  <2>2. /\ Head(ring[c]) \in Views
        /\ Tail(ring[c]) \in Seq(Views)
        /\ Len(Tail(ring[c])) <= Capacity
    BY <2>1, HeadTailProperties, LenProperties, Bounds
  <2>. QED
    BY <1>9, <2>2 DEF ReceiveBroadcast, storeVars, ServerTypeOK, StoreTypeOK
<1>10. ASSUME NEW leaving \in SUBSET Clients, Close(leaving),
              outbox' \in [Workers -> Message \cup {Idle}],
              UNCHANGED <<storeVars, faults>>
       PROVE  ServerTypeOK'
  <2>1. <<>> \in Seq(Views) /\ Len(<<>>) <= Capacity
    BY EmptySeq, Bounds
  <2>. QED
    BY <1>10, <2>1 DEF Close, storeVars, ServerTypeOK, StoreTypeOK
<1>11. ASSUME NEW c \in Clients, Disconnect(c)
       PROVE  ServerTypeOK'
  BY <1>10, <1>11 DEF Disconnect, ServerTypeOK
<1>12. CASE Restart
  BY <1>10, <1>12 DEF Restart
<1>13. CASE ServerTick
  BY <1>13, StoreAssumption DEF ServerTick, Tick, streamVars, ServerTypeOK, StoreTypeOK
<1>14. CASE UNCHANGED serverVars
  BY <1>14 DEF serverVars, storeVars, streamVars, ServerTypeOK, StoreTypeOK
<1>. QED
  BY <1>1, <1>2, <1>3, <1>4, <1>5, <1>6, <1>7, <1>8, <1>9, <1>11, <1>12, <1>13, <1>14
  DEF ServerNext

(***************************************************************************)
(* Whatever the threads interleave: tables, outboxes and streams keep      *)
(* their types, and no receiver holds more than Capacity messages.         *)
(***************************************************************************)
THEOREM ServerTypeCorrect == ServerSpec => []ServerTypeOK
BY ServerTypeInit, ServerTypeStep, PTL DEF ServerSpec

-----------------------------------------------------------------------------
(***************************************************************************)
(* A receiver's newest list survives reading one message of its ring.      *)
(***************************************************************************)
LEMMA LastAfterTail ==
  ASSUME NEW S, NEW q \in Seq(S), q # <<>>
  PROVE  IF Tail(q) = <<>> THEN q[Len(q)] = Head(q)
         ELSE Tail(q)[Len(Tail(q))] = q[Len(q)]
<1>1. /\ Len(q) \in Nat \ {0}
      /\ Tail(q) \in Seq(S)
      /\ Len(Tail(q)) = Len(q) - 1
      /\ \A i \in 1..Len(Tail(q)) : Tail(q)[i] = q[i + 1]
  BY EmptySeq, HeadTailProperties
<1>2. CASE Tail(q) = <<>>
  <2>1. Len(Tail(q)) = 0
    BY <1>2, EmptySeq
  <2>2. Len(q) = 1
    <3>. DEFINE n == Len(q)
                m == Len(Tail(q))
    <3>1. n \in Nat /\ m = n - 1 /\ m = 0
      BY <1>1, <2>1
    <3>. HIDE DEF n, m
    <3>2. n = 1
      BY <3>1
    <3>. QED
      BY <3>2 DEF n
  <2>. QED
    BY <1>2, <2>2
<1>3. CASE Tail(q) # <<>>
  <2>1. Len(Tail(q)) \in Nat \ {0}
    BY <1>1, <1>3, EmptySeq
  <2>. QED
    BY <1>1, <1>3, <2>1
<1>. QED
  BY <1>2, <1>3

(***************************************************************************)
(* A write step: the worker was idle, and either the list of the new table *)
(* is now in its hand for everyone, or the table did not change.           *)
(***************************************************************************)
LEMMA FreshAfterWrite ==
  ASSUME ServerTypeOK, ServerTypeOK', CarriedListsAreFresh, FaultPoints = {},
         NEW w \in Workers, Workers = {w}, outbox[w] = Idle,
         UNCHANGED streamVars,
         \/ ListForBroadcast(w)
         \/ (sessions' = sessions /\ UNCHANGED outbox)
  PROVE  CarriedListsAreFresh'
<1>1. CASE sessions' = sessions /\ UNCHANGED outbox
  BY <1>1 DEF CarriedListsAreFresh, Newest, streamVars
<1>2. CASE ListForBroadcast(w)
  <2>. DEFINE msg == [client |-> Everyone, view |-> ListActive(sessions')]
  <2>1. outbox' = [outbox EXCEPT ![w] = msg]
    BY <1>2 DEF ListForBroadcast, Fault
  <2>2. \A v \in Workers : outbox'[v] = msg
    BY <2>1 DEF ServerTypeOK
  <2>3. msg # Idle
    BY ListActiveType, MarkerAssumption DEF Message, ServerTypeOK, StoreTypeOK
  <2>4. Everyone \notin subscribed'
    BY ServerAssumption DEF ServerTypeOK
  <2>. QED
    BY <2>2, <2>3, <2>4 DEF CarriedListsAreFresh
<1>. QED
  BY <1>1, <1>2

LEMMA FreshStep ==
  ASSUME ServerTypeOK, ServerTypeOK', CarriedListsAreFresh, FaultPoints = {},
         NEW only \in Workers, Workers = {only}, [ServerNext]_serverVars
  PROVE  CarriedListsAreFresh'
<1>1. ASSUME NEW w \in Workers, NEW r \in Report, PostSession(w, r)
      PROVE  CarriedListsAreFresh'
  BY <1>1, FreshAfterWrite DEF PostSession, streamVars
<1>2. ASSUME NEW w \in Workers, NEW s \in Sessions, PostEnd(w, s)
      PROVE  CarriedListsAreFresh'
  BY <1>2, FreshAfterWrite DEF PostEnd, streamVars
<1>3. ASSUME NEW w \in Workers, NEW s \in Sessions, DeleteRequest(w, s)
      PROVE  CarriedListsAreFresh'
  BY <1>3, FreshAfterWrite DEF DeleteRequest, streamVars
<1>4. ASSUME NEW w \in Workers, NEW h \in Hosts, NEW k \in Kinds, NEW snap \in Snapshots,
             PostSnapshot(w, h, k, snap)
      PROVE  CarriedListsAreFresh'
  <2>1. ~SnapshotChanges(sessions, h, k, snap) => sessions' = sessions
    BY <1>4, SilentSnapshot DEF PostSnapshot, ApplySnapshot, ServerTypeOK
  <2>2. ListForBroadcast(w) \/ (sessions' = sessions /\ UNCHANGED outbox)
    BY <1>4, <2>1 DEF PostSnapshot, Fault
  <2>. QED
    BY <1>4, <2>2, FreshAfterWrite DEF PostSnapshot, streamVars
<1>5. ASSUME NEW w \in Workers, NEW c \in Clients, GetEvents(w, c)
      PROVE  CarriedListsAreFresh'
  <2>. DEFINE msg == [client |-> c, view |-> ListActive(sessions)]
  <2>1. /\ outbox' = [outbox EXCEPT ![w] = msg]
        /\ outbox[w] = Idle
        /\ c \notin subscribed
        /\ UNCHANGED <<sessions, subscribed, current, ring, screen>>
    BY <1>5 DEF GetEvents, Fault, storeVars, streamVars
  <2>2. \A v \in Workers : outbox'[v] = msg /\ outbox[v] = Idle
    BY <2>1 DEF ServerTypeOK
  <2>3. \A d \in subscribed : Newest(d) = ListActive(sessions)
    BY <2>2 DEF CarriedListsAreFresh
  <2>4. \A d \in subscribed' : Newest(d)' = ListActive(sessions)'
    BY <2>1, <2>3 DEF Newest
  <2>. QED
    BY <2>1, <2>2, <2>4 DEF CarriedListsAreFresh
<1>6. ASSUME NEW w \in Workers, Subscribe(w)
      PROVE  CarriedListsAreFresh'
  <2>. PICK c \in Clients : c = outbox[w].client
    BY <1>6 DEF Subscribe
  <2>1. /\ outbox[w] # Idle
        /\ subscribed' = subscribed \cup {c}
        /\ current' = [current EXCEPT ![c] = outbox[w].view]
        /\ ring' = [ring EXCEPT ![c] = <<>>]
        /\ outbox' = [outbox EXCEPT ![w] = Idle]
        /\ UNCHANGED <<sessions, screen>>
    BY <1>6 DEF Subscribe, storeVars
  <2>2. outbox[w].view = ListActive(sessions) /\ c \notin subscribed
    BY <2>1 DEF CarriedListsAreFresh
  <2>3. \A v \in Workers : outbox'[v] = Idle
    BY <2>1 DEF ServerTypeOK
  <2>4. outbox[w].view # Nothing
    BY <2>1, MarkerAssumption DEF ServerTypeOK, Message
  <2>5. Newest(c)' = ListActive(sessions)'
    <3>1. ring'[c] = <<>> /\ current'[c] = outbox[w].view
      BY <2>1 DEF ServerTypeOK
    <3>. QED
      BY <2>1, <2>2, <2>4, <3>1 DEF Newest
  <2>6. c # Everyone
    BY ServerAssumption
  <2>7. \A d \in subscribed : Newest(d) = ListActive(sessions)
    BY <2>6 DEF CarriedListsAreFresh
  <2>8. ASSUME NEW d \in subscribed
        PROVE  Newest(d)' = Newest(d)
    <3>1. d \in Clients /\ d # c
      BY <2>2 DEF ServerTypeOK
    <3>2. ring'[d] = ring[d] /\ current'[d] = current[d] /\ screen'[d] = screen[d]
      BY <2>1, <3>1 DEF ServerTypeOK
    <3>. QED
      BY <3>2 DEF Newest
  <2>9. \A d \in subscribed' : Newest(d)' = ListActive(sessions)'
    <3>. QED
      BY <2>1, <2>5, <2>7, <2>8
  <2>. QED
    BY <2>3, <2>9 DEF CarriedListsAreFresh
<1>7. ASSUME NEW w \in Workers, Send(w)
      PROVE  CarriedListsAreFresh'
  <2>1. /\ outbox[w] # Idle
        /\ ring' = [c \in Clients |->
             IF c \in subscribed THEN Push(ring[c], outbox[w].view) ELSE ring[c]]
        /\ outbox' = [outbox EXCEPT ![w] = Idle]
        /\ UNCHANGED <<sessions, subscribed, current, screen>>
    BY <1>7 DEF Send, storeVars
  <2>2. outbox[w].view = ListActive(sessions)
    BY <2>1 DEF CarriedListsAreFresh
  <2>3. outbox[w].view \in Views
    BY <2>1 DEF ServerTypeOK, Message
  <2>4. \A v \in Workers : outbox'[v] = Idle
    BY <2>1 DEF ServerTypeOK
  <2>5. ASSUME NEW c \in subscribed
        PROVE  Newest(c)' = ListActive(sessions)'
    <3>1. c \in Clients /\ ring[c] \in Seq(Views) /\ Len(ring[c]) <= Capacity
      BY DEF ServerTypeOK
    <3>2. ring'[c] # <<>> /\ ring'[c][Len(ring'[c])] = outbox[w].view
      BY <2>1, <2>3, <3>1, PushType
    <3>. QED
      BY <2>1, <2>2, <3>2 DEF Newest
  <2>. QED
    BY <2>1, <2>4, <2>5 DEF CarriedListsAreFresh
<1>8. ASSUME NEW c \in Clients, ReceiveCurrent(c)
      PROVE  CarriedListsAreFresh'
  <2>1. /\ current[c] # Nothing
        /\ screen' = [screen EXCEPT ![c] = current[c]]
        /\ current' = [current EXCEPT ![c] = Nothing]
        /\ UNCHANGED <<sessions, outbox, subscribed, ring>>
    BY <1>8 DEF ReceiveCurrent, storeVars
  <2>2. \A d \in subscribed : Newest(d)' = Newest(d)
    BY <2>1 DEF Newest, ServerTypeOK
  <2>. QED
    BY <2>1, <2>2 DEF CarriedListsAreFresh
<1>9. ASSUME NEW c \in Clients, ReceiveBroadcast(c)
      PROVE  CarriedListsAreFresh'
  <2>1. /\ current[c] = Nothing
        /\ ring[c] # <<>>
        /\ screen' = [screen EXCEPT ![c] = Head(ring[c])]
        /\ ring' = [ring EXCEPT ![c] = Tail(ring[c])]
        /\ UNCHANGED <<sessions, outbox, subscribed, current>>
    BY <1>9 DEF ReceiveBroadcast, storeVars
  <2>2. ring[c] \in Seq(Views)
    BY DEF ServerTypeOK
  <2>3. IF Tail(ring[c]) = <<>> THEN ring[c][Len(ring[c])] = Head(ring[c])
        ELSE Tail(ring[c])[Len(Tail(ring[c]))] = ring[c][Len(ring[c])]
    BY <2>1, <2>2, LastAfterTail
  <2>4. Newest(c)' = Newest(c)
    BY <2>1, <2>3 DEF Newest, ServerTypeOK
  <2>5. \A d \in subscribed \ {c} : Newest(d)' = Newest(d)
    BY <2>1 DEF Newest, ServerTypeOK
  <2>. QED
    BY <2>1, <2>4, <2>5 DEF CarriedListsAreFresh
<1>10. ASSUME NEW leaving \in SUBSET Clients, Close(leaving), UNCHANGED sessions,
              UNCHANGED outbox \/ subscribed' = {}
       PROVE  (\A d \in subscribed' : d \in subscribed /\ Newest(d)' = Newest(d))
  BY <1>10 DEF Close, Newest, ServerTypeOK
<1>11. ASSUME NEW c \in Clients, Disconnect(c)
       PROVE  CarriedListsAreFresh'
  <2>1. \A d \in subscribed' : d \in subscribed /\ Newest(d)' = Newest(d)
    BY <1>10, <1>11 DEF Disconnect, storeVars
  <2>. QED
    BY <1>11, <2>1 DEF Disconnect, storeVars, CarriedListsAreFresh
<1>12. CASE Restart
  <2>1. subscribed' = {} /\ \A w \in Workers : outbox'[w] = Idle
    BY <1>12 DEF Restart, Close, ServerTypeOK
  <2>. QED
    BY <2>1 DEF CarriedListsAreFresh
<1>13. CASE ServerTick
  BY <1>13 DEF ServerTick, Tick, streamVars, CarriedListsAreFresh, Newest
<1>14. CASE UNCHANGED serverVars
  BY <1>14 DEF serverVars, storeVars, streamVars, CarriedListsAreFresh, Newest
<1>. QED
  BY <1>1, <1>2, <1>3, <1>4, <1>5, <1>6, <1>7, <1>8, <1>9, <1>11, <1>12, <1>13, <1>14
  DEF ServerNext

(***************************************************************************)
(* On a runtime with one worker, and while no database statement fails,    *)
(* the lists in flight are fresh, so a client that has received everything *)
(* sent to it shows the active sessions of the store: for any sessions,    *)
(* clients, capacity and backlog, across lag, disconnection and restart.   *)
(***************************************************************************)
THEOREM OneWorkerScreensMatchStore ==
  ASSUME \E w : Workers = {w}, FaultPoints = {}
  PROVE  ServerSpec => [](CarriedListsAreFresh /\ ScreensMatchStore)
<1>1. ServerInit => CarriedListsAreFresh
  BY DEF ServerInit, CarriedListsAreFresh
<1>2. ServerTypeOK /\ ServerTypeOK' /\ CarriedListsAreFresh /\ [ServerNext]_serverVars
        => CarriedListsAreFresh'
  BY FreshStep
<1>3. ServerTypeOK /\ CarriedListsAreFresh => ScreensMatchStore
  BY DEF CarriedListsAreFresh, ScreensMatchStore, Newest
<1>. QED
  BY <1>1, <1>2, <1>3, ServerTypeCorrect, PTL DEF ServerSpec

-----------------------------------------------------------------------------
(***************************************************************************)
(* The refinement of LatestChannel, for any number of workers and with     *)
(* database errors: initial states map to an initial state, and every step *)
(* to a step of the channel or to none.                                    *)
(***************************************************************************)
\* The mapped variables, by name.
Offered(w) ==
  IF outbox[w] # Idle /\ outbox[w].client = Everyone THEN outbox[w].view ELSE Nothing

Slot(c) == IF c \in subscribed THEN Newest(c) ELSE Closed

\* A stream is set up once at a time, and an open one has something newest.
StreamsAreOpened ==
  /\ \A w \in Workers : outbox[w] # Idle => outbox[w].client \notin subscribed
  /\ \A v, w \in Workers :
       (v # w /\ outbox[v] # Idle /\ outbox[w] # Idle /\ outbox[v].client \in Clients)
         => outbox[v].client # outbox[w].client
  /\ \A c \in subscribed : Newest(c) \in Views

\* What the channel's variables are.
LEMMA Mapped ==
  Channel!channelVars =
    <<[w \in Workers |-> Offered(w)], [c \in Clients |-> Slot(c)], screen>>
BY DEF Channel!channelVars, Offered, Slot

LEMMA OfferStep ==
  ASSUME ServerTypeOK, NEW w \in Workers, outbox[w] = Idle, NEW v \in Views,
         outbox' = [outbox EXCEPT ![w] = [client |-> Everyone, view |-> v]],
         UNCHANGED streamVars
  PROVE  Channel!Next
<1>1. [client |-> Everyone, view |-> v] # Idle
  BY MarkerAssumption DEF Message
<1>2. [x \in Workers |-> Offered(x)]' = [[x \in Workers |-> Offered(x)] EXCEPT ![w] = v]
  BY <1>1 DEF Offered, ServerTypeOK
<1>3. [c \in Clients |-> Slot(c)]' = [c \in Clients |-> Slot(c)]
  BY DEF Slot, Newest, streamVars
<1>4. Channel!Offer(w)
  BY <1>2, <1>3 DEF Channel!Offer, Offered, Slot, streamVars
<1>. QED
  BY <1>4 DEF Channel!Next

\* A step that leaves streams and the broadcasts in hand alone.
LEMMA SilentStep ==
  ASSUME UNCHANGED streamVars, \A w \in Workers : Offered(w)' = Offered(w)
  PROVE  UNCHANGED Channel!channelVars
BY DEF Channel!channelVars, Offered, Newest, streamVars

\* The tail of a locked section offers a list, or fails and offers none.
LEMMA WriteStep ==
  ASSUME ServerTypeOK, ServerTypeOK', NEW w \in Workers, outbox[w] = Idle,
         ListForBroadcast(w) \/ UNCHANGED outbox, UNCHANGED streamVars
  PROVE  [Channel!Next]_(Channel!channelVars)
<1>1. CASE UNCHANGED outbox
  BY <1>1, SilentStep DEF Offered
<1>2. CASE outbox' = [outbox EXCEPT ![w] =
                        [client |-> Everyone, view |-> ListActive(sessions')]]
  BY <1>2, OfferStep, ListActiveType DEF ServerTypeOK, StoreTypeOK
<1>. QED
  BY <1>1, <1>2 DEF ListForBroadcast

\* A step of one client's stream touches no other slot.
LEMMA OtherSlots ==
  ASSUME ServerTypeOK, NEW c \in Clients, NEW d \in Clients, d # c,
         d \in subscribed' <=> d \in subscribed,
         current'[d] = current[d], ring'[d] = ring[d], screen'[d] = screen[d]
  PROVE  Slot(d)' = Slot(d)
BY DEF Slot, Newest

LEMMA ShowStep ==
  ASSUME ServerTypeOK, StreamsAreOpened, NEW c \in subscribed, NEW v \in Views,
         UNCHANGED <<outbox, subscribed>>,
         \A d \in Clients : Slot(d)' = Slot(d),
         screen' = [screen EXCEPT ![c] = v]
  PROVE  Channel!Next
<1>1. c \in Clients /\ Slot(c) # Closed
  BY MarkerAssumption DEF ServerTypeOK, StreamsAreOpened, Slot
<1>2. [d \in Clients |-> Slot(d)]' = [d \in Clients |-> Slot(d)]
  OBVIOUS
<1>3. [w \in Workers |-> Offered(w)]' = [w \in Workers |-> Offered(w)]
  BY DEF Offered
<1>4. Channel!Show(c)
  BY <1>1, <1>2, <1>3 DEF Channel!Show, Offered, Slot
<1>. QED
  BY <1>1, <1>4 DEF Channel!Next

LEMMA ChannelStep ==
  ASSUME ServerTypeOK, ServerTypeOK', StreamsAreOpened, [ServerNext]_serverVars
  PROVE  [Channel!Next]_(Channel!channelVars)
<1>. DEFINE Goal == [Channel!Next]_(Channel!channelVars)
<1>1. ASSUME NEW w \in Workers, NEW r \in Report, PostSession(w, r)
      PROVE  Goal
  BY <1>1, WriteStep DEF PostSession
<1>2. ASSUME NEW w \in Workers, NEW s \in Sessions, PostEnd(w, s)
      PROVE  Goal
  BY <1>2, WriteStep DEF PostEnd
<1>3. ASSUME NEW w \in Workers, NEW s \in Sessions, DeleteRequest(w, s)
      PROVE  Goal
  BY <1>3, WriteStep DEF DeleteRequest
<1>4. ASSUME NEW w \in Workers, NEW h \in Hosts, NEW k \in Kinds, NEW snap \in Snapshots,
             PostSnapshot(w, h, k, snap)
      PROVE  Goal
  BY <1>4, WriteStep DEF PostSnapshot
<1>5. ASSUME NEW w \in Workers, NEW c \in Clients, GetEvents(w, c)
      PROVE  Goal
  <2>1. PICK v : outbox' = [outbox EXCEPT ![w] = [client |-> c, view |-> v]]
    BY <1>5 DEF GetEvents
  <2>2. outbox[w] = Idle /\ c # Everyone
    BY <1>5, ServerAssumption DEF GetEvents
  <2>3. \A x \in Workers : Offered(x)' = Offered(x)
    BY <2>1, <2>2 DEF Offered, ServerTypeOK
  <2>. QED
    BY <1>5, <2>3, SilentStep DEF GetEvents
<1>6. ASSUME NEW w \in Workers, Subscribe(w)
      PROVE  Goal
  <2>. PICK c \in Clients : c = outbox[w].client
    BY <1>6 DEF Subscribe
  <2>1. /\ outbox[w] # Idle
        /\ subscribed' = subscribed \cup {c}
        /\ current' = [current EXCEPT ![c] = outbox[w].view]
        /\ ring' = [ring EXCEPT ![c] = <<>>]
        /\ outbox' = [outbox EXCEPT ![w] = Idle]
        /\ UNCHANGED screen
    BY <1>6 DEF Subscribe
  <2>2. outbox[w].view \in Views /\ c # Everyone /\ c \notin subscribed
    BY <2>1, ServerAssumption DEF ServerTypeOK, Message, StreamsAreOpened
  <2>3. Slot(c) = Closed /\ Slot(c)' = outbox[w].view
    BY <2>1, <2>2, MarkerAssumption DEF Slot, Newest, ServerTypeOK
  <2>4. \A d \in Clients \ {c} : Slot(d)' = Slot(d)
    BY <2>1, OtherSlots DEF ServerTypeOK
  <2>5. [d \in Clients |-> Slot(d)]' =
          [[d \in Clients |-> Slot(d)] EXCEPT ![c] = outbox[w].view]
    BY <2>3, <2>4
  <2>6. [x \in Workers |-> Offered(x)]' = [x \in Workers |-> Offered(x)]
    BY <2>1, <2>2 DEF Offered, ServerTypeOK
  <2>7. Channel!Open(c)
    BY <2>1, <2>2, <2>3, <2>5, <2>6 DEF Channel!Open, Offered, Slot
  <2>. QED
    BY <2>7 DEF Channel!Next
<1>7. ASSUME NEW w \in Workers, Send(w)
      PROVE  Goal
  <2>. PICK v \in Views : v = outbox[w].view
    BY <1>7 DEF Send, ServerTypeOK, Message
  <2>1. /\ Offered(w) = v
        /\ ring' = [c \in Clients |-> IF c \in subscribed THEN Push(ring[c], v) ELSE ring[c]]
        /\ outbox' = [outbox EXCEPT ![w] = Idle]
        /\ UNCHANGED <<subscribed, current, screen>>
    BY <1>7 DEF Send, Offered
  <2>2. [x \in Workers |-> Offered(x)]' = [[x \in Workers |-> Offered(x)] EXCEPT ![w] = Nothing]
    BY <2>1 DEF Offered, ServerTypeOK
  <2>3. ASSUME NEW c \in Clients
        PROVE  Slot(c)' = IF Slot(c) = Closed THEN Closed ELSE v
    <3>1. CASE c \in subscribed
      <4>1. ring[c] \in Seq(Views) /\ Len(ring[c]) <= Capacity
        BY DEF ServerTypeOK
      <4>2. ring'[c] # <<>> /\ ring'[c][Len(ring'[c])] = v
        BY <2>1, <3>1, <4>1, PushType
      <4>3. Slot(c) # Closed
        BY <3>1, MarkerAssumption DEF Slot, StreamsAreOpened
      <4>. QED
        BY <2>1, <3>1, <4>2, <4>3 DEF Slot, Newest
    <3>2. CASE c \notin subscribed
      BY <2>1, <3>2 DEF Slot
    <3>. QED
      BY <3>1, <3>2
  <2>4. v # Nothing
    BY MarkerAssumption
  <2>5. [c \in Clients |-> Slot(c)]' =
          [c \in Clients |-> IF Slot(c) = Closed THEN Closed ELSE v]
    BY <2>3
  <2>6. Channel!Announce(w)
    BY <2>1, <2>2, <2>4, <2>5 DEF Channel!Announce, Offered, Slot
  <2>. QED
    BY <2>6 DEF Channel!Next
<1>8. ASSUME NEW c \in Clients, ReceiveCurrent(c)
      PROVE  Goal
  <2>1. /\ c \in subscribed
        /\ current[c] # Nothing
        /\ screen' = [screen EXCEPT ![c] = current[c]]
        /\ current' = [current EXCEPT ![c] = Nothing]
        /\ UNCHANGED <<outbox, subscribed, ring>>
    BY <1>8 DEF ReceiveCurrent
  <2>2. current[c] \in Views
    BY <2>1 DEF ServerTypeOK
  <2>3. \A d \in Clients : Slot(d)' = Slot(d)
    BY <2>1 DEF Slot, Newest, ServerTypeOK
  <2>. QED
    BY <2>1, <2>2, <2>3, ShowStep
<1>9. ASSUME NEW c \in Clients, ReceiveBroadcast(c)
      PROVE  Goal
  <2>1. /\ c \in subscribed
        /\ current[c] = Nothing
        /\ ring[c] # <<>>
        /\ screen' = [screen EXCEPT ![c] = Head(ring[c])]
        /\ ring' = [ring EXCEPT ![c] = Tail(ring[c])]
        /\ UNCHANGED <<outbox, subscribed, current>>
    BY <1>9 DEF ReceiveBroadcast
  <2>2. ring[c] \in Seq(Views)
    BY DEF ServerTypeOK
  <2>3. Head(ring[c]) \in Views
    BY <2>1, <2>2, HeadTailProperties
  <2>4. IF Tail(ring[c]) = <<>> THEN ring[c][Len(ring[c])] = Head(ring[c])
        ELSE Tail(ring[c])[Len(Tail(ring[c]))] = ring[c][Len(ring[c])]
    BY <2>1, <2>2, LastAfterTail
  <2>5. Slot(c)' = Slot(c)
    BY <2>1, <2>4 DEF Slot, Newest, ServerTypeOK
  <2>6. \A d \in Clients \ {c} : Slot(d)' = Slot(d)
    BY <2>1, OtherSlots DEF ServerTypeOK
  <2>. QED
    BY <2>1, <2>3, <2>5, <2>6, ShowStep
<1>10. ASSUME NEW c \in Clients, Disconnect(c)
       PROVE  Goal
  <2>1. /\ subscribed' = subscribed \ {c}
        /\ current' = [d \in Clients |-> IF d \in {c} THEN Nothing ELSE current[d]]
        /\ ring' = [d \in Clients |-> IF d \in {c} THEN <<>> ELSE ring[d]]
        /\ UNCHANGED <<outbox, screen>>
    BY <1>10 DEF Disconnect, Close
  <2>2. [d \in Clients |-> Slot(d)]' = [[d \in Clients |-> Slot(d)] EXCEPT ![c] = Closed]
    BY <2>1 DEF Slot, Newest
  <2>3. [w \in Workers |-> Offered(w)]' = [w \in Workers |-> Offered(w)]
    BY <2>1 DEF Offered
  <2>4. Channel!Close(c)
    BY <2>1, <2>2, <2>3 DEF Channel!Close, Offered, Slot
  <2>. QED
    BY <2>4 DEF Channel!Next
<1>11. CASE Restart
  <2>1. subscribed' = {} /\ outbox' = [w \in Workers |-> Idle] /\ UNCHANGED screen
    BY <1>11 DEF Restart, Close, ServerTypeOK
  <2>2. Channel!Fail
    BY <2>1 DEF Channel!Fail
  <2>. QED
    BY <2>2 DEF Channel!Next
<1>12. CASE ServerTick
  BY <1>12, SilentStep DEF ServerTick, Offered
<1>13. CASE UNCHANGED serverVars
  BY <1>13, SilentStep DEF serverVars, Offered
<1>. QED
  BY <1>1, <1>2, <1>3, <1>4, <1>5, <1>6, <1>7, <1>8, <1>9, <1>10, <1>11, <1>12, <1>13
  DEF ServerNext

-----------------------------------------------------------------------------
\* The tail of a locked section carries nothing to a single client.
LEMMA OpenedAfterWrite ==
  ASSUME ServerTypeOK, ServerTypeOK', StreamsAreOpened, NEW w \in Workers,
         outbox[w] = Idle, ListForBroadcast(w) \/ UNCHANGED outbox, UNCHANGED streamVars
  PROVE  StreamsAreOpened'
<1>1. Everyone \notin Clients /\ Everyone \notin subscribed
  BY ServerAssumption DEF ServerTypeOK
<1>2. CASE UNCHANGED outbox
  BY <1>2 DEF StreamsAreOpened, Newest, streamVars
<1>3. CASE outbox' = [outbox EXCEPT ![w] =
                        [client |-> Everyone, view |-> ListActive(sessions')]]
  BY <1>1, <1>3 DEF StreamsAreOpened, Newest, streamVars, ServerTypeOK
<1>. QED
  BY <1>2, <1>3 DEF ListForBroadcast

\* Streams only close, and nothing new is carried to a client.
LEMMA OpenedAfterClose ==
  ASSUME ServerTypeOK, StreamsAreOpened, NEW leaving \in SUBSET Clients, Close(leaving),
         \A w \in Workers : outbox'[w] \in {outbox[w], Idle}
  PROVE  StreamsAreOpened'
<1>1. \A c \in subscribed' : c \in subscribed /\ Newest(c)' = Newest(c)
  BY DEF Close, Newest, ServerTypeOK
<1>2. subscribed' \subseteq subscribed
  BY DEF Close
<1>. QED
  BY <1>1, <1>2 DEF StreamsAreOpened

LEMMA OpenedStep ==
  ASSUME ServerTypeOK, ServerTypeOK', StreamsAreOpened, [ServerNext]_serverVars
  PROVE  StreamsAreOpened'
<1>1. ASSUME NEW w \in Workers, NEW r \in Report, PostSession(w, r)
      PROVE  StreamsAreOpened'
  BY <1>1, OpenedAfterWrite DEF PostSession
<1>2. ASSUME NEW w \in Workers, NEW s \in Sessions, PostEnd(w, s)
      PROVE  StreamsAreOpened'
  BY <1>2, OpenedAfterWrite DEF PostEnd
<1>3. ASSUME NEW w \in Workers, NEW s \in Sessions, DeleteRequest(w, s)
      PROVE  StreamsAreOpened'
  BY <1>3, OpenedAfterWrite DEF DeleteRequest
<1>4. ASSUME NEW w \in Workers, NEW h \in Hosts, NEW k \in Kinds, NEW snap \in Snapshots,
             PostSnapshot(w, h, k, snap)
      PROVE  StreamsAreOpened'
  BY <1>4, OpenedAfterWrite DEF PostSnapshot
<1>5. ASSUME NEW w \in Workers, NEW c \in Clients, GetEvents(w, c)
      PROVE  StreamsAreOpened'
  <2>1. PICK v : outbox' = [outbox EXCEPT ![w] = [client |-> c, view |-> v]]
    BY <1>5 DEF GetEvents
  <2>2. /\ c \notin subscribed
        /\ \A x \in Workers : outbox[x] # Idle => outbox[x].client # c
        /\ UNCHANGED streamVars
    BY <1>5 DEF GetEvents
  <2>. QED
    BY <2>1, <2>2 DEF StreamsAreOpened, Newest, streamVars, ServerTypeOK
<1>6. ASSUME NEW w \in Workers, Subscribe(w)
      PROVE  StreamsAreOpened'
  <2>. PICK c \in Clients : c = outbox[w].client
    BY <1>6 DEF Subscribe
  <2>1. /\ outbox[w] # Idle
        /\ subscribed' = subscribed \cup {c}
        /\ current' = [current EXCEPT ![c] = outbox[w].view]
        /\ ring' = [ring EXCEPT ![c] = <<>>]
        /\ outbox' = [outbox EXCEPT ![w] = Idle]
        /\ UNCHANGED screen
    BY <1>6 DEF Subscribe
  <2>2. outbox[w].view \in Views
    BY <2>1 DEF ServerTypeOK, Message
  <2>3. Newest(c)' = outbox[w].view
    BY <2>1, <2>2, MarkerAssumption DEF Newest, ServerTypeOK
  <2>4. \A d \in subscribed \ {c} : Newest(d)' = Newest(d)
    BY <2>1 DEF Newest, ServerTypeOK
  <2>5. \A d \in subscribed' : Newest(d)' \in Views
    BY <2>1, <2>2, <2>3, <2>4 DEF StreamsAreOpened
  <2>6. \A x \in Workers \ {w} : outbox[x] # Idle => outbox[x].client # c
    BY <2>1 DEF StreamsAreOpened
  <2>. QED
    BY <2>1, <2>5, <2>6 DEF StreamsAreOpened, ServerTypeOK
<1>7. ASSUME NEW w \in Workers, Send(w)
      PROVE  StreamsAreOpened'
  <2>. PICK v \in Views : v = outbox[w].view
    BY <1>7 DEF Send, ServerTypeOK, Message
  <2>1. /\ ring' = [c \in Clients |-> IF c \in subscribed THEN Push(ring[c], v) ELSE ring[c]]
        /\ outbox' = [outbox EXCEPT ![w] = Idle]
        /\ UNCHANGED <<subscribed, current, screen>>
    BY <1>7 DEF Send
  <2>2. ASSUME NEW c \in subscribed
        PROVE  Newest(c)' = v
    <3>1. c \in Clients /\ ring[c] \in Seq(Views) /\ Len(ring[c]) <= Capacity
      BY DEF ServerTypeOK
    <3>2. ring'[c] # <<>> /\ ring'[c][Len(ring'[c])] = v
      BY <2>1, <3>1, PushType
    <3>. QED
      BY <3>2 DEF Newest
  <2>. QED
    BY <2>1, <2>2 DEF StreamsAreOpened, ServerTypeOK
<1>8. ASSUME NEW c \in Clients, ReceiveCurrent(c)
      PROVE  StreamsAreOpened'
  <2>1. \A d \in subscribed : Newest(d)' = Newest(d)
    BY <1>8 DEF ReceiveCurrent, Newest, ServerTypeOK
  <2>. QED
    BY <1>8, <2>1 DEF ReceiveCurrent, StreamsAreOpened
<1>9. ASSUME NEW c \in Clients, ReceiveBroadcast(c)
      PROVE  StreamsAreOpened'
  <2>1. /\ current[c] = Nothing
        /\ ring[c] # <<>>
        /\ screen' = [screen EXCEPT ![c] = Head(ring[c])]
        /\ ring' = [ring EXCEPT ![c] = Tail(ring[c])]
        /\ UNCHANGED <<outbox, subscribed, current>>
    BY <1>9 DEF ReceiveBroadcast
  <2>2. IF Tail(ring[c]) = <<>> THEN ring[c][Len(ring[c])] = Head(ring[c])
        ELSE Tail(ring[c])[Len(Tail(ring[c]))] = ring[c][Len(ring[c])]
    BY <2>1, LastAfterTail DEF ServerTypeOK
  <2>3. Newest(c)' = Newest(c)
    BY <2>1, <2>2 DEF Newest, ServerTypeOK
  <2>4. \A d \in subscribed \ {c} : Newest(d)' = Newest(d)
    BY <2>1 DEF Newest, ServerTypeOK
  <2>. QED
    BY <2>1, <2>3, <2>4 DEF StreamsAreOpened
<1>10. ASSUME NEW c \in Clients, Disconnect(c)
       PROVE  StreamsAreOpened'
  BY <1>10, OpenedAfterClose DEF Disconnect
<1>11. CASE Restart
  BY <1>11, OpenedAfterClose DEF Restart
<1>12. CASE ServerTick
  BY <1>12 DEF ServerTick, StreamsAreOpened, Newest, streamVars
<1>13. CASE UNCHANGED serverVars
  BY <1>13 DEF serverVars, StreamsAreOpened, Newest, streamVars
<1>. QED
  BY <1>1, <1>2, <1>3, <1>4, <1>5, <1>6, <1>7, <1>8, <1>9, <1>10, <1>11, <1>12, <1>13
  DEF ServerNext

(***************************************************************************)
(* For any number of workers and clients, and whatever fails: a list that  *)
(* is sent becomes, in that step, the newest one on its way to every open  *)
(* stream, and nothing else ever replaces a client's newest list.  This is *)
(* ImplementsChannel without CatchesUp, its liveness.                      *)
(***************************************************************************)
THEOREM StreamsRefineChannel ==
  ServerSpec => Channel!Init /\ [][Channel!Next]_(Channel!channelVars)
<1>1. ServerInit => StreamsAreOpened
  BY DEF ServerInit, StreamsAreOpened
<1>2. ServerInit => Channel!Init
  BY DEF ServerInit, Channel!Init
<1>3. ServerTypeOK /\ ServerTypeOK' /\ StreamsAreOpened /\ [ServerNext]_serverVars
        => StreamsAreOpened' /\ [Channel!Next]_(Channel!channelVars)
  BY OpenedStep, ChannelStep
<1>. QED
  BY <1>1, <1>2, <1>3, ServerTypeCorrect, PTL DEF ServerSpec
=============================================================================
