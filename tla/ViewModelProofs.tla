--------------------------- MODULE ViewModelProofs ---------------------------
(***************************************************************************)
(* Proofs about ViewModel: its types, and that overtaken first callbacks   *)
(* are the only thing that makes an observer differ from the shared state, *)
(* for any number of observers, sessions and answers of the server.        *)
(***************************************************************************)
EXTENDS ViewModel, FiniteSetTheorems, TLAPS

-----------------------------------------------------------------------------
\* A session has one status, so it counts for busy or for waiting at most.
LEMMA SummaryType ==
  ASSUME NEW list \in Lists
  PROVE  SummaryOf(list) \in Summaries
<1> DEFINE B == {s \in DOMAIN list : list[s] \in {"Busy", "Shell"}}
           W == {s \in DOMAIN list : list[s] \in {"Waiting"}}
<1>1. DOMAIN list \subseteq Sessions
  BY DEF Lists
<1>2. B \subseteq Sessions /\ W \subseteq Sessions /\ B \cup W \subseteq Sessions
  BY <1>1
<1>3. IsFiniteSet(Sessions)
  BY ViewAssumption
<1>4. IsFiniteSet(B) /\ IsFiniteSet(W)
  BY <1>2, <1>3, FS_Subset
<1>5. Cardinality(B \cup W) <= Cardinality(Sessions)
  BY <1>2, <1>3, FS_Subset
<1>6. B \cap W = {}
  OBVIOUS
<1>7. Cardinality(B \cap W) = 0
  BY <1>6, FS_EmptySet
<1>8. Cardinality(B \cup W) = Cardinality(B) + Cardinality(W) - Cardinality(B \cap W)
  BY <1>4, FS_Union
<1>9. Cardinality(B) \in Nat /\ Cardinality(W) \in Nat /\ Cardinality(Sessions) \in Nat
  BY <1>3, <1>4, FS_CardinalityType
<1>10. Cardinality(B) + Cardinality(W) <= Cardinality(Sessions)
  BY <1>5, <1>7, <1>8, <1>9
<1>11. SummaryOf(list) = [busy |-> Cardinality(B), waiting |-> Cardinality(W)]
  BY DEF SummaryOf, Count
<1> HIDE DEF B, W
<1>. QED
  BY <1>9, <1>10, <1>11 DEF Summaries

LEMMA JobType ==
  ASSUME NEW t \in Threads, NEW fields, fields \subseteq Reports(t),
         NEW view, \A f \in fields : view[f] \in Values[f],
         NEW who, who \subseteq Reached(t)
  PROVE  IsJob(t, Job(fields, view, who))
BY DEF IsJob, Job

LEMMA NoJobType ==
  ASSUME NEW t \in Threads
  PROVE  IsJob(t, NoJob)
BY JobType DEF NoJob

LEMMA FieldsAre == Fields = {"sessions", "connection", "summary", "hosts"}
BY DEF Fields, Values

\* What on_update stores is well typed.
LEMMA UpdateType ==
  ASSUME ViewTypeOK, NEW list \in Lists, NEW connected \in BOOLEAN,
         OnUpdate(list, connected)
  PROVE  /\ shared' = [f \in Fields |-> shared'[f]]
         /\ \A f \in Fields : shared'[f] \in Values[f]
         /\ job' = [job EXCEPT ![SSE] = Job(Changes(shared'), shared', observers)]
         /\ Overtakes(Changes(shared'))
         /\ UNCHANGED <<observers, seen>>
<1>1. SummaryOf(list) \in Summaries
  BY SummaryType
<1>2. shared' = [shared EXCEPT
                   !.sessions = list,
                   !.connection = IF connected THEN "Connected" ELSE "Disconnected",
                   !.summary = SummaryOf(list)]
  BY DEF OnUpdate
<1>3. shared' = [f \in Fields |-> shared'[f]]
  BY <1>2 DEF ViewTypeOK
<1>4. ASSUME NEW f \in Fields
      PROVE  shared'[f] \in Values[f]
  <2>1. shared'["sessions"] = list /\ shared'["summary"] = SummaryOf(list)
    BY <1>2, FieldsAre DEF ViewTypeOK
  <2>2. shared'["connection"] \in ConnectionState
    BY <1>2, FieldsAre DEF ViewTypeOK, ConnectionState
  <2>3. shared'["hosts"] = shared["hosts"]
    BY <1>2, FieldsAre DEF ViewTypeOK
  <2>. HIDE <1>2
  <2>. QED
    BY <1>1, <2>1, <2>2, <2>3, FieldsAre DEF ViewTypeOK, Values
<1>. QED
  BY <1>2, <1>3, <1>4 DEF OnUpdate

\* One thread gets a new job.
LEMMA JobsType ==
  ASSUME ViewTypeOK, NEW t \in Threads, NEW j, IsJob(t, j),
         job' = [job EXCEPT ![t] = j]
  PROVE  /\ job' = [u \in Threads |-> job'[u]]
         /\ \A u \in Threads : IsJob(u, job'[u])
<1>1. job = [u \in Threads |-> job[u]]
  BY DEF ViewTypeOK
<1>2. job' = [u \in Threads |-> IF u = t THEN j ELSE job[u]]
  BY <1>1
<1>. QED
  BY <1>2 DEF ViewTypeOK

LEMMA OvertakesType ==
  ASSUME ViewTypeOK, NEW fields, fields \subseteq Fields, Overtakes(fields)
  PROVE  overtaken' \subseteq Observers \X Fields
BY DEF ViewTypeOK, Overtakes

LEMMA ThreadsAre ==
  /\ SSE \in Threads /\ Poller \in Threads /\ Observers \subseteq Threads
  /\ Reached(SSE) = Observers /\ Reached(Poller) = Observers
  /\ \A o \in Observers : Reached(o) = {o} /\ Reports(o) = Fields
  /\ Reports(SSE) = UpdateFields /\ Reports(Poller) = {"hosts"}
  /\ UpdateFields \subseteq Fields
BY ViewAssumption, FieldsAre DEF Threads, Reached, Reports, UpdateFields

LEMMA UpdateKeepsTypes ==
  ASSUME ViewTypeOK, NEW list \in Lists, NEW connected \in BOOLEAN,
         OnUpdate(list, connected), stream' \in {"connecting", "reading", "pausing"}
  PROVE  ViewTypeOK'
<1>1. /\ shared' = [f \in Fields |-> shared'[f]]
      /\ \A f \in Fields : shared'[f] \in Values[f]
      /\ job' = [job EXCEPT ![SSE] = Job(Changes(shared'), shared', observers)]
      /\ Overtakes(Changes(shared'))
      /\ UNCHANGED <<observers, seen>>
  BY UpdateType
<1>2. Changes(shared') \subseteq UpdateFields
  BY DEF Changes
<1>3. IsJob(SSE, Job(Changes(shared'), shared', observers))
  <2>1. Changes(shared') \subseteq Reports(SSE) /\ observers \subseteq Reached(SSE)
    BY <1>2, ThreadsAre DEF ViewTypeOK
  <2>2. \A f \in Changes(shared') : shared'[f] \in Values[f]
    BY <1>1, <1>2, ThreadsAre
  <2>. QED
    BY <2>1, <2>2, JobType, ThreadsAre
<1>4. /\ job' = [u \in Threads |-> job'[u]]
      /\ \A u \in Threads : IsJob(u, job'[u])
  BY <1>1, <1>3, JobsType, ThreadsAre
<1>5. overtaken' \subseteq Observers \X Fields
  BY <1>1, <1>2, OvertakesType, ThreadsAre
<1>. QED
  BY <1>1, <1>4, <1>5 DEF ViewTypeOK

LEMMA PollKeepsTypes ==
  ASSUME ViewTypeOK, NEW hosts \in HostLists, Poll(hosts)
  PROVE  ViewTypeOK'
<1>1. shared' = [shared EXCEPT !["hosts"] = hosts]
  BY DEF Poll
<1>2. /\ shared' = [f \in Fields |-> shared'[f]]
      /\ \A f \in Fields : shared'[f] \in Values[f]
  <2>1. shared' = [f \in Fields |-> IF f = "hosts" THEN hosts ELSE shared[f]]
    BY <1>1, FieldsAre DEF ViewTypeOK
  <2>2. Values["hosts"] = HostLists
    BY DEF Values
  <2>. QED
    BY <2>1, <2>2 DEF ViewTypeOK
<1>3. {"hosts"} \subseteq Fields
  BY FieldsAre
<1>4. IsJob(Poller, Job({"hosts"}, shared', observers))
  <2>1. {"hosts"} \subseteq Reports(Poller) /\ observers \subseteq Reached(Poller)
    BY ThreadsAre DEF ViewTypeOK
  <2>2. \A f \in {"hosts"} : shared'[f] \in Values[f]
    BY <1>2, <1>3
  <2>. QED
    BY <2>1, <2>2, JobType, ThreadsAre
<1>5. /\ job' = [u \in Threads |-> job'[u]]
      /\ \A u \in Threads : IsJob(u, job'[u])
  BY <1>4, JobsType, ThreadsAre DEF Poll
<1>6. overtaken' \subseteq Observers \X Fields
  BY <1>3, OvertakesType DEF Poll
<1>. QED
  BY <1>2, <1>5, <1>6 DEF ViewTypeOK, Poll

LEMMA SubscribeKeepsTypes ==
  ASSUME ViewTypeOK, NEW o \in Observers, Subscribe(o)
  PROVE  ViewTypeOK'
<1>1. IsJob(o, Job(Fields, shared, {o}))
  <2>1. Fields \subseteq Reports(o) /\ {o} \subseteq Reached(o)
    BY ThreadsAre
  <2>. QED
    BY <2>1, JobType, ThreadsAre DEF ViewTypeOK
<1>2. /\ job' = [u \in Threads |-> job'[u]]
      /\ \A u \in Threads : IsJob(u, job'[u])
  BY <1>1, JobsType, ThreadsAre DEF Subscribe
<1>. QED
  BY <1>2 DEF ViewTypeOK, Subscribe

\* What remains of a job after a callback.
LEMMA RestType ==
  ASSUME ViewTypeOK, NEW t \in Threads, NEW o \in Observers, NEW f \in Fields
  PROVE  IsJob(t, [job[t] EXCEPT !.due[o] = @ \ {f}])
<1> DEFINE j == job[t]
           rest == [j EXCEPT !.due[o] = @ \ {f}]
<1>1. IsJob(t, j)
  BY DEF ViewTypeOK
<1> HIDE DEF j
<1>2. /\ rest.fields = j.fields
      /\ rest.view = j.view
      /\ rest.due = [j.due EXCEPT ![o] = @ \ {f}]
      /\ rest = [fields |-> rest.fields, view |-> rest.view, due |-> rest.due]
  <2>1. j = [fields |-> j.fields, view |-> j.view, due |-> j.due]
    BY <1>1 DEF IsJob
  <2>2. rest = [fields |-> j.fields, view |-> j.view, due |-> [j.due EXCEPT ![o] = @ \ {f}]]
    BY <2>1
  <2>. QED
    BY <2>2
<1> HIDE DEF rest
<1>3. rest.due \in [Observers -> SUBSET rest.fields]
  BY <1>1, <1>2 DEF IsJob
<1>4. \A p \in Observers : rest.due[p] # {} => p \in Reached(t)
  BY <1>1, <1>2 DEF IsJob
<1>5. IsJob(t, rest)
  BY <1>1, <1>2, <1>3, <1>4 DEF IsJob
<1>. QED
  BY <1>5 DEF j, rest

LEMMA CallKeepsTypes ==
  ASSUME ViewTypeOK, NEW t \in Threads, NEW o \in Observers, NEW f \in Fields,
         Call(t, o, f)
  PROVE  ViewTypeOK'
<1> DEFINE rest == [job[t] EXCEPT !.due[o] = @ \ {f}]
           j == IF \A p \in Observers : rest.due[p] = {} THEN NoJob ELSE rest
<1>1. IsJob(t, j)
  BY RestType, NoJobType
<1>2. job' = [job EXCEPT ![t] = j]
  BY DEF Call
<1> HIDE DEF j
<1>3. /\ job' = [u \in Threads |-> job'[u]]
      /\ \A u \in Threads : IsJob(u, job'[u])
  BY <1>1, <1>2, JobsType
<1>4. job[t].view[f] \in Values[f]
  BY DEF Call, ViewTypeOK, IsJob
<1>5. seen' = [seen EXCEPT ![o][f] = job[t].view[f]]
  BY DEF Call
<1>6. /\ seen' = [p \in Observers |-> [g \in Fields |-> seen'[p][g]]]
      /\ \A p \in Observers, g \in Fields : seen'[p][g] \in Values[g] \cup {Unseen}
  <2>1. seen = [p \in Observers |-> [g \in Fields |-> seen[p][g]]]
    BY DEF ViewTypeOK
  <2>2. seen' = [p \in Observers |-> [g \in Fields |->
                   IF p = o /\ g = f THEN job[t].view[f] ELSE seen[p][g]]]
    BY <1>5, <2>1
  <2>. QED
    BY <1>4, <2>2 DEF ViewTypeOK
<1>7. UNCHANGED <<stream, shared, observers, overtaken>>
  BY DEF Call
<1>. QED
  BY <1>3, <1>6, <1>7 DEF ViewTypeOK, IsJob

(***************************************************************************)
(* The threads keep the shared state, their jobs and what observers were   *)
(* told well typed; no session is ever counted twice in a summary, and     *)
(* only subscribe's own thread makes the first callbacks of an observer.   *)
(***************************************************************************)
THEOREM ViewTypeCorrect == ViewSpec => []ViewTypeOK
<1>1. ViewInit => ViewTypeOK
  <2> SUFFICES ASSUME ViewInit PROVE ViewTypeOK
    OBVIOUS
  <2>1. NoSessions \in Lists
    BY DEF NoSessions, Lists
  <2>2. SummaryOf(NoSessions) \in Summaries
    BY <2>1, SummaryType
  <2>3. /\ shared = [f \in Fields |-> shared[f]]
        /\ \A f \in Fields : shared[f] \in Values[f]
    BY <2>1, <2>2, FieldsAre, ViewAssumption DEF ViewInit, Values, ConnectionState
  <2>4. \A t \in Threads : IsJob(t, NoJob)
    BY NoJobType
  <2> HIDE DEF NoJob
  <2>. QED
    BY <2>3, <2>4 DEF ViewInit, ViewTypeOK
<1>2. ViewTypeOK /\ [ViewNext]_viewVars => ViewTypeOK'
  <2> SUFFICES ASSUME ViewTypeOK, [ViewNext]_viewVars PROVE ViewTypeOK'
    OBVIOUS
  <2>1. CASE Connect \/ Fail
    BY <2>1 DEF Connect, Fail, ViewTypeOK, IsJob
  <2>2. CASE \E list \in Lists : ReceiveList(list)
    BY <2>2, UpdateKeepsTypes DEF ReceiveList, ViewTypeOK
  <2>3. CASE EndOfStream \/ Retry
    <3>1. shared.sessions \in Lists
      BY FieldsAre DEF ViewTypeOK, Values
    <3>. QED
      BY <2>3, <3>1, UpdateKeepsTypes DEF EndOfStream, Retry
  <2>4. CASE \E hosts \in HostLists : Poll(hosts)
    BY <2>4, PollKeepsTypes
  <2>5. CASE \E o \in Observers : Subscribe(o)
    BY <2>5, SubscribeKeepsTypes
  <2>6. CASE \E o \in Observers : DropSubscription(o)
    BY <2>6 DEF DropSubscription, ViewTypeOK
  <2>7. CASE \E t \in Threads, o \in Observers, f \in Fields : Call(t, o, f)
    BY <2>7, CallKeepsTypes
  <2>8. CASE UNCHANGED viewVars
    BY <2>8 DEF viewVars, ViewTypeOK, IsJob
  <2>. QED
    BY <2>1, <2>2, <2>3, <2>4, <2>5, <2>6, <2>7, <2>8 DEF ViewNext
<1>. QED
  BY <1>1, <1>2, PTL DEF ViewSpec

-----------------------------------------------------------------------------
\* A copy on its way to an observer is current, unless it was overtaken.
CopiesAreCurrent ==
  /\ \A t \in {SSE, Poller}, o \in Observers :
       \A f \in job[t].due[o] : job[t].view[f] = shared[f]
  /\ \A o \in observers : \A f \in job[o].due[o] :
       <<o, f>> \notin overtaken => job[o].view[f] = shared[f]

\* Only these threads have something to call an observer with.
LEMMA DueTyped ==
  ASSUME ViewTypeOK, NEW t \in Threads, NEW o \in Observers, NEW f \in job[t].due[o]
  PROVE  f \in Reports(t) /\ f \in Fields /\ o \in Reached(t)
<1>1. IsJob(t, job[t])
  BY DEF ViewTypeOK
<1>2. f \in Reports(t) /\ o \in Reached(t)
  BY <1>1 DEF IsJob
<1>3. Reports(t) \subseteq Fields
  BY FieldsAre DEF Reports, UpdateFields
<1>. QED
  BY <1>2, <1>3

\* on_update and the poll: new values, a job for every observer.
LEMMA ReportStep ==
  ASSUME ViewTypeOK, CopiesAreCurrent, SettledObserversAgree,
         NEW t \in {SSE, Poller}, ~Busy(t), NEW fields, fields \subseteq Reports(t),
         job' = [job EXCEPT ![t] = Job(fields, shared', observers)],
         Overtakes(fields), UNCHANGED <<observers, seen>>,
         \A f \in Fields \ fields : shared'[f] = shared[f]
  PROVE  CopiesAreCurrent' /\ SettledObserversAgree'
<1>1. t \in Threads /\ t \notin Observers /\ observers \subseteq Observers
  BY ThreadsAre, ViewAssumption DEF ViewTypeOK
<1>2. \A u \in Threads \ {t} : job'[u] = job[u]
  BY DEF ViewTypeOK
<1>3. job'[t] = Job(fields, shared', observers)
  BY <1>1 DEF ViewTypeOK
<1>4. \A o \in observers, f \in Fields :
        <<o, f>> \notin overtaken' =>
          IF f \in fields THEN ~Busy(o) ELSE <<o, f>> \notin overtaken
  BY DEF Overtakes
<1>5. ASSUME NEW u \in {SSE, Poller}, NEW o \in Observers, NEW f \in job'[u].due[o]
      PROVE  job'[u].view[f] = shared'[f]
  <2>1. CASE u = t
    BY <1>3, <2>1 DEF Job
  <2>2. CASE u # t
    <3>1. u \in Threads /\ job'[u] = job[u]
      BY <1>2, <2>2, ThreadsAre
    <3>2. f \in Reports(u) /\ f \in Fields
      BY <3>1, DueTyped
    <3>3. Reports(u) \cap Reports(t) = {}
      BY <2>2, ThreadsAre, ViewAssumption DEF UpdateFields
    <3>. QED
      BY <3>1, <3>2, <3>3 DEF CopiesAreCurrent
  <2>. QED
    BY <2>1, <2>2
<1>6. ASSUME NEW o \in observers, NEW f \in job'[o].due[o], <<o, f>> \notin overtaken'
      PROVE  job'[o].view[f] = shared'[f]
  <2>1. o \in Observers /\ o \in Threads /\ job'[o] = job[o]
    BY <1>1, <1>2, ThreadsAre
  <2>2. f \in Fields /\ Busy(o)
    BY <2>1, DueTyped DEF Busy
  <2>3. f \notin fields /\ <<o, f>> \notin overtaken
    BY <1>4, <1>6, <2>2
  <2>. QED
    BY <2>1, <2>2, <2>3 DEF CopiesAreCurrent
<1>7. ASSUME NEW o \in observers, NEW f \in Fields,
             ~Due(o, f)', <<o, f>> \notin overtaken'
      PROVE  seen'[o][f] = shared'[f]
  <2>1. f \notin fields
    BY <1>1, <1>3, <1>7 DEF Due, Job
  <2>2. ~Due(o, f)
    BY <1>1, <1>2, <1>7 DEF Due, Busy
  <2>. QED
    BY <1>4, <1>7, <2>1, <2>2 DEF SettledObserversAgree
<1>8. CopiesAreCurrent'
  BY <1>5, <1>6 DEF CopiesAreCurrent
<1>9. SettledObserversAgree'
  BY <1>7 DEF SettledObserversAgree
<1>. QED
  BY <1>8, <1>9

LEMMA UpdateStep ==
  ASSUME ViewTypeOK, CopiesAreCurrent, SettledObserversAgree, ~Busy(SSE),
         NEW list \in Lists, NEW connected \in BOOLEAN, OnUpdate(list, connected)
  PROVE  CopiesAreCurrent' /\ SettledObserversAgree'
<1>1. /\ job' = [job EXCEPT ![SSE] = Job(Changes(shared'), shared', observers)]
      /\ Overtakes(Changes(shared'))
      /\ UNCHANGED <<observers, seen>>
  BY UpdateType
<1>2. Changes(shared') \subseteq Reports(SSE)
  BY ThreadsAre DEF Changes
<1>3. \A f \in Fields \ Changes(shared') : shared'[f] = shared[f]
  <2>1. shared'["hosts"] = shared["hosts"]
    BY FieldsAre DEF OnUpdate, ViewTypeOK
  <2>2. Fields = UpdateFields \cup {"hosts"}
    BY FieldsAre DEF UpdateFields
  <2>. QED
    BY <2>1, <2>2 DEF Changes
<1>. QED
  BY <1>1, <1>2, <1>3, ReportStep

LEMMA PollStep ==
  ASSUME ViewTypeOK, CopiesAreCurrent, SettledObserversAgree,
         NEW hosts \in HostLists, Poll(hosts)
  PROVE  CopiesAreCurrent' /\ SettledObserversAgree'
<1>1. {"hosts"} \subseteq Reports(Poller)
  BY ThreadsAre
<1>2. \A f \in Fields \ {"hosts"} : shared'[f] = shared[f]
  BY FieldsAre DEF Poll, ViewTypeOK
<1>. QED
  BY <1>1, <1>2, ReportStep DEF Poll

LEMMA SubscribeStep ==
  ASSUME ViewTypeOK, CopiesAreCurrent, SettledObserversAgree,
         NEW o \in Observers, Subscribe(o)
  PROVE  CopiesAreCurrent' /\ SettledObserversAgree'
<1>1. o \in Threads /\ o # SSE /\ o # Poller
  BY ThreadsAre, ViewAssumption
<1>2. \A u \in Threads \ {o} : job'[u] = job[u]
  BY DEF ViewTypeOK, Subscribe
<1>3. job'[o] = Job(Fields, shared, {o})
  BY <1>1 DEF ViewTypeOK, Subscribe
<1>4. UNCHANGED <<shared, seen, overtaken>> /\ observers' = observers \cup {o}
  BY DEF Subscribe
<1>5. CopiesAreCurrent'
  <2>1. \A t \in {SSE, Poller} : job'[t] = job[t]
    BY <1>1, <1>2, ThreadsAre
  <2>2. \A p \in observers' \ {o} : p \in observers /\ job'[p] = job[p]
    BY <1>2, <1>4, ThreadsAre DEF ViewTypeOK
  <2>3. \A f \in job'[o].due[o] : job'[o].view[f] = shared'[f]
    BY <1>3, <1>4 DEF Job
  <2>. QED
    BY <1>4, <2>1, <2>2, <2>3 DEF CopiesAreCurrent
<1>6. ASSUME NEW p \in observers', NEW f \in Fields,
             ~Due(p, f)', <<p, f>> \notin overtaken'
      PROVE  seen'[p][f] = shared'[f]
  <2>1. p # o
    BY <1>1, <1>3, <1>6 DEF Due, Job
  <2>2. p \in observers /\ p \in Observers
    BY <1>4, <2>1 DEF ViewTypeOK
  <2>3. f \notin job[o].due[p]
    BY <1>1, <2>1, <2>2, DueTyped, ThreadsAre
  <2>4. ~Due(p, f)
    BY <1>2, <1>6, <2>3 DEF Due
  <2>. QED
    BY <1>4, <1>6, <2>2, <2>4 DEF SettledObserversAgree
<1>7. SettledObserversAgree'
  BY <1>6 DEF SettledObserversAgree
<1>. QED
  BY <1>5, <1>7

LEMMA CallStep ==
  ASSUME ViewTypeOK, CopiesAreCurrent, SettledObserversAgree,
         NEW t \in Threads, NEW o \in Observers, NEW f \in Fields, Call(t, o, f)
  PROVE  CopiesAreCurrent' /\ SettledObserversAgree'
<1> DEFINE rest == [job[t] EXCEPT !.due[o] = @ \ {f}]
<1>1. IsJob(t, job[t])
  BY DEF ViewTypeOK
<1>2. rest.view = job[t].view /\ rest.due = [job[t].due EXCEPT ![o] = @ \ {f}]
  BY <1>1 DEF IsJob
<1>3. job'[t] = IF \A p \in Observers : rest.due[p] = {} THEN NoJob ELSE rest
  BY DEF Call, ViewTypeOK
<1>4. \A u \in Threads \ {t} : job'[u] = job[u]
  BY DEF Call, ViewTypeOK
<1>5. /\ UNCHANGED <<shared, observers, overtaken>>
      /\ f \in job[t].due[o]
      /\ seen' = [seen EXCEPT ![o][f] = job[t].view[f]]
  BY DEF Call
<1> HIDE DEF rest
<1>6. \A p \in Observers :
        job'[t].due[p] = IF p = o THEN job[t].due[p] \ {f} ELSE job[t].due[p]
  <2>1. \A p \in Observers :
          rest.due[p] = IF p = o THEN job[t].due[p] \ {f} ELSE job[t].due[p]
    BY <1>1, <1>2 DEF IsJob
  <2>2. \A p \in Observers : NoJob.due[p] = {}
    BY DEF NoJob, Job
  <2>3. \A p \in Observers : job'[t].due[p] = rest.due[p]
    BY <1>3, <2>2
  <2>. QED
    BY <2>1, <2>3
<1>7. \A p \in Observers : \A g \in job'[t].due[p] : job'[t].view[g] = job[t].view[g]
  BY <1>2, <1>3 DEF NoJob, Job
<1>8. CopiesAreCurrent'
  <2>1. ASSUME NEW u \in {SSE, Poller}, NEW p \in Observers, NEW g \in job'[u].due[p]
        PROVE  job'[u].view[g] = shared'[g]
    <3>1. u \in Threads
      BY ThreadsAre
    <3>2. g \in job[u].due[p] /\ job'[u].view[g] = job[u].view[g]
      BY <1>4, <1>6, <1>7, <3>1
    <3>. QED
      BY <1>5, <3>2 DEF CopiesAreCurrent
  <2>2. ASSUME NEW p \in observers', NEW g \in job'[p].due[p], <<p, g>> \notin overtaken'
        PROVE  job'[p].view[g] = shared'[g]
    <3>1. p \in Observers /\ p \in Threads /\ p \in observers
      BY <1>5, ThreadsAre DEF ViewTypeOK
    <3>2. g \in job[p].due[p] /\ job'[p].view[g] = job[p].view[g]
      BY <1>4, <1>6, <1>7, <3>1
    <3>. QED
      BY <1>5, <2>2, <3>1, <3>2 DEF CopiesAreCurrent
  <2>. QED
    BY <2>1, <2>2 DEF CopiesAreCurrent
<1>9. ASSUME NEW p \in observers, NEW g \in Fields,
             ~Due(p, g)', <<p, g>> \notin overtaken
      PROVE  seen'[p][g] = shared[g]
  <2>1. p \in Observers
    BY DEF ViewTypeOK
  <2>2. CASE p = o /\ g = f
    <3>1. job[t].view[f] = shared[f]
      <4>1. CASE t \in {SSE, Poller}
        BY <1>5, <4>1 DEF CopiesAreCurrent
      <4>2. CASE t \in Observers
        <5>1. t = o
          BY <1>5, <4>2, DueTyped, ThreadsAre
        <5>. QED
          BY <1>5, <1>9, <2>2, <5>1 DEF CopiesAreCurrent
      <4>. QED
        BY <4>1, <4>2 DEF Threads
    <3>. QED
      BY <1>5, <2>2, <3>1 DEF ViewTypeOK
  <2>3. CASE ~(p = o /\ g = f)
    <3>1. ~Due(p, g)
      BY <1>4, <1>6, <1>9, <2>1, <2>3 DEF Due
    <3>2. seen'[p][g] = seen[p][g]
      BY <1>5, <2>1, <2>3 DEF ViewTypeOK
    <3>. QED
      BY <1>9, <3>1, <3>2 DEF SettledObserversAgree
  <2>. QED
    BY <2>2, <2>3
<1>10. SettledObserversAgree'
  BY <1>5, <1>9 DEF SettledObserversAgree
<1>. QED
  BY <1>8, <1>10

(***************************************************************************)
(* An observer that no thread has yet to call shows the shared state,      *)
(* except for fields that on_update or the poll changed between its        *)
(* registration and its first callbacks: for any number of observers that  *)
(* come and go.  The invariant is that every copy under way is current or  *)
(* overtaken, so the order of the callbacks does not matter.               *)
(***************************************************************************)
THEOREM SettledObserversAreCurrent == ViewSpec => []SettledObserversAgree
<1>1. ViewInit => CopiesAreCurrent /\ SettledObserversAgree
  <2> SUFFICES ASSUME ViewInit PROVE CopiesAreCurrent /\ SettledObserversAgree
    OBVIOUS
  <2>1. \A t \in Threads, o \in Observers : job[t].due[o] = {}
    BY DEF ViewInit, NoJob, Job
  <2>2. SSE \in Threads /\ Poller \in Threads /\ observers = {}
    BY ThreadsAre DEF ViewInit
  <2>. QED
    BY <2>1, <2>2 DEF CopiesAreCurrent, SettledObserversAgree
<1>2. ViewTypeOK /\ CopiesAreCurrent /\ SettledObserversAgree /\ [ViewNext]_viewVars
        => CopiesAreCurrent' /\ SettledObserversAgree'
  <2> SUFFICES ASSUME ViewTypeOK, CopiesAreCurrent, SettledObserversAgree,
                      [ViewNext]_viewVars
               PROVE  CopiesAreCurrent' /\ SettledObserversAgree'
    OBVIOUS
  <2>1. CASE Connect \/ Fail
    BY <2>1 DEF Connect, Fail, CopiesAreCurrent, SettledObserversAgree, Due
  <2>2. CASE \E list \in Lists : ReceiveList(list)
    BY <2>2, UpdateStep DEF ReceiveList
  <2>3. CASE EndOfStream \/ Retry
    <3>1. shared.sessions \in Lists
      BY FieldsAre DEF ViewTypeOK, Values
    <3>. QED
      BY <2>3, <3>1, UpdateStep DEF EndOfStream, Retry
  <2>4. CASE \E hosts \in HostLists : Poll(hosts)
    BY <2>4, PollStep
  <2>5. CASE \E o \in Observers : Subscribe(o)
    BY <2>5, SubscribeStep
  <2>6. CASE \E o \in Observers : DropSubscription(o)
    BY <2>6 DEF DropSubscription, CopiesAreCurrent, SettledObserversAgree, Due
  <2>7. CASE \E t \in Threads, o \in Observers, f \in Fields : Call(t, o, f)
    BY <2>7, CallStep
  <2>8. CASE UNCHANGED viewVars
    BY <2>8 DEF viewVars, CopiesAreCurrent, SettledObserversAgree, Due
  <2>. QED
    BY <2>1, <2>2, <2>3, <2>4, <2>5, <2>6, <2>7, <2>8 DEF ViewNext
<1>. QED
  BY <1>1, <1>2, ViewTypeCorrect, PTL DEF ViewSpec
=============================================================================
