------------------------------ MODULE ViewModel ------------------------------
(***************************************************************************)
(* The headless core of the native clients (crates/common/src/sse.rs and   *)
(* view_model.rs).  Three kinds of threads share one mutex: the SSE thread *)
(* that follows the server's stream, the poller of GET /api/hosts, and the *)
(* threads that subscribe observers.  Each takes its copies under the lock *)
(* and makes its callbacks after releasing it, so the callbacks of one     *)
(* thread can overtake those of another.                                   *)
(***************************************************************************)
EXTENDS Integers, FiniteSets

CONSTANTS
  Sessions,   \* session ids
  Statuses,   \* statuses that the server lists
  HostLists,  \* what GET /api/hosts can answer
  NoHosts,    \* the empty answer
  Observers,
  SSE,        \* the SSE thread
  Poller,     \* the host status poll thread
  Unseen      \* an observer that was never called

\* A list as far as it matters here: the status of each session in it.
Lists == UNION {[ids -> Statuses] : ids \in SUBSET Sessions}

NoSessions == [s \in {} |-> Unseen]

ConnectionState == {"Connecting", "Connected", "Disconnected"}

Threads == {SSE, Poller} \cup Observers

ASSUME ViewAssumption ==
  /\ IsFiniteSet(Sessions)
  /\ Statuses \subseteq {"Busy", "Shell", "Waiting", "Idle"}
  /\ NoHosts \in HostLists
  /\ SSE # Poller /\ SSE \notin Observers /\ Poller \notin Observers

Summaries ==
  {s \in [busy : 0..Cardinality(Sessions), waiting : 0..Cardinality(Sessions)] :
     s.busy + s.waiting <= Cardinality(Sessions)}

\* How many sessions of a list have a status among these.
Count(list, kinds) == Cardinality({s \in DOMAIN list : list[s] \in kinds})

\* Mutant: a busy session is also counted as waiting.
SummaryCountingTwice(list) ==
  [busy |-> Count(list, {"Busy", "Shell"}), waiting |-> Count(list, {"Busy", "Waiting"})]

\* MenuBarSummary::from_sessions.
SummaryOf(list) ==
  [busy |-> Count(list, {"Busy", "Shell"}), waiting |-> Count(list, {"Waiting"})]

\* What observers are called with: the data fields of SharedState.
Values == [sessions |-> Lists, connection |-> ConnectionState,
           summary |-> Summaries, hosts |-> HostLists]

Fields == DOMAIN Values

\* The fields that on_update compares.
UpdateFields == {"sessions", "connection", "summary"}

\* The order of the callbacks to one observer.
Position == [sessions |-> 1, connection |-> 2, summary |-> 3, hosts |-> 4]

VARIABLES
  stream,     \* where the SSE thread is: "connecting", "reading" or "pausing"
  shared,     \* SharedState's data; its sessions are also SseState's
  observers,  \* SharedState::observers
  job,        \* per thread, the callbacks it has yet to make
  seen,       \* per observer, the last value it was called with, by field
  overtaken   \* fields that changed before a new observer's first callbacks

viewVars == <<stream, shared, observers, job, seen, overtaken>>

\* A job: the fields to report, the copy made of them under the lock, and for
\* each observer the fields it is still to be called with.
Job(fields, view, who) ==
  [fields |-> fields,
   view   |-> [f \in fields |-> view[f]],
   due    |-> [o \in Observers |-> IF o \in who THEN fields ELSE {}]]

NoJob == Job({}, shared, {})

Busy(t) == \E o \in Observers : job[t].due[o] # {}

\* Some thread has yet to call observer o with field f.
Due(o, f) == \E t \in Threads : f \in job[t].due[o]

\* What each thread reports, and to whom.
Reports(t) == IF t = SSE THEN UpdateFields ELSE IF t = Poller THEN {"hosts"} ELSE Fields
Reached(t) == IF t \in Observers THEN {t} ELSE Observers

IsJob(t, j) ==
  /\ j = [fields |-> j.fields, view |-> j.view, due |-> j.due]
  /\ j.fields \subseteq Reports(t)
  /\ j.view = [f \in j.fields |-> j.view[f]]
  /\ \A f \in j.fields : j.view[f] \in Values[f]
  /\ j.due \in [Observers -> SUBSET j.fields]
  /\ \A o \in Observers : j.due[o] # {} => o \in Reached(t)

ViewTypeOK ==
  /\ stream \in {"connecting", "reading", "pausing"}
  /\ shared = [f \in Fields |-> shared[f]]
  /\ \A f \in Fields : shared[f] \in Values[f]
  /\ observers \subseteq Observers
  /\ job = [t \in Threads |-> job[t]]
  /\ \A t \in Threads : IsJob(t, job[t])
  /\ seen = [o \in Observers |-> [f \in Fields |-> seen[o][f]]]
  /\ \A o \in Observers, f \in Fields : seen[o][f] \in Values[f] \cup {Unseen}
  /\ overtaken \subseteq Observers \X Fields

-----------------------------------------------------------------------------
\* Mutant: a list is taken for unchanged when its summary is.
ChangesOfSummary(new) ==
  {f \in UpdateFields : IF f = "sessions" THEN new.summary # shared.summary
                                          ELSE new[f] # shared[f]}

Changes(new) == {f \in UpdateFields : new[f] # shared[f]}

\* Observers that hear of these fields before what their own subscribe has yet
\* to say; the others are up to date with them again.
Overtakes(fields) ==
  overtaken' = (overtaken \ (observers \X fields))
                 \cup ({o \in observers : Busy(o)} \X fields)

\* Bridge::on_update: compare, store and copy under the lock, then call.
OnUpdate(sessions, connected) ==
  LET new == [shared EXCEPT
                !.sessions = sessions,
                !.connection = IF connected THEN "Connected" ELSE "Disconnected",
                !.summary = SummaryOf(sessions)]
  IN  /\ shared' = new
      /\ job' = [job EXCEPT ![SSE] = Job(Changes(new), new, observers)]
      /\ Overtakes(Changes(new))
      /\ UNCHANGED <<observers, seen>>

\* connect_and_stream's request is answered, whatever the status.
Connect ==
  /\ stream = "connecting" /\ ~Busy(SSE)
  /\ stream' = "reading"
  /\ UNCHANGED <<shared, observers, job, seen, overtaken>>

\* A data line that parses; any other line changes nothing.
ReceiveList(list) ==
  /\ stream = "reading" /\ ~Busy(SSE)
  /\ OnUpdate(list, TRUE)
  /\ UNCHANGED stream

\* The stream ends without an error: the thread reconnects at once.
EndOfStream ==
  /\ stream = "reading" /\ ~Busy(SSE)
  /\ stream' = "connecting"
  /\ OnUpdate(shared.sessions, FALSE)

\* The request or a read fails: one second passes before anybody is told.
Fail ==
  /\ stream \in {"connecting", "reading"} /\ ~Busy(SSE)
  /\ stream' = "pausing"
  /\ UNCHANGED <<shared, observers, job, seen, overtaken>>

\* Mutant: only a stream that ended is marked as disconnected.
RetryUnmarked ==
  /\ stream = "pausing" /\ ~Busy(SSE)
  /\ stream' = "connecting"
  /\ UNCHANGED <<shared, observers, job, seen, overtaken>>

\* The pause is over.
Retry ==
  /\ stream = "pausing" /\ ~Busy(SSE)
  /\ stream' = "connecting"
  /\ OnUpdate(shared.sessions, FALSE)

\* Mutant: the poll only notifies when the answer has changed.
PollOnChange(hosts) ==
  /\ ~Busy(Poller)
  /\ shared' = [shared EXCEPT !.hosts = hosts]
  /\ IF hosts = shared.hosts THEN UNCHANGED <<job, overtaken>>
     ELSE /\ job' = [job EXCEPT ![Poller] = Job({"hosts"}, shared', observers)]
          /\ Overtakes({"hosts"})
  /\ UNCHANGED <<stream, observers, seen>>

\* One successful round of the poller; a failed one changes nothing.
Poll(hosts) ==
  /\ ~Busy(Poller)
  /\ shared' = [shared EXCEPT !.hosts = hosts]
  /\ job' = [job EXCEPT ![Poller] = Job({"hosts"}, shared', observers)]
  /\ Overtakes({"hosts"})
  /\ UNCHANGED <<stream, observers, seen>>

\* CoreHandle::subscribe up to the release of the lock.
Subscribe(o) ==
  /\ o \notin observers /\ ~Busy(o)
  /\ observers' = observers \cup {o}
  /\ job' = [job EXCEPT ![o] = Job(Fields, shared, {o})]
  /\ UNCHANGED <<stream, shared, seen, overtaken>>

\* The next callback of a thread: the fields in their order, and all that one
\* observer is due before the next observer, in any order.
Call(t, o, f) ==
  LET rest == [job[t] EXCEPT !.due[o] = @ \ {f}]
  IN  /\ f \in job[t].due[o]
      /\ \A g \in job[t].due[o] : Position[f] <= Position[g]
      /\ \A p \in Observers \ {o} : job[t].due[p] \in {{}, job[t].fields}
      /\ seen' = [seen EXCEPT ![o][f] = job[t].view[f]]
      /\ job' = [job EXCEPT ![t] =
                   IF \A p \in Observers : rest.due[p] = {} THEN NoJob ELSE rest]
      /\ UNCHANGED <<stream, shared, observers, overtaken>>

\* The SubscriptionHandle that subscribe returned is dropped.
DropSubscription(o) ==
  /\ o \in observers /\ ~Busy(o)
  /\ observers' = observers \ {o}
  /\ overtaken' = overtaken \ ({o} \X Fields)
  /\ UNCHANGED <<stream, shared, job, seen>>

ViewInit ==
  /\ stream = "connecting"
  /\ shared = [sessions |-> NoSessions, connection |-> "Connecting",
               summary |-> SummaryOf(NoSessions), hosts |-> NoHosts]
  /\ observers = {}
  /\ job = [t \in Threads |-> NoJob]
  /\ seen = [o \in Observers |-> [f \in Fields |-> Unseen]]
  /\ overtaken = {}

ViewNext ==
  \/ Connect
  \/ \E list \in Lists : ReceiveList(list)
  \/ EndOfStream
  \/ Fail
  \/ Retry
  \/ \E hosts \in HostLists : Poll(hosts)
  \/ \E o \in Observers : Subscribe(o) \/ DropSubscription(o)
  \/ \E t \in Threads, o \in Observers, f \in Fields : Call(t, o, f)

ViewSpec == ViewInit /\ [][ViewNext]_viewVars

(***************************************************************************)
(* Callbacks are made (the trait asks them to be cheap and not to block),  *)
(* a request is answered or fails, a pause ends, and as long as the server *)
(* has nothing new on its hosts it repeats its answer now and then.        *)
(* A stream may stay open and silent for ever.                             *)
(***************************************************************************)
FairViewSpec ==
  /\ ViewSpec
  /\ \A t \in Threads : WF_viewVars(\E o \in Observers, f \in Fields : Call(t, o, f))
  /\ WF_viewVars(stream = "connecting" /\ (Connect \/ Fail))
  /\ WF_viewVars(Retry)
  /\ \A hosts \in HostLists : WF_viewVars(shared.hosts = hosts /\ Poll(hosts))

-----------------------------------------------------------------------------
(***************************************************************************)
(* A field that no thread has yet to call an observer with is shown as the *)
(* shared state has it, but for the fields that changed between its registration and  *)
(* its first callbacks, and for those only until they change again.  Its   *)
(* lists, its connection and its summary then also agree with each other,  *)
(* although each is reported only when it changes.                         *)
(***************************************************************************)
SettledObserversAgree ==
  \A o \in observers, f \in Fields :
    ~Due(o, f) /\ <<o, f>> \notin overtaken => seen[o][f] = shared[f]

(***************************************************************************)
(* Why the poll notifies whether or not the answer has changed: once the   *)
(* hosts stay the same, an observer that stays ends up with them, even if  *)
(* an older copy of its own subscribe reached it last.                     *)
(***************************************************************************)
HostsReachObservers ==
  \A o \in Observers, h \in HostLists :
    <>[](o \in observers /\ shared.hosts = h) => <>[](seen[o]["hosts"] = h)

(***************************************************************************)
(* A server that cannot be read any more is taken for disconnected in the  *)
(* end, whichever way the stream went: the error path marks it only after  *)
(* its pause, and an attempt to reconnect does not mark it at all.         *)
(***************************************************************************)
LossIsNoticed ==
  <>[](stream # "reading") => <>[](shared.connection = "Disconnected")

(***************************************************************************)
(* subscribe: "The observer is notified immediately with the current       *)
(* snapshot so subscribers don't need to poll" (view_model.rs): when no    *)
(* callback is on its way to an observer, what it was told is current.     *)
(***************************************************************************)
SubscribersNeedNotPoll ==
  \A o \in observers :
    (\A f \in Fields : ~Due(o, f)) => \A f \in Fields : seen[o][f] = shared[f]
=============================================================================
