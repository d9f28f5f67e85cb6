---------------------------- MODULE CodexSessions ----------------------------
(***************************************************************************)
(* The two writers of a Codex session's row, composed over the store: the  *)
(* hooks and the wrapper (crates/reporter: csm-reporter, csm-codex and the *)
(* run-state file between them) and the watcher's Codex source             *)
(* (crates/watcher/src/codex.rs, with its debounce).                       *)
(*                                                                         *)
(* One wrapped Codex process runs; other Codex processes of the host open  *)
(* and close threads next to it.  The holder of a thread's writer lock is  *)
(* the only thing the watcher sees of them.  Hooks are separate processes: *)
(* nothing makes them take turns, or finish before Codex does.             *)
(*                                                                         *)
(* The run-state file is a sequence of ids: fs::write truncates it in one  *)
(* step and writes from its start in another, so two writers can overlay   *)
(* each other (ids have one length).  Sessions are numbers, for the order  *)
(* of the BTreeSet that is written.                                        *)
(***************************************************************************)
EXTENDS SessionStore, Sequences, FiniteSets

CONSTANTS
  WatcherHost,  \* the hostname the watcher publishes under
  HookHost,     \* the hostname the hooks report, or NoHost
  HookProcs,    \* hook processes that can run at one time
  MaxFaults,    \* bound on lost requests, failing hooks and killed wrappers
  NoSnapshot    \* the watcher has no request on its way

ASSUME CodexAssumption ==
  /\ Sessions \subseteq Nat
  /\ "codex" \in Kinds
  /\ WatcherHost \in Hosts
  /\ HookHost \in Hosts \cup {NoHost}
  /\ MaxFaults \in Nat

VARIABLES
  holder,    \* who holds the writer lock of each thread
  codex,     \* the wrapped Codex process
  hook,      \* what each hook process is doing
  run_file,  \* the run-state file
  wrapper,   \* where csm-codex is
  to_end,    \* the ids csm-codex has still to end
  tracked,   \* the debounce of the Codex source
  snapshot,  \* the snapshot the watcher has sent, until the store applies it
  own,       \* history: the sessions the wrapped Codex's hooks were about
  faults     \* failures so far

codexVars == <<storeVars, holder, codex, hook, run_file, wrapper, to_end, tracked,
               snapshot, own, faults>>

Debounced == INSTANCE Debounce WITH SessionIds <- Sessions, Facts <- Entry

NoHook == [stage |-> "none"]

Open == {s \in Sessions : holder[s] # "nobody"}

Fault == faults < MaxFaults /\ faults' = faults + 1

-----------------------------------------------------------------------------
\* The Codex processes, which csm does not control.
OpenThread(s) ==
  /\ holder[s] = "nobody"
  /\ \E h \in {"wrapped", "other"} :
       /\ h = "wrapped" => codex = "running"
       /\ holder' = [holder EXCEPT ![s] = h]
  /\ UNCHANGED <<storeVars, codex, hook, run_file, wrapper, to_end, tracked, snapshot,
                 own, faults>>

CloseThread(s) ==
  /\ holder[s] # "nobody"
  /\ holder' = [holder EXCEPT ![s] = "nobody"]
  /\ UNCHANGED <<storeVars, codex, hook, run_file, wrapper, to_end, tracked, snapshot,
                 own, faults>>

\* However it exits, its locks are released.
CodexExits ==
  /\ codex = "running"
  /\ codex' = "exited"
  /\ holder' = [s \in Sessions |-> IF holder[s] = "wrapped" THEN "nobody" ELSE holder[s]]
  /\ UNCHANGED <<storeVars, hook, run_file, wrapper, to_end, tracked, snapshot,
                 own, faults>>

\* Mutant: every hook of the host has the run id.
StartHookWithRunId(p, s) ==
  /\ hook[p] = NoHook
  /\ s \in Open
  /\ hook' = [hook EXCEPT ![p] = [stage |-> "read", session |-> s, seen |-> {}]]
  /\ own' = IF holder[s] = "wrapped" THEN own \cup {s} ELSE own
  /\ UNCHANGED <<storeVars, holder, codex, run_file, wrapper, to_end, tracked, snapshot,
                 faults>>

\* Only the hooks of the wrapped process inherit the run id.
StartHook(p, s) ==
  /\ hook[p] = NoHook
  /\ s \in Open
  /\ LET wrapped == holder[s] = "wrapped"
     IN  /\ hook' = [hook EXCEPT ![p] = [stage |-> IF wrapped THEN "read" ELSE "post",
                                        session |-> s, seen |-> {}]]
         /\ own' = IF wrapped THEN own \cup {s} ELSE own
  /\ UNCHANGED <<storeVars, holder, codex, run_file, wrapper, to_end, tracked, snapshot,
                 faults>>

-----------------------------------------------------------------------------
\* read_sessions: what the file holds now.
Recorded == {run_file[i] : i \in 1..Len(run_file)}

\* record_session writes only when the id is new.
ReadRun(p) ==
  /\ hook[p].stage = "read"
  /\ hook' = [hook EXCEPT ![p].seen = Recorded,
                          ![p].stage = IF hook[p].session \in Recorded
                                       THEN "post" ELSE "truncate"]
  /\ UNCHANGED <<storeVars, holder, codex, run_file, wrapper, to_end, tracked, snapshot,
                 own, faults>>

TruncateRun(p) ==
  /\ hook[p].stage = "truncate"
  /\ run_file' = <<>>
  /\ hook' = [hook EXCEPT ![p].stage = "write"]
  /\ UNCHANGED <<storeVars, holder, codex, wrapper, to_end, tracked, snapshot,
                 own, faults>>

\* The iteration order of a BTreeSet: there is one such sequence.
Ascending(ids) ==
  {seq \in [1..Cardinality(ids) -> ids] :
     \A i, j \in 1..Cardinality(ids) : i < j => seq[i] < seq[j]}

\* The ids in order, over whatever another writer has put there since.
WriteRun(p) ==
  /\ hook[p].stage = "write"
  /\ \E ids \in Ascending(hook[p].seen \cup {hook[p].session}) :
       run_file' = ids \o SubSeq(run_file, Len(ids) + 1, Len(run_file))
  /\ hook' = [hook EXCEPT ![p].stage = "post"]
  /\ UNCHANGED <<storeVars, holder, codex, wrapper, to_end, tracked, snapshot,
                 own, faults>>

\* A hook that cannot read, truncate or write the file reports all the same;
\* one that is killed reports nothing.
HookFails(p) ==
  /\ hook[p].stage \in {"read", "truncate", "write"}
  /\ Fault
  /\ hook' \in {[hook EXCEPT ![p].stage = "post"], [hook EXCEPT ![p] = NoHook]}
  /\ UNCHANGED <<storeVars, holder, codex, run_file, wrapper, to_end, tracked, snapshot,
                 own>>

\* The report reaches the store, or is lost; the hook ends either way.
PostHook(p) ==
  /\ hook[p].stage = "post"
  /\ \/ /\ \E status \in Statuses :
             UpsertSession([session_id |-> hook[p].session, hostname |-> HookHost,
                            agent_kind |-> "codex", status |-> status])
        /\ UNCHANGED faults
     \/ Fault /\ UNCHANGED sessions
  /\ hook' = [hook EXCEPT ![p] = NoHook]
  /\ UNCHANGED <<host_status, now, holder, codex, run_file, wrapper, to_end, tracked,
                 snapshot, own>>

-----------------------------------------------------------------------------
\* end_recorded_sessions, once child.wait has returned.
StartEnding ==
  /\ wrapper = "waiting"
  /\ codex = "exited"
  /\ wrapper' = "ending"
  /\ to_end' = Recorded
  /\ UNCHANGED <<storeVars, holder, codex, hook, run_file, tracked, snapshot,
                 own, faults>>

\* One id: ended, not found (which counts as ended), or given up after three tries.
EndOne(s) ==
  /\ wrapper = "ending"
  /\ s \in to_end
  /\ \/ EndSession(s) /\ UNCHANGED faults
     \/ sessions[s] = NoRow /\ UNCHANGED <<sessions, faults>>
     \/ Fault /\ UNCHANGED sessions
  /\ to_end' = to_end \ {s}
  /\ UNCHANGED <<host_status, now, holder, codex, hook, run_file, wrapper, tracked,
                 snapshot, own>>

\* The file goes even if an end failed.
RemoveRun ==
  /\ wrapper = "ending"
  /\ to_end = {}
  /\ wrapper' = "done"
  /\ run_file' = <<>>
  /\ UNCHANGED <<storeVars, holder, codex, hook, to_end, tracked, snapshot,
                 own, faults>>

\* A wrapper that is killed, or cannot read the file, ends nothing.
WrapperKilled ==
  /\ wrapper # "done"
  /\ Fault
  /\ wrapper' = "done"
  /\ to_end' = {}
  /\ UNCHANGED <<storeVars, holder, codex, hook, run_file, tracked, snapshot, own>>

-----------------------------------------------------------------------------
\* Mutant: the watcher looks once and never forgets.
SweepOnlyAdds ==
  /\ snapshot = NoSnapshot
  /\ \E fresh \in [Open -> Entry] :
       tracked' = [s \in DOMAIN tracked \cup Open |->
                     IF s \in Open THEN [session |-> fresh[s], missing_streak |-> 0]
                     ELSE tracked[s]]
  /\ snapshot' = Debounced!Published(tracked')
  /\ UNCHANGED <<storeVars, holder, codex, hook, run_file, wrapper, to_end, own, faults>>

\* A thread is live while its lock is held; the debounce decides what is sent.
Sweep ==
  /\ snapshot = NoSnapshot
  /\ \E fresh \in [Open -> Entry] : tracked' = Debounced!Apply(tracked, fresh)
  /\ snapshot' = Debounced!Published(tracked')
  /\ UNCHANGED <<storeVars, holder, codex, hook, run_file, wrapper, to_end, own, faults>>

\* The snapshot reaches the store, or is lost.
Deliver ==
  /\ snapshot # NoSnapshot
  /\ \/ /\ ApplySnapshot(WatcherHost, "codex", snapshot)
        /\ RecordHostSeen(WatcherHost, "codex")
        /\ UNCHANGED faults
     \/ Fault /\ UNCHANGED <<sessions, host_status>>
  /\ snapshot' = NoSnapshot
  /\ UNCHANGED <<now, holder, codex, hook, run_file, wrapper, to_end, tracked, own>>

-----------------------------------------------------------------------------
CodexInit ==
  /\ StoreInit
  /\ holder = [s \in Sessions |-> "nobody"]
  /\ codex = "running"
  /\ hook = [p \in HookProcs |-> NoHook]
  /\ run_file = <<>>
  /\ wrapper = "waiting"
  /\ to_end = {}
  /\ tracked = Debounced!NoFind
  /\ snapshot = NoSnapshot
  /\ own = {}
  /\ faults = 0

HookStep(p) == ReadRun(p) \/ TruncateRun(p) \/ WriteRun(p) \/ PostHook(p)

WrapperStep == StartEnding \/ (\E s \in Sessions : EndOne(s)) \/ RemoveRun

CodexNext ==
  \/ \E s \in Sessions : OpenThread(s) \/ CloseThread(s)
  \/ CodexExits
  \/ \E p \in HookProcs : HookStep(p) \/ HookFails(p)
  \/ \E p \in HookProcs, s \in Sessions : StartHook(p, s)
  \/ WrapperStep
  \/ WrapperKilled
  \/ Sweep
  \/ Deliver

CodexSpec == CodexInit /\ [][CodexNext]_codexVars

\* Hooks and the wrapper run to their end, and the watcher keeps polling.
FairCodexSpec ==
  /\ CodexSpec
  /\ \A p \in HookProcs : WF_codexVars(HookStep(p))
  /\ WF_codexVars(WrapperStep)
  /\ WF_codexVars(Sweep)
  /\ WF_codexVars(Deliver)

-----------------------------------------------------------------------------
(***************************************************************************)
(* "To end sessions reliably when Codex exits, launch Codex through        *)
(* csm-codex" (README.md:232): when the hooks of a Codex have run, and     *)
(* csm-codex has yet to read the run-state file, it holds every session    *)
(* they were about.  Two hooks that overlap lose the id of one of them.    *)
(***************************************************************************)
ReportedSessionsAreRecorded ==
  wrapper = "waiting" /\ (\A p \in HookProcs : hook[p] = NoHook) => own \subseteq Recorded

(***************************************************************************)
(* csm-codex ends only sessions of the Codex it wraps, never those of      *)
(* other Codex processes on the host: however its hooks overlap at the     *)
(* run-state file, overlay each other, fail or outlive Codex, no id of     *)
(* another run comes into it (codex_run_state.rs, csm-codex.rs:211).       *)
(***************************************************************************)
OnlyOwnSessionsAreEnded == Recorded \cup to_end \subseteq own

(***************************************************************************)
(* A session whose thread stays closed is in the end not listed, whatever  *)
(* hooks of it were still running, whatever the debounce republished and   *)
(* even if nobody ended it: the Codex snapshots are a backstop.            *)
(***************************************************************************)
ClosedSessionsEnd ==
  \A s \in Sessions : <>[](s \notin Open) => <>[]~Active(sessions[s])

(***************************************************************************)
(* A session whose thread stays open is in the end listed, even if the     *)
(* wrapper of an earlier Codex that had it open ends it meanwhile.         *)
(***************************************************************************)
OpenSessionsAreListed ==
  \A s \in Sessions : <>[](s \in Open) => <>[]Active(sessions[s])
=============================================================================
