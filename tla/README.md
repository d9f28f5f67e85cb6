# claude-session-monitor in TLA+

This directory is a verification development of `claude-session-monitor`: TLA+
modules translated from its source, TLC configurations that check them on small
instances, and TLAPS proofs for instances of any size. Paths below are relative
to the repository (`crates/...`); `PROJECT.json` maps every definition to the
lines it models.

## 1. The system

Coding agents (Claude Code, Codex, pi) run in terminals on several hosts. On
each host `csm-watcher` polls what the agents leave on disk and publishes, per
agent kind, the complete list of live sessions; Codex hooks also post single
sessions. `csm-server` keeps the sessions in SQLite and streams the active ones
to terminal, desktop, mobile and web clients.

```
 agents' files --sweep--> csm-watcher --POST snapshot--+
 Codex hooks --csm-reporter --POST session-------------+--> csm-server --SSE--> clients
 csm-codex (wrapper) --POST end------------------------+      (SQLite)   <--DELETE--
        ^ run-state file written by the hooks
```

### Components, their state and what makes them correct

| Component | State | Operations | Correct when |
|---|---|---|---|
| Session store (`crates/server/src/store.rs`) | tables `sessions`, `host_status` | upsert, end, delete, apply_snapshot, record_host_seen, lists | a snapshot reconciles its (host, kind) scope exactly, leaves the rest alone, and knows whether it changed anything |
| Server handlers and streams (`crates/server/src/lib.rs`) | the store behind one mutex, a broadcast channel of 64, one stream per client | the routes; `get_events` | every committed change reaches every client, the newest last |
| Watcher daemon (`crates/watcher/src/main.rs`, `debounce.rs`, `publish.rs`) | per source a debounce and caches; backoff; shutdown flag | `run_cycle` over the sources, wait, signals | no session is ended because of one bad sweep; a stable host is in the end reported exactly; the daemon neither spins nor hangs |
| Codex hooks and wrapper (`crates/reporter`) | the run-state file | record, post; wait, end all recorded, remove | sessions of an exited Codex end; those of a running one do not |
| Codex source (`crates/watcher/src/codex.rs`) | none of its own; Codex's writer locks, state database and rollouts | homes of the running Codex processes, one sweep per home | a thread is listed while its lock is held and can be read, once, and with what can be known of it |
| Claude source (`sweep.rs`, `registry.rs`, `discovery.rs`) | a cached enumeration, warning sets | enumerate, read registries, judge liveness | a recycled pid revives nothing; an environment or registry that cannot be read fails the sweep |
| Pi source and extension (`pi.rs`, `contrib/pi`) | one claim file per process | write, rename, remove; sweep | a claim left behind is no session |
| Commands, git, tmux (`command.rs`, `git.rs`, `tmux.rs`) | a reader thread per command; a cache with a time to live | run with timeout, kill, reap; look up | a hung child costs one timeout and leaves nothing behind |
| Client core (`crates/common/src/sse.rs`, `view_model.rs`) | sessions, connection, hosts, observers | SSE thread, poll thread, subscribe | observers end with the newest state |
| Host staleness (`crates/common/src/api.rs`, `presentation.rs`) | `last_seen_at` per host and kind | compare with 30 s | a working watcher is not called silent, a dead one is |
| Terminal client (`crates/tui`) | list, selection, viewport, dialog | keys, lists, sizes, frames | a key acts on what is drawn, the selection is in view |
| Activation (`crates/common/src/activation.rs`, `core-ffi`) | none; tmux's clients and panes | route, switch, detach into ssh | only the client last used is moved, to the pane or, refused that, into its session; failure is reported after both were refused |
| Desktop client (`crates/gui`) | a snapshot under a mutex, window flags | callbacks, frames, menu, shortcut | a frame takes back nothing a callback said of the sessions or the connection |
| Web client; Swift applications; configuration, telemetry; service units; test harnesses | - | - | not modelled, see section 6 |

### What is hard in this code

Handlers run on several threads and send after they have unlocked; a client
subscribes after it has been given its first list; a stream may lag; statements
can fail after a commit; requests can time out and still be carried out later;
the watcher can die at any point and come back with an empty debounce; one loop
serves three sources that fail separately; hooks, wrapper and watcher write the
same row without knowing of each other; the run-state file is rewritten in
place; in the clients, several threads call the same observer after releasing
the lock they copied under. On the host, processes start, exit and pass on their
pids while a sweep walks the process table, a cache of it and their files; a
command can hang, fork and outlive its kill; `ps` prints a command line and an
environment without saying where an argument ends. In the clients a list can
change between the frame a user looks at and the key the user presses.
`PROJECT.json` lists each such hazard at its line with the properties that cover
it.

## 2. The modules

| Module | Models | Notes |
|---|---|---|
| `SessionStore` | the store, one atomic action per operation | base of the two compositions below |
| `Server` (extends `SessionStore`) | handlers split at the unlock, channel, streams, restarts, database errors | implements `LatestChannel` |
| `LatestChannel` | abstract: a value announced becomes, in that step, the newest value due to every open client | refinement target |
| `Debounce` | the pure operators of `debounce.rs` | used by the next two |
| `Watcher` (extends `Debounce`) | `run_daemon`, `run_cycle`, `Backoff`, signals, restarts, requests and their late arrival | |
| `CodexSessions` (extends `SessionStore`, instantiates `Debounce`) | hooks, run-state file, `csm-codex`, the Codex source | |
| `ViewModel` | the client core: SSE thread, host poller, observers that subscribe and leave | stands alone; its server sends any list |
| `Discovery` | recognised processes, their directories, the cache's rules; operators only | used by `Registry` |
| `Registry` (extends `Discovery`) | a host's processes and files, and a sweep of Claude Code's or pi's registries | |
| `CodexSource` | Codex processes, writer locks, what is on record of a thread, and a sweep of their homes | refines what `CodexSessions` takes as one step |
| `ProcessLines` | what `ps` prints of a process and what is read from it | operators, and one line read per behaviour |
| `Commands` | `command::run` of one child: pipe, reader thread, polls, kill, reap | |
| `GitCache` (extends `Commands`) | the cache of git lookups and the commands of a miss | |
| `Presentation` | the order of sessions, staleness, fading; operators | shared by the clients |
| `Terminal` (extends `Presentation`) | the loop of the terminal client, its keys, its frames | |
| `Desktop` (extends `Presentation`) | the observer and the frames of the desktop client | |
| `Activation` | the tmux commands of an activation, with tmux changing in between | |
| `Heartbeats` (extends `Presentation`) | a watcher's heartbeats and a client's polls, in seconds | |
| `Layout` | the widths of rows, cards, header and dialog | one row drawn per behaviour |
| `StoreProofs`, `ServerProofs`, `WatcherProofs`, `CodexProofs`, `SourceProofs`, `CommandProofs`, `ViewModelProofs`, `ClientProofs` | theorems | section 5; the sources' and the clients' modules have one module of proofs each |
| `MC*` | small instances | section 3 |

`MCWatcher`, `MCSources` and `MCClients` put modules side by side that share no
state: a variable `subject` says which of them a behaviour is about and the others
keep their first state, so the state spaces add up and do not multiply. In
`MCWatcher`, which has fairness, the part that does not run is at rest in a state
that owes no step (a watcher that has stopped; no lookup, and every age grown
out), so that the fairness of each part holds in the behaviours of the other.

### How they correspond to the code

**SessionStore.** `sessions` maps an id to its row or `NoRow`; `status` stands
for all columns that a report and a snapshot both write, `name` for the one only
a snapshot writes. `UpsertAll`, `Absent` and `Reconcile` are the upsert loop,
the reaping query with the ids it yields, and both loops in their order;
`SnapshotChanges` is the returned flag. Each operation holds the server's mutex,
and `apply_snapshot` runs in a transaction, so each is one step. A snapshot's
list of sessions is a function from ids, so a list that names an id twice is not
represented: `debounce.apply`, the only producer, returns distinct ids.
`Tick` lets `Utc::now` advance between operations; two of one instant are
covered, a clock that runs backwards is not.

**Server.** A handler is two actions: the locked part (write and list, result
in `outbox[w]`) and the send. `w` ranges over worker threads, because no handler
awaits anything between the two. `GetEvents` and `Subscribe` are the two halves
of `get_events`. `ring[c]` is what a receiver has not read, bounded by the
channel: pushing into a full one drops the oldest, which is a receiver's
`Lagged` error filtered out. `Fault` fails the statement at a point of
`FaultPoints` after a committed write. A failure before the write changes
nothing and is not an action; a poisoned mutex is not modelled, since no handler
panics while it holds it.

**Watcher.** One step per point where the loop can be overtaken: begin, sweep
(with the debounce), the check of the flag before a publish, the answer, the end
of the cycle, the wait. The server is reduced to the last snapshot applied for
each kind, which is what `SnapshotReconciles` says a snapshot makes of its
scope. A failed publish was refused, or carried out with its answer lost, or is
still under way (`late`, one at a time) and arrives at any later moment or
never. `Crash` is a second signal, a panic or a kill; `Respawn` after a crash is
the service manager's. `recent` is a history variable: the last two successful
sweeps of this process.

**CodexSessions.** `holder` says which process holds a thread's writer lock, the
only thing a sweep sees. A hook of the wrapped Codex goes through read,
truncate, write (two writers overlay each other's bytes) and post, and may
outlive Codex; it can fail at each of them, and then posts all the same, or be
killed (`HookFails`). Hooks of other Codex processes only post. `own` is a
history variable: the sessions that the hooks of the run were about. The wrapper reads the
file after `wait`, ends each id or gives up, and removes the file; it can be
killed. The Codex source sweeps, debounces and sends; the request reaches the
store later or never.

**ViewModel.** The SSE thread, the poller and each subscribing thread take copies
in one locked step and make their callbacks afterwards, one step each: `job[t]`
is what thread `t` has yet to call, in the code's order within an observer
(`Position`) and any order of observers (a `HashMap`). `SseState` is only written
by the SSE thread just before `on_update` and read back by it, so its sessions
are those of `shared` and the two locks are one step. A list is the status of
each of its sessions, which is what the summary counts; `seen` is what the
observer was last called with. `overtaken` is a history variable: the fields of
an observer that changed while its own `subscribe` was still to call it. An
observer has one subscription at a time. The retain cycle that keeps the threads
alive for ever is in the source's own comment; no thread ends here.

**Discovery and Registry.** The process table maps a pid to a program (whose
CLI it is, what its environment says, whether it can be read) and a start time.
Programs start, exit, give their pid back and write, half write or remove their
file at any moment; that is also the pi extension, whose queue of writes can put
a claim back after `session_shutdown` removed it. A sweep is an enumeration
(`Discover`, or `DiscoverCached` within the cache's time to live), one step per
directory read, and `Translate`, which is the rest of `sweep::sweep`. An
enumeration walks the table while it changes: it may miss what starts meanwhile
and may fail at any time. `Unreadable` is the refusal of both platforms;
`Opaque` is the pi that hides its environment from `ps` on macOS, where the
source goes on with the default directory (`pi.rs:184`). A program that has no
home in its environment is at home where its user is (`HomeOf`: `os.homedir` in
the extension, `homedir` of the watcher). `Overrides` are the two
variables that replace discovery. A value of a variable is a directory or one of
the shapes the code tells apart (unset, blank, relative, tilde).

Where a program writes and what the watcher makes of its environment are two
definitions. `OwnDir` is the program's side: `agentDir` of the extension, for
which white space is a path and a relative path is below the working directory.
What Claude Code makes of a value that is not absolute is not in this repository
(`discovery.rs:523` calls its own fallback not correct either), so such a program
writes wherever it likes (`below`). `ResolveProcessConfigDir` and `PiDir` are the
watcher's side. It needs the working directory of a pi with a relative value
(`WantsCwd`): any of these lookups can fail without failing the sweep, and the
watcher then goes on with the default directory. `lost` holds the pids of the
current sweep it happened to, and `SettledSessionsAreFound` is about the sessions
of `Due`: whose environment names a directory (`NamesDir`) and whose working
directory, where it takes one, was not lost. That a pi does not change its
working directory between its start and the lookup is assumed.

A pane is named after the process it was seen in, so that a target says whose it
is. `SightedAt` is when the processes were seen that a sweep knows of; a process
that started later can have the pid of one of them. `steady` and `warnings` are
history variables; `warnings` counts those about a process that was sighted.

**CodexSource.** `holder` is as in `CodexSessions`, now with the home a Codex
keeps its locks in and what its environment says of it. `SweepHome` reads the
columns of each row one by one, any of which may be unreadable (`Columns`, a
database that is busy), and the rollout. It leaves out any of the held locks:
one whose directory entry, open or probe fails is skipped alone. `LocksUnreadable`
is the branch that reports nothing for a home. `unread` remembers both, by home
and thread, and `OpenThreadsAreFound` excepts exactly these, and the threads whose
source could not be read.

**ProcessLines.** A word is the path and name facts that the recognition asks
for. A process has a list of arguments and one of variables; such a list is its
words and, for each of its pieces, where the last word of the piece is, because
`ps` does not quote: `PsWords` keeps the words and loses the ends,
`ParsePsOutput` and `Value` look for them again, and on Linux `ProcWords` has
each argument whole. A uid of `UidHalf` (2^31) or more is printed as a negative
number.

**Commands and GitCache.** `child`, `helpers` (in the group) and escaped helpers
hold the pipe (`holders`); the reader thread drains it while `run` polls. A tick
is long for threads: time passes when nothing is left to write or read
(`RunIdles`). A lookup that misses runs its commands one after the other; what a
branch command prints is what was checked out when it ended.

**Terminal.** A turn of the loop is: apply events (`ReceiveSessions`, with its
reconciliation, filter and viewport, and `ReceiveConnection`), take the size,
draw (`frame` is what the user sees), and handle one key, `NoKeyPressed` if none
comes in time. Each key is an action of its own and includes the viewport's move.
`RowOf` counts the border lines of the waiting section, as `FlatLines` lays them
out. Times, colours and words are left out.

**Desktop.** A frame is: the dialog, the events of the menu, the shortcut, the
copy under the lock, the rows with at most one click, the write-back. Callbacks
come between any two of them. The menu ticks an item of its own accord and sends
an event (`TickItem`); that is on the thread that draws, so between two frames.
`ticks` holds the items with an event to be handled. `told` is what the window
system was told of the window.

**Activation.** Each tmux command is one step, and clients, panes and sessions
change between two of them. `run_tmux` fails when tmux cannot be started or
returns an error, whatever its reason: `Refuses` is always possible, also with
the client, the pane and the session there, and `refused` remembers it. A command
that fails has moved nothing. A session after `-t` is the one of that name, or
else the only one whose name begins with it (`Named`, `BeginsWith`); that tmux
also takes patterns there, that a renumbered window makes an old index mean
another pane, and that a second tmux server lists none of these (`tmux.rs:27`),
are outside the model.

**Heartbeats.** Seconds pass one by one. The watcher publishes its kinds in
turn, waits, and backs off after a cycle with a failed publish; a client polls,
judges and draws. The sweeps and the publishes of a cycle together take up to
`CycleWork` seconds, before any of its beats (`Resumes`, `spent`). `MaxSlips`
bounds what goes wrong beyond that: dropped beats, slow or failed polls, and
hiccups, which are a host that is suspended or a command that takes its timeout
(1.5 s for each lookup of git in `git.rs:47`, 5 s for `ps`). The ages of the
server are judged by the client's clock in the code; an offset between the two
adds to every age and is left out.

**Layout.** Lengths in characters, as the code counts them.

## 3. The runs

| Run | Instance | Shows |
|---|---|---|
| `store` | 2 ids, 2 hosts, 2 kinds, 2 instants; ids and hosts symmetric | the three contracts of `apply_snapshot` in every reachable table, for every next snapshot |
| `server_one_worker` | 1 session with 2 statuses, 1 client, channel of 2, 1 worker, 2 instants | screens match the store when handlers do not overlap |
| `server_two_workers` | 2 workers, all three fault points, 1 error | the streams still implement `LatestChannel` |
| `server_reordered` (violation) | 2 workers, no error | a client keeps an outdated list |
| `server_lost_broadcast` (violation) | 1 worker, 1 heartbeat error | a committed change is never announced |
| `watcher` | 2 sources, Claude's without sessions and free to fail for ever, Codex's with 1 id of 2 facts, 2 faults, 1 restart; a pipe of 1, 2 outputs, a timeout of 1, a time to live of 2, 1 directory | the debounce, the waits, recovery and shutdown; a command's end, and what a lookup answers |
| `codex` | 2 threads, one hook at a time, 1 fault | what hooks, wrapper and watcher make of a row |
| `codex_overlap` (violation) | 2 threads, 2 hooks, no fault | two hooks lose a session's id |
| `view_model` | 1 session with 2 statuses, 2 answers for the hosts, 1 observer | what an observer shows, and how long it can be wrong |
| `view_model_subscribe` (violation) | 2 observers | a first callback overwrites a newer one |
| `sources` | 2 pids (symmetric), 2 directories, 5 programs, Linux or macOS (macOS with pi and no override: for Claude the platform changes nothing, and a pi with an override is tried on Linux only), the programs of the agent whose registry is swept and, for pi, at most one Claude Code, and with an override one process at a time, since no directory and no warning then depends on another; 1 thread, 4 kinds of Codex; command lines of up to 4 words of 8 kinds, in full for a uid above the half, with one argument for those below | what the three sources report, and what is read from `ps` |
| `clients` | 3 sessions and 5 lists, 2 sizes; 2 tmux clients, 3 panes, 2 sessions of which one's name begins with the other's; the two flags of the window that are treated in their own way (`transparent` is not sent, `click_through` has a shortcut); 5 widths and 4 lengths; 2 kinds, 1 slip, the code's own seconds, 1 s of work per cycle | what the clients show and act on, and who is shown as silent |

Why the bounds are enough. Rows of the store only interact through their id,
host and kind: two of each let two scopes meet on an id, and an id stay outside
a scope. A channel of two overflows with three sends, and a stream's state
is no more than its ring and screen; one client is enough because streams
share nothing but the store. One id per source is enough for the debounce, which
treats ids separately; two facts tell a frozen session from a fresh one. The
numbers of the waits (interval 2, minimum 1, cap 5) make the doubling pass
through 2, 4 and the cap, which is no power of two. Two threads let one session
be forgotten while another is recorded. The liveness of `codex` is checked with
one hook at a time, two being out of TLC's reach: what an overlap does to the
run-state file (an id missing, a file that is empty or mixed) a hook that fails
or is killed does as well, and neither property depends on what is in it.
`OnlyOwnSessionsAreEnded` of the same run is a theorem for any number of hooks
(`OnlyOwnAreEnded`). A busy and an idle session make a list
change with and without its summary; observers share nothing but the list of
callbacks of one thread, and `ViewModelProofs` covers any number of them. `MaxFaults`, `MaxRestarts` and
`MaxTime` bound failures, new processes and the clock; they are constants of the
modules and the proofs hold for all their values.

For the sources: two pids let one be reused while the other stays, two directories
let a session be in the wrong one, and times are such that a cache goes stale
within a behaviour and a pid cannot be reused within the tolerance
(`PROC_START_TOLERANCE_SECS`, `ReuseGap`), but can be while a cache or a sweep
still has its former process; a `UidHalf` of 4 stands for 2^31, which
the proofs cover. Two processes of one pid with start
times closer than that are one process to the code, which is what `registry.rs`
says of it. For the commands: an output longer than the pipe has to be read
before its writer can end. For the terminal: a list with and without waiting
sessions, lists that lose, move and reorder sessions, and windows where a
session is one line and where it is four. `Heartbeats` has the code's own
numbers and one slip (`OneSlipIsNotSilence` has any numbers within `Margins`).
Of the margins `Interval + 2 * CycleWork + 2 * PollInterval + PollTimeout` is the
tightest: 27 s of 30 s with the defaults and cycles that take no time, 29 s with
cycles of one second. With cycles of two seconds, or a `--interval` of 5 s, one
failed poll makes a watcher that works look silent; TLC finds it with
`CycleWork = 2`. Two slips in a row, or a source that keeps failing so that each
cycle waits `MAX_BACKOFF`, reach the threshold too. That is the limit of the
design, and `StalenessIsTrue` states what it does promise.

The runs `sources` and `clients` turn deadlock checking off: a command line is read
once, the clock of the sources is bounded, a terminal can be closed, and one row is
drawn. The others check it.

### Fairness

* `FairServerSpec`: a worker that has unlocked goes on to send (no await, no
  lock in between); a stream with something to deliver delivers it. Requests,
  disconnections and restarts need not happen.
* `WatcherFairness`: the loop takes its next step (commands and requests have
  timeouts), and a process that crashed is started again
  (`contrib/systemd`: `Restart=on-failure`, `contrib/launchd`: `KeepAlive`).
* `GitCacheFairness`: time passes, threads of `run` are scheduled, and a lookup
  goes on with its commands. The child owes nothing: it may never end, write or
  close its pipe. `LookupsEnd` therefore has one exception, `HeldOpen`: a process
  that `run` cannot reach holds the pipe. This is one that has left the group, or
  one left behind by a child that ended by itself: `join_reader` waits for it
  without a timeout, so a command that succeeds with a background helper on its
  standard output does block the sweep, although `command.rs:6` promises that a
  hung child never stalls one. The fairness of the watcher assumes that no
  command does this.
* `FairCodexSpec`: hooks and wrapper run to their end unless killed; the watcher
  keeps polling and its requests are answered or lost.
* `FairViewSpec`: callbacks are made (`SessionObserver` asks for cheap ones that
  do not block), a connection attempt ends, a pause ends, and as long as the
  answer for the hosts stays the same the poller goes on getting it. Nothing
  makes the server send a list or close a stream.

## 4. Where the code and its documentation differ

Each of these is a run that TLC must find violated.

* **`server_reordered`.** `view_model.rs` relies on sessions being broadcast
  "the instant they change". Lists are sent after the unlock, so with two worker
  threads the older can be announced last, and a subscription can miss a change
  between its first list and its receiver. It lasts until any row changes again.
* **`server_lost_broadcast`.** The comment in `post_snapshot` says that
  `record_host_seen` cannot affect the broadcast; its `?` skips it, and the
  watcher's retry changes nothing and so announces nothing.
* **`view_model_subscribe`.** `subscribe` promises an observer the current
  snapshot "so subscribers don't need to poll"; its first callbacks come after
  the lock is released and can overwrite newer ones, `Connected` after a loss
  included. Hosts repair themselves, since the poll repeats them
  (`HostsReachObservers`); lists and connection wait for their next change
  (`SettledObserversAgree`).
* **`codex_overlap`.** The README of the repository has `csm-codex` "end sessions
  reliably" and mark "wrapped Codex sessions ended". Its hooks read and rewrite the
  run-state file without a lock: of two that overlap, the second leaves out the
  session of the first, which the wrapper then does not end (`ClosedSessionsEnd`:
  the watcher does). The same README admits writes that are not atomic and
  "unlikely to lose data".

Seen while reading, and not runs:

* the comment on `session_row_wide` ranks name and host above the working directory
  among the fields that survive (`ui.rs:735`). The code gives up first the name,
  then the host, to keep five columns of the working directory (`ui.rs:777`).
  `Layout` does what the code does, and `RowsFit` claims no more of the order than
  those columns;
* the comment on the cache of the enumeration says that a cached mapping from pid to
  pane stays correct, or degrades "to no target at all ... rather than to a jump
  into the wrong pane" (`discovery.rs:244`). It is true of every session that ran
  when the panes were seen (`SightedSessionsGetOwnPane`). One that has been given
  the pid since, within 15 s, gets the pane of the process that had it before, if
  that pane is still open: panes are joined by pid, while liveness is judged by pid
  and start time;
* both READMEs of the repository say that the watcher discovers
  `PI_CODING_AGENT_DIR` from running pi processes (`README.md:203`). On macOS a pi
  hides its environment, as the comment in `pi.rs` says, and a session kept in a
  directory of its own is missing from a sweep that succeeds;
* "write back any new activation errors" (`gui/src/main.rs:483`) writes the whole
  map of the frame's copy, so errors that a new list has cleared since the copy was
  made return, up to the next list;
* the comment on `CycleOutcome` (`main.rs:596`) says no `publish` is called on a
  `DiscoveryFailed` cycle; only the failed source is skipped (`main.rs:670`);
* the README (line 227) says that the watcher does not touch Codex sessions;
  `configured_sources` has a Codex source, which can end an open one for the time
  of a sweep. In exchange `ClosedSessionsEnd` shows the backstop the README
  denies;
* the error text of `parse_interval` says the backoff never exceeds the interval
  (it grows to 30 s);
* `store.rs` calls session ids globally unique, the watcher's `SourceState` says
  they are not;
* `observed_at` is sent and never read, so nothing rejects a late snapshot;
* an unreadable Codex lock directory publishes an empty snapshot, where every
  other source refuses;
* rows posted with a NULL hostname are never reaped;
* `join_reader` can wait without a bound, see `GitCacheFairness` above;
* the wide row is said to be budgeted to one line; a status, a time and an error
  that are too long for the window by themselves overflow it, and widths are
  counted in characters, not columns (`RowsFit` states what the budget in
  `ui.rs:777` does achieve);
* `sse.rs:120` logs a line that does not parse by its first 100 bytes: if that
  ends inside a character the slice panics, the SSE thread is gone and
  `connected` stays as it was. Not modelled: a list is data here, and one that does
  not parse changes nothing;
* a first list that cannot be read is sent as an empty one (`lib.rs:210`), and the
  client shows no session until the next broadcast. `Server` does it, and
  `LatestChannel` admits it: `ImplementsChannel` is about the lists that follow;
* a shrunken window can leave the selected row out of view until the next key or
  list (`update_size` does not move the viewport; `SelectedSessionIsShown`
  excepts it);
* a successful click in the desktop client does not remove the session's old
  error, where `ui.rs:86` does.

## 5. What is proved

All theorems hold for every value of the constants that the named assumptions of
the modules admit.

* **`StoreProofs`.** `StoreTypeCorrect` is an inductive invariant by itself.
  `StoreReconciles`, `StoreRepublishSilent` and `StoreForeignRows` speak of the
  next snapshot in every reachable table; they rest on `ReconciledRow` (what
  `Reconcile` does to one row, by cases: listed, absent in scope, neither) and
  `SilentSnapshot`, and need of the table only its type.
* **`ServerProofs`.** `ServerTypeCorrect` includes the bound of every
  receiver's backlog. `OneWorkerScreensMatchStore` proves `ScreensMatchStore`
  with one worker and no database error. It is not inductive: the invariant is
  its conjunction with `CarriedListsAreFresh`, which says that what the worker
  carries past the unlock is still the list of the store, and that unless a
  broadcast is in hand the newest list under way to each subscriber is the
  store's. The two violations above are the two ways the assumptions can fail.
  `StreamsRefineChannel` is the safety part of `ImplementsChannel`, for any
  number of workers and with database errors: initial states map to initial
  states and every step to a step of `LatestChannel` or to none. It rests on
  `StreamsAreOpened`: a stream is set up by one worker at a time, and an open
  one always has a newest list.
* **`WatcherProofs`.** `DebounceIsTwoSweeps` proves that the debounce is a
  function of the last two successful sweeps (inductive given the types), and
  `SessionsNeverEndedEarly` follows for each step that changes what the server
  lists. `DaemonWaitsAreBounded` needs `BackoffInRange` (the next backoff lies
  between the minimum and the cap) as its strengthening.
* **`CodexProofs`.** `OnlyOwnAreEnded` proves `OnlyOwnSessionsAreEnded` for any
  number of hooks that overlap, overlay each other, fail, are killed or outlive
  Codex. The invariant follows an id through the file: what a hook has read, what
  it is about to write, what several writes leave in the file, and what the wrapper
  has read, are all of sessions that a hook of this run was about. The opposite,
  that no id is lost, is what `codex_overlap` refutes.
* **`SourceProofs`, the registries.** `SweepsReportTheLiving` rests on
  `FilesAreWritten` (a file that names a start time was written by a process that
  had the pid then) and `PidsRest` (a pid is not given out again within
  `ReuseGap` of its return, which is only assumed to be longer than the
  tolerance: it makes a start time identify a process). `TargetsAreOwnPanes`
  proves `SightedSessionsGetOwnPane` from these alone, however soon after that a
  pid is given out again and however old the cache is: of two processes with a pid
  only the first can have been seen by then, and a session that was running at
  that moment is the one seen. `OrphansAreWarnedOnce` needs that whoever was warned about
  stays either known to the set of warnings or out of the enumeration that would
  report it. `SweepsLeaveNobodyOut` is the other direction of
  `SweepsReportTheLiving`. Its invariant is `SteadyIsCovered`: each session that
  the sweep owes is in a directory still to be read or among the entries.
  When the sweep begins that takes `FilesAreOwn` (a file of a running process
  is in the process's own directory: no start time comes twice with a pid),
  `EnumerationIsComplete` (an enumeration, cached or not, has every process that
  started before it, or there would be none) and `OwnDirIsTold` (the directory
  computed from an environment is the one the program uses, where `NamesDir` holds
  and the working directory was not lost).
* **`SourceProofs`, Codex.** `OpenThreadsAreNotMissed` and `NothingElseIsReported`
  share `CodexSweepInv`: a lock is held by a running process in its own home, a
  thread open since the sweep began is listed unless its lock was unread or its home
  is still to come, and what is listed was open.
* **`SourceProofs`, lines of `ps`.** `ClaudeIsAlwaysRecognised` and
  `FirstAssignmentIsReal` are about arguments and environments of any length.
  What is to be found is named: the join that recognises Claude Code ends where
  its argument ends (`PieceIsJoined`, `ArgumentsTell`), the environment begins
  after the last word of the arguments (`CommandIsArguments`), and the value read
  begins and ends with its piece.
* **`CommandProofs`.** `NothingIsLeftBehind` and `OutputNeverTimesOut` share the
  invariant `RunInv`: while `run` polls, the reader thread lives, so a child that
  has something left to write finds room. `SettledBranchShown` needs `CacheInv`:
  an entry, and the branch a lookup under way has found, is no older than the
  last change of the directory, or the directory has not yet settled.
* **`ViewModelProofs`.** `ViewTypeCorrect` includes that a summary counts no
  session twice. `SettledObserversAreCurrent` proves `SettledObserversAgree` for
  any number of observers; the strengthening is `CopiesAreCurrent`: every copy
  still under way equals the shared state or is overtaken, so it does not matter
  in which order the threads' callbacks arrive.
* **`ClientProofs`.** `PartitionIsComplete` says what the order of the clients
  does to any list: an order by rank in a finite linear order puts every view at
  exactly one place (the ranks are all different and as many as there are
  views, so none is missing). `CursorIsShown` and
  `KeysHitWhatIsSeen` share `TerminalInv`: the frame is current whenever a key
  can come, and the cursor holds, that is, it is on a session of the order, in
  the window unless the size has changed. `DesktopKeepsWhatItIsTold` has
  `DesktopInv`; it is about the sessions and the connection, the window, and whose
  errors there can be, not about when errors are cleared. `ActivationsLand` has
  `ActivationInv` (which step belongs to which route, whom it has chosen, and what
  tmux has refused so far) and holds whatever tmux refuses; `RowsAlwaysFit` is arithmetic about each
  part of a row. `OneSlipIsNotSilence` has two invariants. `BeatsAreFresh` adds
  to every kind's age the time to its next beat, with the work that may still come
  before it, and to the client's next poll; the sum stays under the threshold, and
  before any slip within `LongestGap`, an interval and the work of two cycles.
  `SilenceIsSeen` bounds from the other side how old the freshest kind can be
  while nothing is called silent. Its hypotheses are at most one slip, and
  `Margins`.

Each inductive invariant was checked by TLC on the run of its module before it was
proved.

Only model-checked: the liveness properties (`StableStoreIsShown`,
`StableSessionsAreReported`, `SignalStopsWatcher`, `ClosedSessionsEnd`,
`OpenSessionsAreListed`, `HostsReachObservers`, `LossIsNoticed`, `LookupsEnd`),
since TLAPS has no support for proofs from fairness that need `ENABLED`, and for the
same reason `CatchesUp`, the liveness part of `ImplementsChannel`. Everything else
that a passing run checks is a theorem. What the operators compute by recursion
would be out of reach too, since the provers cannot instantiate the library's
induction theorems; the modules define sequences by ranks and by witnesses
instead and have no recursive operator.

## 6. Not modelled

* **What an event or an entry says of its session** (`reporter/src/hook.rs`,
  `codex_enrichment.rs`, `Status::from_registry` in `common/src/session.rs`):
  functions of one record without state; a session's status is a value here.
* **The web client** (`web/`): how `EventSource` reconnects is the browser's, and
  what remains is a list that is shown. It is one of the clients of `Server`.
  Its polls can overlap, where the client core's cannot, and an older answer can
  then replace a newer one for ten seconds.
* **The Swift applications** (`apps/`): renderers of the client core, reached
  through `core-ffi`, whose conversions are one to one; `activate_session` is a
  caller in `Activation`.
* **Configuration, telemetry, start-up** (`config.rs`, `telemetry.rs`, `sentry.rs`,
  `hostname.rs`, `server/src/main.rs`): read once, no state.
* **Service units, packaging, test harnesses**: the restart policy is in the
  fairness of `Watcher`.
* **Labels, colours, wording** in `presentation.rs`, `ui.rs` and `gui`.

Left to prove: the types of the rows in `CodexSessions`, and a version of
`OneSlipIsNotSilence` for more slips, with the margins it takes. Left to compose:
the streams of `Server` with the reconnection of `ViewModel`.
