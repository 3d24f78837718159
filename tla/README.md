# A verification project for pi-coding-agent-forge

TLA+ modules of the parts of this repository in which several actors share state
and the order of their steps matters, the TLC runs that check them on small
instances, and theorems about them that TLAPS proves for every value of the
constants. Paths below are relative to `src/`; `WEBUI` stands for
`pi-package-webui` and `WF` for `pi-extension-workflows`.

`PROJECT.json` says in machine-readable form which lines each definition models
(`map`), which run checks which property (`runs`), which change of the model each
property detects (`mutants`), and which line each hazard bites at (`hazards`).

To repeat the checks: `tlc -workers 2 -config Supervisor.cfg MCSupervisor.tla`
(the module of every configuration is listed under "The runs"), and
`tlapm EventRelayProofs.tla` for the proofs.

## 1. The system

The repository is a monorepo of some hundred packages around the Pi coding agent,
which itself is not part of it. Most packages are texts (skills, prompts, themes)
or single commands. The program's own core logic, with processes, queues,
timers and files that several actors change, is in these parts.

### 1.1 The RPC supervisor and the Web UI servers (`WEBUI`)

One detached *supervisor* process (`bin/pi-webui-rpc-supervisor.mjs`) owns the Pi
children, one per tab. HTTP *servers* (`bin/pi-webui.mjs`) come and go in front of
it, each with one socket to it (`lib/rpc-supervisor-client.mjs`). A server that
restarts leaves its tabs to the supervisor, and its successor takes them over.

| Component | State | Operations | Modelled in |
|---|---|---|---|
| Event relay | `sequence`, the ring `events` with its byte count, `clients`, `controller`; per server its socket, `lastSequence`, the replay it waits for, the events buffered during startup, the tabs it knows | emit, attach (fence of the former controller, replay, handoff cursor), close of a socket; the server's attach, replay, drain, validation, restart handoff, stop | `EventRelay` |
| Tabs and requests | the `tabs` map; per tab its child, its queue (a chain of promises), its pending commands; the request results that are remembered; the update fence; shutdown | create, update_settings, replace, close, command, read, one-way write; exit of a child; acknowledgement of a fence; shutdown | `TabHost` |
| Discovery and start | startup lock, state file, socket path; what each launcher has read of them | read, connect, lock, take a stale lock away, spawn, wait; the supervisor's look at what is there, listen, publish, leave; the death of any of them | `SupervisorLaunch` |
| Update coordination | effect locks, participants, install lock, journal | fence, acknowledge, install, restart, recover | the supervisor's side in `TabHost`; the rest no (plan 10) |
| Settings lock | one record per writer in a lock directory; the settings file | join, scan, remove what is stale, become active, read, merge and write, leave, time out, die | `SettingsLock` |
| Agent run registry, subagent gate, follow-up queue | record files, retry slots, two paired arrays | register, age, retry; compare and replace | no (plan 11) |

What is hard here: a server starts while its predecessor has not gone; an event
may reach a server live, by replay or out of its startup buffer; a cursor handed
to a successor stands for events that another process has or has not taken; a
request of a tab goes through several awaits while its tab is closed, its child
exits, an update begins or the host is told to stop; and where processes share files
(discovery, settings) every file operation is a step of its own, between any two of which
another process moves or dies.

What makes it correct: a server sees every event once and in order or knows that
it does not; control passes to the newest server and only to it; mutations of a
tab take turns; nothing written to a child is written to the wrong child or in
the wrong order; no child outlives its tab; no mutation meets an install; every
request settles; one supervisor serves at a time; one save of the settings is under way
at a time, none is undone by another, and each comes to an end.

### 1.2 The workflow extension (`WF/src`)

A *workflow* is a JavaScript program that runs in an interpreter and makes
`agent()` calls. Layers, from the outside to the inside:

| Component | State | Operations | Modelled in |
|---|---|---|---|
| Run manager and storage (`run-manager.ts`, `run-storage.ts`) | the runs of a session, a write queue for each; `run.json` and `result.json` | launch, updates of the runner, end of a run, pause, resume, abort, shutdown, restore | `RunManager` |
| Script runtime and runner (`script-runtime.ts`, `script-runner.ts`) | the interpreter's turn, host operations, the run's semaphore, task records, abort signal | agent calls with attempts, retries, worktrees, replayed results; timeout, cancellation, cleanup, finalization | `ScriptCalls` |
| Token budgets (`token-budget.ts`) | per scope what is measured and what is reserved | reserve, reconcile, release, charge | `ScriptCalls` |
| Agent scheduler (`scheduler.ts`) | slots in use, waiters in order, paused runs | schedule, grant, release, drain, pause, resume, timeouts | `AgentScheduler` |
| Worktrees, policy, approval, replay cache | git state, dialogs, a file cache | before or inside a call | one state of a call, or not at all |

They call each other: the run manager starts a runner for a run it has accepted,
the runner starts the script and handles each call, a handler asks the scheduler
for a slot of the process. Pauses and aborts come from outside to the run manager
and from there to the scheduler and to the run's abort signal.

What is hard here: all of it is single-threaded, so that its hazards are not data
races but what happens between a promise's resolution and the microtask that goes
on from it, between a status change in memory and its write, and in callbacks
that come after the run they belong to has been reported.

What makes it correct: limits hold and no slot or token is lost; nobody waits
without a reason; a cancelled run starts nothing; a run always ends; what is
reported or stored of a finished run is true, consistent and final, across
shutdowns and crashes.

### 1.3 The issue bot gateway (`services/issue-bot-gateway`)

Two Cloudflare workers around a D1 database and a queue. The *intake* admits a submission
statement by statement (lookup of its key, reservation of its digest, active slots of its
address and of all, row and outbox entry in one batch) and queues it; the *consumer*
claims a delivered submission with a lease, moderates it, searches for its marker, raises
a barrier in the row and sends the one POST that creates an issue; a scheduled job cleans
up and sends again what was not queued. All of it is in `IssueGateway`.

What is hard here: the queue delivers at least once and to several workers at a time; a lease may lapse
while its holder works; any worker may stop between two statements, and a POST may be
performed although its sender has given up on it; slots are given back by a trigger and
by the intake, whichever ends a submission.

What makes it correct: at most one issue for a submission, and the row tells of it; the
active slots cover the submissions that are under way; every submission comes to an end.

### 1.4 The tab registry of the Qt client (`pi-package-qt-webui/lib/backend`)

The backend of the Qt client runs one Pi child per tab itself (`pi-session.mjs`); no
supervisor is between them. The *registry* (`tabs.mjs`) opens, restores, switches, renews,
restarts and closes tabs, and keeps an index of the session files that tabs own or have
reserved, so that no two children write to one file. All of it but the refresh of
transcripts is in `SessionClaims`.

What is hard here: a child's answer may come late or never, and the child may still do what
it was asked; a child dies, is restarted or is closed in the middle of a switch; a new
session becomes a file only when something is saved in it; and a restarted child is
in a fresh session until it has resumed the old one.

What makes it correct: two children are never in one session; the index agrees with the
tabs; a tab that has a session to resume resumes it or says why not; what the user sends goes
to the session that is shown.

### 1.5 Other components

| Component | State and operations | Why it matters, or why not |
|---|---|---|
| Natural conversation, todo progress and goals | a two-mode controller, a loop of follow-up prompts | synchronous, or driven by external programs (plan 12) |
| HTTP routes and browser client | rendering, preferences, routes | what takes part in the protocols is in `EventRelay` and `TabHost` |
| Reliability harness; safety guard; review, git and release commands; documents, GUI and workbook tools; small extensions and utilities | sequential functions of texts and files, or one external command at a time | no interleaving to explore; unit tests reach what can go wrong |
| Skills, prompts, themes, patches | texts and install scripts | no state |

`PROJECT.json` lists all of them under `components`, with a reason for each that
is not modelled.

## 2. The modules

| Module | What it is |
|---|---|
| `OrderedDelivery` | What a reader of the supervisor's events may rely on: the next number, or knowledge of a gap. Abstract. |
| `EventRelay` | Supervisor numbering, ring, attach, fence, replay, cursors; sockets; the servers' startup and validation. Implements `OrderedDelivery`. |
| `TabHost` | Requests of the controller through the tabs' queues, children, update fence, shutdown. |
| `AgentScheduler` | The scheduler all runs of a process share. |
| `ScriptCalls` | One run: script, semaphore, handlers, token budgets, end of the run. |
| `RunManager` | Many runs: launch to record, shutdown, crash, restore. |
| `SettingsLock` | The lock around updates of the Web UI's settings, between processes. |
| `SupervisorLaunch` | Servers that look for the supervisor or start one, and the supervisors they start. |
| `IssueGateway` | Intake, consumer and scheduled job of the issue bot. |
| `SessionClaims` | The Qt client's tabs, their children and the index of claimed session files. |
| `MC...` | For TLC: the instances' workloads and maps, symmetry, explored part. `MCSupervisor` and `MCProtocols` put several components into one run, one at a time (section 3). |
| `...Proofs` | Theorems and proofs about the module of that name; `LockProofs` is about `SettingsLock` and `SupervisorLaunch`. |

`EventRelay` and `TabHost` are two views of one supervisor. The relay does not care
what a request does with a child, only when a tab begins and ends to emit; the tab
host does not care who reads the events. They share no variable that one of them
changes in a way the other could notice: the relay's `child` abstracts what
`TabHost` says of a child from its spawn to the end of its output.

The three workflow modules are layers. Each treats the one below as something that
ends by itself, and the lower module shows that it does: `RunManager` assumes that
an execution ends, which is `RunFinalizes` of `ScriptCalls`; `ScriptCalls` assumes
nothing of what its handlers wait for (its run ends anyway); `AgentScheduler` shows
that a call that waits for a slot gets it or ends (`NoStarvation`). What
`ScriptCalls` calls the handler's stage `task` contains the wait for that slot.

### 2.1 EventRelay

*Processes.* The supervisor process (restarted at most `MaxEpoch - 1` times), its
sockets (two queues of frames for each server, cut without warning by
`ServerStop` or `ServerLosesSocket`), and the servers.

*State.* `epoch` is the supervisor's incarnation; `sequence`, `events`,
`retainedEventBytes`, `clients`, `controller` are the supervisor's variables of the
same names. Per server, `phase` is `new`, `attaching` (it has sent attach), `starting`
(it has the answer and drains what it buffered), `live` or `gone`; `snapshot`,
`pendingReplay`, `startupEvents`, `lastSequence` and `discontinuities` are the
client's and the server's. `dispatched` and `handoffs` are history.

*Actions.* `HostEmit` is `emit` with `retainEvent` in the same step; an event is
never assembled, it is its number, epoch, tab and size. `HostAttach` is the whole
attach handler: fence for the former controller, replay of what the ring has after
the cursor, missing ranges in the answer. `ServerStart` takes any cursor a
predecessor handed out, or none, or one of another incarnation. `ReplayNext`,
`FinishReplay`, `DrainNext` and `ReadEvent` are the server's turns: it dispatches one
event at a time and yields between two, which is what makes the startup buffer
necessary.

*Left out.* Contents of events, other frames (they carry no order), the HTTP side of a
restart. A voluntary `detach` is not an action: the supervisor answers it and changes
nothing. `HostCreate` and `HostClose` are one step each; what may happen during the awaits
of `create` and `closeTab` is the subject of `TabHost`.

### 2.2 TabHost

A request is performed in steps, one per `await`. `stage` says how far it has come;
`place` and `queue` are the chain of promises of the tab object in which it
stands; `target` is the tab object it works on (a tab id may be closed and made
again). Tab objects and children are named by the request that made them, so that
a stale reference is told from a fresh one.

`Perform(r)` is the disjunction of the steps of a request; `Submit` its arrival;
`ChildExit`, `StdinError`, `Answer` and `HearWorking` what Pi does;
`FenceTaken`, `AckReadsFence`, `AckAnswers`, `UpdateGoesOn` the update's fence file
and the acknowledgement loop, which reads the fence and answers in two steps;
`Shutdown...` and `HostExits` the end of the host. `closing` is `stopping` while the
children are awaited, `failing` once one of these stops has failed (which makes the
shutdown return when the last one is over), then `exiting` and `exited`. A command to a
child that runs may fail all the same: its pipe may be broken.

*Left out.* A second frame with the id of a request that is under way shares its
promise; contents of the state file; output buffering. `BeginStop` takes the awaits in
which `replaceUnderUpdate` reads the evidence of the update together with its first check
of the tab: they are within the turn of the request, so that no other mutation of the tab
comes between, and its child may as well exit right after the step. That Pi may begin to
work during those awaits, and is replaced all the same, is not seen.

### 2.3 AgentScheduler

`call` is how far a call of `schedule` has come. `granted` is the time between the
resolution of `#acquire`'s promise and the microtask that goes on: a pause, a
timeout, an abort or a shutdown may come in between, and the slot must come back.
`Grants` is the loop of `#drain` (the first waiter whose run is not paused, again
and again while a slot is free). Waiters are a set with the order in which
they were pushed, which is how the array is used.

### 2.4 ScriptCalls

`turn` is TRUE while script code runs. Within a turn the script makes calls
(`Issue`), and whatever was woken before has to wait: that is the semantics of the
interpreter's job queue, and it decides who gets a slot. `op` is the host operation
of a call on the outside (waiting, granted, running, ended), `handler` how far its
handler has come. The budget operators `Reserve`, `Reconcile`, `Release`, `Charge`
are those of `token-budget.ts`; `excess` is history: what attempts used beyond their
reservation, or replayed results charged without one (a call whose charge
exceeds its budget fails, replayed or not). `exec`, `verdict`, `stop` and
`status` are the end of the run: the deadline or a cancellation aborts, a cleanup
timer bounds the wait for outstanding operations, and `Finalize` freezes the record.

### 2.5 RunManager

`status` is the run in memory, `run` and `result` are the two files. `queue` holds the
snapshots a run has yet to write, with `"result"` for the result's write. Every
write ends with `WriteDone` or `WriteFails`; a failed one is skipped, as the code
does. `host` is the process: it shuts down (`stopping`, `flushing`, `exited`), or
crashes at any step, and is followed by one that restores. `final`
and `lost` are history.

One timing assumption is in a guard: `GraceIsOver` lets the ten seconds of
`shutdown` end only when no launch is still writing its first files. Without it
shutdown could give up a run that has not been accepted, which the properties do
not speak of.

### 2.6 SettingsLock

A writer is one save of a process of its own. `record` is what its file in the lock
directory contains (`empty` between its creation and its first write), `seen` what the
writer's last scan has read: `ListRecords` is `readdir`, `ReadRecord` the read of one of
the files, in any order, and `Decide` acts on what was seen. The names of the records
sort by process id, so that a writer that comes later may come first: writers are numbers.
`GrowsOld` and `DeadlinePasses` are the two clocks. `robbed` is history: it names
writers whose *active* record was removed by one that had seen it empty, which takes a
removal that is delayed for as long as the other needs to write, scan and become active.
`RemoveDirectory` may take the directory from under a writer between its `mkdir` and its
`open`: that save fails. A record keeps the directory, and so does the temporary file of a
writer that is about to become active.

### 2.7 SupervisorLaunch

A launcher starts at most one supervisor, which goes by its name. `launch` is how far
`discoverStartAttachRpcSupervisor` has come, `supervisor` how far the process it
started has (`look` to `listen` is `start`, `publish` and `up` are a running host, and from
`closing` on it is `shutdown`). `startLock` is the lock file and who created it;
`lockIsOld` says that it has passed the age of staleness. Whoever removes the lock
removes it, whosever it is (`LockGoes`), and so with the socket.
`overlapped` is history: a lock went while the start it was for was still under way.

`OneSupervisor` leaves those states out, since there the code does not hold: two launchers
find one lock stale and the slower one removes the fresh lock, or a launcher gives up and
the supervisor that it started comes later. To see it, take the premise from the
property: TLC finds 17 states to two supervisors that both listen, against "exclusive startup
lock must prevent duplicate launchers" (WEBUI/tests/rpc-supervisor-state.test.mjs:39).

TLC finds more than `OneSupervisor` states. A supervisor that leaves compares the
incarnation of the state file, removes that file, and then removes *the* socket. In 23
steps this is the socket of a supervisor that was started when the state file was gone,
against "Remove private runtime files only for the recorded supervisor incarnation"
(WEBUI/lib/rpc-supervisor-state.mjs:94). To see it, check
`[][\A h \in Launchers : supervisor[h] = "dropSocket" => socketFile \in {Nothing, h} \/ UNCHANGED socketFile]_launchVars`.

### 2.8 IssueGateway

A request stands for its submission, a worker for a delivery that is processed. One
action is one statement of the database (or one batch, which is atomic), one call of the
queue or of GitHub. `status`, `mutation`, `lease`, `outbox`, `slots` and `reserved` are
columns and tables; `unlapsed`, `old` and `quiet` are the comparisons with the clock
that statements make. `view` is what `claim` has read before its update, `aim` what a
delivery is about to store. `issues` and `late` are GitHub's side: the issues
with a submission's marker, and POSTs that their sender has given up on and that are
still to be performed or lost. `Update` applies the trigger of the migration with every
change of a status. A request that fails gives back one counter at a time and then its
digest (`GiveBack`, `CountBack`), and may die in between.

`twice` is history: requests that may give back slots that the trigger gives back too.
`create` is a batch and reads that verify it; if the batch is committed and a read fails, the
request gives back what its row owns. `SlotsCoverLive` allows for one slot of each such
request, so it does not show this. To see it, check that the live rows of a scope are at most
`slots` of it: TLC finds 7 states.

One more statement does not hold of the code. "`unknown` and every persisted mutation state
are reconciliation-only" (services/issue-bot-gateway/consumer/index.ts:118), but `claim`
returns the mutation that it read *before* its update: it reads a row whose mutation is
`none`, the lease of another delivery lapses after that one has recorded `post_started`, the
update of the claim succeeds, and the delivery moderates and searches where it should
reconcile. Only the barrier keeps it from a second POST (`AtMostOneIssue` holds). To see
it, add to IssueGateway.cfg the property
`[][\A w \in Workers : pc[w] = "take" /\ pc'[w] = "moderate" => mutation[job[w]] = "none"]_vars`.

### 2.9 SessionClaims

A tab is a record of what the registry keeps of it, under the source's names: `sessionFile`,
`durable` (its identity is confirmed as a file), `pendingResume`, `resumeBlocked`,
`transition` and `previous` (its `transitionSessionFile` and `previousSessionFile`). `mutation` says
what the holder of its `mutationReservation` waits for: the answer to a switch or a
new session, the history and state that are read after it, the end of a child, or
something else. `identityOwners` is the index. `alive`, `at`, `ready`, `active` and
`shuttingDown` are the session of `pi-session.mjs`; `at` is where the child really is, which
the backend knows only from answers. `late` are commands that were given up on and that the
child may still perform. A session without a file has a name too: it is the child's alone
until `RunSaves` makes the file.

`Verdict` is the heart: what happens to a tab that hears that its session is f, from a
`get_state` (`StateHeard`, `OperationEnds`), at the end of a run, or when its child
exits. It is the session it has, it is one that nobody owns, or it clashes, and then
the tab's session is stopped. `Heard` are the outcomes: the file is claimed, but the draft may
fail to move there, and then the tab owns the file and does not take it for durable. `Told`
adds what a `get_state` may tell besides: another name of the session, which refreshes
the index. `SwitchAnswered` and `NewAnswered` handle the child's answer and
`session.replaced` in one step, since no await is in between.

`unnoticed` is history, and is named in two properties: a tab has not noticed where a command
took its child after the backend gave the command up or was stopping the session,
or that its child has made its session a file. Nothing in the registry prevents what happens
meanwhile (`OneOwner` shows the second case), and all is well again when the tab hears of it.

*Left out.* Session files that are removed or cannot be read; a spawn that fails (it is a
child that exits at once); `session-sync.mjs` with its stale generations; selection, names,
drafts and layout; the idle timers. A tab that was stopped by a clash stays so until it is
closed: `restart` leaves `shuttingDown` as it is (`Restarted`).

## 3. The runs

Two runs check several components. Their module has a variable `subject` that never
changes, each initial state sets up one component, and the components that are not
the subject stay in their initial states. What is checked of a component is
therefore the same as in a run of its own; only the run is shared.

| Run (configuration) | Module | Shows |
|---|---|---|
| `supervisor` (Supervisor) | MCSupervisor | *Relay:* two servers that take over from each other through restarts, lost sockets and a supervisor restart, with events of three sizes. `NoSilentLoss`: without a reported discontinuity a server has dispatched every event from its start, once, in order. `SequenceIntact`: the reports are only ever of evicted history, unknown tabs or a replay cut short. `ActiveServerIsController`: control goes to the newest and stays there. `RingIsSuffix`: the ring. `ImplementsOrderedDelivery`: the refinement. *Launch:* `OneSupervisor`. *Claims:* `ChildrenApart`: no two children in one session that their tabs know of. `ClaimsMatchTabs`: the index and the tabs agree. `NoMissedResume`: what waits to be resumed is resumed, or the tab says why not. `PromptReachesShownSession`: no prompt goes to another session than the one that the tab shows. |
| `protocols` (Protocols) | MCProtocols | *Relay:* `StartupEnds`, `EventsArrive`: under fair event loops every startup ends and every event reaches the controller that stays connected. *Scheduler:* `SlotsAccounted`, `NoIdleSlot`, `NoOvertaking`, `NoStarvation`. *Settings:* `OneWriter`, `NoLostUpdate`, `SavesEnd`. |
| `tab_safe` (TabHostSafe) | MCTabHost | `PendingIsAnswerable`, `NoOtherStrayChild`, `WritesInOrder`, `TurnsAreTaken`, `QuietWhileInstalling` and `RequestsSettle` (no request keeps the queue of its tab to itself) on five workloads. |
| `script_calls` (ScriptCalls) | MCScriptCalls | `ReservationsExact`, `NotOversubscribed`, `CompletedMeansQuiet`, `StatusesFrozen`, `WaitsForAReason`, `RunFinalizes`. |
| `run_record` (RunManager) | MCRunManager | `RecordsAreTrue`, `ResultFollowsRecord`, `ShutdownKeepsRecords`, `RecordIsFinal`, `RunsSettle` with failing writes, shutdown, crash and restore. |
| `gateway` (IssueGateway) | MCIssueGateway | `AtMostOneIssue`, `IssueIsRecorded`, `SlotsCoverLive`, `SubmissionsSettle`, with deliveries, requests and senders that stop anywhere and a GitHub that need not be heard. |

Six further runs check one statement each that the repository makes of itself,
and TLC finds a behaviour of the code that contradicts it. The shortest
counterexamples, in words:

| Run (configuration) | Statement | What happens |
|---|---|---|
| `relay_startup` (EventRelayStartup), EventRelay | `StartupEventsAreNotDropped`: "preserves ordering without dropping events" (WEBUI/lib/rpc-supervisor-client.mjs:183-185) | A restart is accepted while the startup still buffers events: the cursor it hands out is past them. The server stops, its successor asks for what follows, and nobody dispatches or misses them. |
| `tab_close` (TabHostClose), MCTabHost | `ClosedTabHasNoChild`: "Closing one tab terminates that tab's managed child." (WEBUI/SPEC.md:180) | `create` puts the tab into the map before its child is spawned and does not enter the tab's queue. A close in between finds no child to stop and reports success; the child is committed afterwards to a tab that is gone. |
| `script_limit` (ScriptCallsLimit), MCScriptCalls | `ConcurrencyBounded`: "host scheduler must enforce script maxConcurrency" (WF/tests/script-runtime.test.mjs:54) | A call ends, its release wakes a waiter, and the script's next turn makes a call that takes the free slot before the waiter's microtask; the waiter does not look again. |
| `script_late` (ScriptCallsLate), MCScriptCalls | `NoLateMutation`: "No late callback may mutate this returned/persisted snapshot." (WF/src/script-runner.ts:327-328) | A worktree is made after the run was cancelled and finalized; it is assigned to the task record before `finalized` is looked at. |
| `run_result` (RunManagerResult), MCRunManager | `EndedRunKeepsResult`: "Every accepted run persists [...] result artifacts" (WF/DEVELOPMENT.md:225) | Shutdown looks at runs whose status is not terminal. A run that has just ended is skipped, and its last record and its result are never written. |
| `session_owner` (SessionOwner), SessionClaims | `OneOwner`: "One Qt WebUI backend permits only one current or reserved owner of a saved session" (pi-package-qt-webui/TECHNICAL.md:135) | A tab's first prompt starts a run, and Pi saves the new session. Its file is on the disk, but the tab claims it only when the run ends; meanwhile another tab opens the same file. Both children write to it, and at the end of the run it is the tab that made the session that clashes and is stopped. |

The passing properties hold beside these. `NoOtherStrayChild` says
that a create that was overtaken and a shutdown during a spawn are the only ways
to a stray child; `StatusesFrozen` is the part of the record that does stay;
`OneSupervisor` and `OneWriter` name the one way in which two can meet, and
`ChildrenApart` names the two ways in which children can.

`CHECK_DEADLOCK FALSE` everywhere, because every one of these systems may stop: the
servers have all gone, the requests are settled, the calls are done, the host has
exited. That nothing waits forever where it should not is what the liveness
properties say.

## 4. Bounds

Every bound is a constant of its module or a `CONSTRAINT` of the `MC` module.

- `supervisor`, relay: 2 servers, 1 tab, a ring of 2 events and 2 bytes, event sizes
  1 (two fit), 2 (one fits) and 3 (oversized, clears the ring), at most
  3 events, at most 2 supervisor incarnations, 1 cursor handed out; a request is made
  only when nothing is under way on the server's socket. With two servers one takes
  over from the other, with a ring of 2 and 3 events eviction happens before, during
  and after a takeover. The constraint `Explored`: all sizes and 3 events while the
  first server is alone; later what is retained are small events, and there are 3 of
  them with a full ring once a server has gone, and 2 otherwise, one less in the second
  incarnation. Servers are
  interchangeable at the start and named nowhere, so that symmetry over them is
  sound, and so are launchers; the run has no liveness property.
- `supervisor`, launch: 2 launchers, hence at most 2 supervisors, each of which may die at
  any step. Two are the least that can overlap; the lock may become stale at any moment.
- `supervisor`, claims: 2 tabs, 1 saved file, 2 names for new sessions, of which each can
  become a file. Two tabs and one file are the least with which one tab may take another's
  session; with two names a child can be in a fresh session while the other makes one,
  and a tab can lose its session and find it again. A tab that has gone is not opened
  again. `ClaimsExplored` keeps what is rare to one tab at a time: late commands and what a
  tab has not noticed, a restart, another mutation that is in the way of a resume, a stop, and
  a session file that is not taken for durable.
  Beside this run an instance with 2 saved files or 3 names and a weaker constraint was
  checked once. Servers, launchers and tabs share their model values, so that one
  permutation acts on the subject, whichever it is; the others are in their initial states.
- `protocols`, relay: 2 servers, a ring of 1, 2 events, one incarnation and no
  cursor, no symmetry and no constraint.
- `TabHostSafe`: five workloads, each all interleavings of its requests:
  *Life* (create, update_settings, command, close, and a create of another tab which
  `TabLimit = 1` may refuse, with shutdown), *Reuse* (create, close, create of the
  same id, replace), *Order* (create, command, one-way write, replace), *Late* (create,
  command, create of the same id, one-way write: the first create fails while the command
  waits), *Update* (create, command, read, replace for the update, with one fence, and with
  two one after the other without the command or without the read). With
  `DedupeLimit = 4` a fifth request is refused while four are not settled. A
  shutdown is explored in *Life* without its second tab; shutdown meets each kind of
  step there. `RequestsSettle` is checked in the same run, on all five.
- `protocols`, scheduler: 3 calls (two runs, and one that belongs to no run) on 1 slot. One
  slot and three calls are the least with which a waiter is passed over.
- `protocols`, settings: 2 writers, either of which may die, grow old and pass its deadline
  at any step. Writers that have ended do not come back: a save is made once.
- `ScriptCalls`: 3 calls in two phases plus the run's scope, limit 2, 2 attempts,
  usage up to 2 tokens; one call is isolated in a worktree, one is replayed. The
  limits (3 for the run, 2 for a phase) are below what the calls want together.
  The script chooses freely what it calls and when, how often it goes
  on, and whether it returns, throws or leaves calls behind.
- `RunManager`: 2 runs, any write may fail, an update, pause or resume is made only
  while at most 1 write is queued (ends of runs are not bounded). `Explored`: the
  first run is launched first, and only it is paused; the two are alike.
- `gateway`: 3 requests, 2 deliveries at a time, one slot for all. Four workloads
  (`Workloads`): two deliveries race for a submission that is queued; one delivery beside
  a request from another address; one submission from its request to its end; two
  requests with one key and one text. `Explored` keeps deliveries out of the
  races of requests, where only the dead letter queue delivers. Of the two that race from the
  start, which are alike, the first has the first row (it may be gone by the time of the second).

## 5. Fairness

Liveness is checked under what the code's scheduling gives, and no more.

In `protocols` the fairness of each subject is conjoined for all states: in the initial
states of a component that is not the subject none of its fair actions is enabled.

- `EventRelay`: both event loops read what is on a socket, a startup's next
  microtask runs, a closed socket is noticed. Nobody need start a server, stop one,
  emit an event or create a tab.
- `TabHost`: `WF_vars(\E r \in Requests : Perform(r))`. The event loop goes on with some
  request that can; every await is on an event with a timer behind it (spawn,
  exit, answer) or a file operation. It does not ask that each request
  is fairly treated: requests are finite and each makes finitely many steps.
- `AgentScheduler`: microtasks run (`Start`) and work ends (`Finish`: the task runner
  kills what does not end). Nothing of timers, pauses or cancellations. `NoStarvation`
  is for calls whose run is not paused from some time on.
- `ScriptCalls`: a turn of the script ends (the interrupt handler sees to it), the
  deadline fires, cleanup begins and its timer ends it, and the end of the run
  proceeds. Nothing of handlers, agents or the script.
- `RunManager`: file operations end, with success or not, and executions end.
- `SettingsLock`: file operations end and the deadline of a save passes. `SavesEnd`
  needs the deadline: two writers that became active together wait for each other.
- `IssueGateway`: the scheduled job runs again and again, time passes, and the queue gives
  up on a message after some deliveries. Nothing of requests, deliveries, senders or
  dead letters, any of which may stop for good.
- `SupervisorLaunch` and `SessionClaims`: none; they have no liveness property. In the
  latter that is a fact of the code: nobody need ask a child for its state again.

## 6. Proofs

TLAPS proves these for every number of servers, tabs, requests, calls, runs and files, every
ring, limit and usage, without the `MC` constraints; the bounds `MaxSequence`,
`MaxEpoch`, `MaxInFlight`, `MaxHandoffs`, `MaxFences`, `MaxUsage` and `MaxQueue` are
arbitrary numbers there.

| Module | Theorem | Establishes |
|---|---|---|
| EventRelayProofs | `TypeAndRing` | `TypeOK` and `RingIsSuffix` |
| EventRelayProofs | `NoLossIsSilent`, `SequencesStayIntact` | `NoSilentLoss`, `SequenceIntact` |
| EventRelayProofs | `ActiveServersControl` | `ActiveServerIsController` |
| EventRelayProofs | `RelayDeliversInOrder` | `ImplementsOrderedDelivery`: the relay implements `OrderedDelivery` |
| TabHostProofs | `TurnsTaken` | `TypeOK` and `TurnsAreTaken` |
| TabHostProofs | `UpdateMeetsNoMutation` | `QuietWhileInstalling` |
| TabHostProofs | `PendingCanBeAnswered`, `NoOtherStray` | `PendingIsAnswerable`, `NoOtherStrayChild` |
| TabHostProofs | `WritesStayInOrder` | `WritesInOrder` |
| AgentSchedulerProofs | `SlotsBounded`, `NoSlotIdle` | `SlotsAccounted`, `NoIdleSlot` |
| AgentSchedulerProofs | `OrderKept`, `CancelHolds` | `NoOvertaking`, `CancelledStartsNothing` (action properties; no run repeats the second) |
| ScriptCallsProofs | `BudgetHolds` | `NotOversubscribed` |
| ScriptCallsProofs | `ReservationsAddUp` | `ReservationsExact` |
| ScriptCallsProofs | `NobodyWaitsForNothing`, `CompletedIsQuiet` | `WaitsForAReason`, `CompletedMeansQuiet` |
| ScriptCallsProofs | `RecordIsFinal`, `NoTaskRuns` | `StatusesFrozen`, `FinishedRecord` (no run repeats the second) |
| ScriptCallsProofs | `ScriptWellTyped` | `TypeOK` |
| RunManagerProofs | `RecordsTrue`, `ResultBehindRecord`, `ShutdownKeeps` | `RecordsAreTrue`, `ResultFollowsRecord`, `ShutdownKeepsRecords` |
| RunManagerProofs | `RecordStays` | `RecordIsFinal` (action property) |
| LockProofs | `LockIsExclusive`, `UpdatesAreKept` | `OneWriter`, `NoLostUpdate` |
| LockProofs | `SupervisorIsAlone` | `OneSupervisor` |
| IssueGatewayProofs | `OneIssue`, `IssueRecorded` | `AtMostOneIssue`, `IssueIsRecorded` |
| IssueGatewayProofs | `SlotsCover` | `SlotsCoverLive` |
| IssueGatewayProofs | `GatewayWellTyped` | `TypeOK` |
| SessionClaimsProofs | `ChildrenStayApart`, `IndexIsRight` | `ChildrenApart`, `ClaimsMatchTabs` |
| SessionClaimsProofs | `ResumesArePursued`, `PromptsAreSeen` | `NoMissedResume`, `PromptReachesShownSession` (action property) |
| SessionClaimsProofs | `ClaimsTyped` | `ClaimsTypeOK`, which is stated there |

*Assumptions.* Only what the modules state of their constants: `LimitsAssumption` (the
ring has room for one event; limits and sizes are numbers) and `NobodyAssumption`
in `EventRelay`, `RequestAssumption` (finitely many requests, each of one kind and one
tab), `SchedulerAssumption` (finitely many calls, at least one slot),
`ScriptAssumption` (positive limits, as the parser of workflow files demands), `ManagerAssumption`,
`WritersAssumption` (writers are ordered), `LaunchersAssumption`, `GatewayAssumption` and
`ClaimsAssumption` (the values that mean none are none of the others). TLC evaluates each of them on every run of its module.

*EventRelay.* `RingInv` is `TypeOK /\ RingIsSuffix`. Only `emit` and the supervisor's
restart touch the ring. `RetainKeepsSuffix` follows `retainEvent` through its cases:
nothing evicted, one event, two, or everything; an oversized event clears the ring,
and the empty ring is a suffix. What `attach` replays is a suffix of the ring in turn
(`SelectSeq` of a run of numbers), hence typed and without a gap.

`StreamInv` joins what a server has taken, its replay, its startup buffer and its
socket into one run of numbers. `Chain` says that each frame on a socket continues
where the one before it ended, `Steady` that what is buffered is numbered without a gap, and
`Flows` that the buffer begins where the answer to the attach ended and the socket where the
buffer ends. `Served` closes the run: for the controller it ends at the supervisor's
`sequence`, so that the next event fits. `Replies` ties the answer on the socket to the
cursor that was asked for, `Replaying` does so once it was read, and `Honest` is what is
wanted: the position is the cursor and what was dispatched, unless a discontinuity was
reported. The cursors that servers hand to each other are not ahead of the supervisor
(`CursorsBehind`), or a successor would skip what it never saw. `Asking` (an attach is
the first thing on a socket, once) is what `Active` needs: a server that is behind no
fence is the controller.

*Refinement.* `Delivery` at the end of `EventRelay` maps a server to a reader. `RelayDeliversInOrder` shows that each
step is one of `OrderedDelivery` or a stutter: dispatches and reported gaps are steps of
the reader, everything else leaves the readers alone. `Honest` is what makes a dispatch the
*next* event.

*TabHost.* `TurnsAreTaken` is not inductive: it needs to know that a request that holds
the turn is the head of the queue in which it stands. `QInv` adds `QueueInv` (a
request stands in exactly one queue, once, at the head if it holds the turn, and
nothing else stands there) and `KindInv` (a create is never in a queue). The lemmas
`TurnBegins`, `TurnEnds`, `SameQueues` and `MovesOn` are the four ways in which a step
may change queues; each action is shown to be one of them. `QuietInv` relates the two
halves of the acknowledgement: an answer is for a fence that was read while it was
up, from then on nothing is admitted, and the install begins only on an answer for its
own fence. This is why an answer of an earlier fence cannot start the next install.

`TabInv` goes on from turns to children and what is written to them. A tab id is *spoiled*
once a close or replace has not waited for its create; for all the others, `Sound` says that
whoever stops or spawns a child holds the queue of the object it works on (`InTurn`), that the old
child is gone before a new one is made (`Replacing`, `Born`), and that the tab stays until
that is over (`Kept`). With the turns this leaves no second child (`NoSecondChild`), which gives
`NotStray` and `Answerable`. For the order, `OrderInv` numbers requests by arrival: queues
are sorted, and what has been served arrived before what still stands there; `WrittenInv` says who may
have written to a child and `Latest` that no tab goes back to a child from before a
replacement that succeeded.

`WritesInOrder` is weaker than it was when only TLC checked it: the attempt to prove it showed a
case that no workload had. A command that was admitted to a tab object (`queueTabCommand`)
awaits the look at the fence files and then looks its tab up *by id*. If the object's create
has failed meanwhile and the id was created anew, the command is performed on the new tab,
past that tab's queue. The property names this case, and the workload *Late* reaches it.

*AgentScheduler.* `Inv` adds `WaitersWait` (the waiters are the calls that wait) and
`CancelStops` (calls of a cancelled run are stopped). `GrantsFit` states what the loop
of `#drain` computes: a set of eligible waiters no larger than the free slots, and
smaller only if it is all of them; that they are the first ones is what `OrderKept`
takes from it. `SlotsAccounted` and `NoIdleSlot`
follow from it with facts about cardinalities.

*ScriptCalls.* `BudgetInv` is about one scope at a time: reserve takes at most what is
available, reconcile moves the used part from reserved to measured, and what was used
beyond it goes to `excess`. The record theorems need no invariant: after `Finalize` no
step assigns a status, whatever handlers still do. That is the point of the
`finalized` tests in the code.

`LineInv` (who stands in the line waits, once, and an abort has emptied the line) makes `WaitsForAReason`
inductive: a release wakes exactly one, and who is woken counts until it goes on. `QuietInv`
relates an operation, its handler and its record (`HandlerFollows`): a verdict of completed is
given when no operation is under way, and without an abort a handler has ended when its operation
has. `ExactInv` adds that each step changes the reservation of one call and every scope it
is charged to by the same amount (`Holds`). That the sum over a scope then changes by that amount is an
induction over a finite set. The library's induction theorem takes an operator and cannot be
cited; in its place a set that is minimal among those for which the claim fails
(`MinimalSubset`, from the well-founded ordering of subsets) leads to a contradiction.

*RunManager.* The files follow memory with a delay, and the invariant says how far
behind they may be. `IInv` has, for each run: `LaunchInv` (nothing happens to a run
before it is accepted), `EndInv` (a terminal status in memory is final), `QueueInv`
(behind an end in the queue there is nothing but that end and its result, and a
result is directly behind a record, or at the head once the record was tried), `DiskInv` (what the files say agrees with memory)
and `SavedInv` (an end in memory is on the disk, in the queue, or was lost). `FlushInv`
says that the writes that shutdown waits for contain the end. `QueueInv` is what makes
the properties provable: without it a late snapshot could be written over the end.

*SettingsLock.* A writer is *ahead* of another one when its record is active and it has
read the other's record since, and not as active. `LockInv` says that no two writers are
ahead of each other (the later of the two became active before it read, and so did the
other), and that one that holds the lock, or has read its own record as active, has it still unless it was
robbed. Two holders would be ahead of each other.

*SupervisorLaunch.* `Exclusive` holds as long as no lock has gone too early: the lock names
the launcher, and the supervisor that it has started until that one is in the state
file; from then on the state file names it until it has withdrawn. No file is removed
under the lock while a supervisor is starting or published.

*IssueGateway.* `BarrierInv` does not speak of leases, which lapse. Of the deliveries of a
row at most one has raised the barrier and goes on towards the POST (`WorkerInv`), a row
without a mark has no issue, neither made nor under way, and one without a row yet has neither (`RowInv`). The
lemmas `RowsMoveKeeps` and their like reduce the thirty actions to the few that raise or lower
the barrier, post, or hear of an issue. `SlotsCoverLive` needs one fact of the requests
(`CountedInv`): one that may make its row has counted both slots, and one whose create failed
after its commit is past it. Then the row takes over what its request held. Otherwise a step counts a slot up for one
more holder, counts it down for one holder less, or ends rows and counts back each of them
once (`RowsEnd`), where `Less` never takes more than there is.

*SessionClaims.* Every action is one tab's; `OnlyOf` says that it leaves the other tabs alone,
`SameForOthers` that the index says the same of them, and `GoodSteps` draws the conclusion
once for all actions. `Fits` relates the claims of a tab to its fields in the middle of an
operation too, when it holds more than it names: what it has durably, will resume or
switches to is its, and what it claims is a file. `HeardFits`, `ResumingFits` and `EndsFits`
are the three things that happen to a tab in many actions; `Hears` says what every outcome
of `Told` has in common. `Knows` is what makes
`ChildrenApart` inductive: a child whose tab has noticed everything is in a session
without a file, which is nobody else's (`FreshApart`), or in the one that its tab has
and owns in the index. That the tab takes it for durable is not needed, and may not be so.

*Types.* The type invariants of `EventRelay`, `TabHost`, `AgentScheduler`, `RunManager`,
`SettingsLock` and `SupervisorLaunch` are conjuncts of the invariants above and so are
proved with them, for every value of the constants; the runs do not check them again.
Those of `ScriptCalls` (`ScriptWellTyped`) and `IssueGateway` (`GatewayWellTyped`) are
theorems of their own. The second one shows that no count of slots is negative, for any
finite set of requests, since the trigger counts rows.

Every safety invariant, every action property and the refinement that the passing runs check is
a theorem. Only model-checked: what is temporal under fairness (`StartupEnds`, `EventsArrive`,
`RequestsSettle`, `NoStarvation`, `SavesEnd`, `RunFinalizes`, `RunsSettle`,
`SubmissionsSettle`), which the prover cannot do; and the six statements that the code
contradicts, of which a counterexample is all there is to show.

## 7. What is not modelled

Besides the components of 1.5, and the registries and update coordination of 1.1: in the supervisor, duplicate request ids that
are in flight together, output backpressure and the persisted state file;
in the servers, HTTP and browser connections; in the workflow runtime, the validation of
scripts and schemas, phases and pipelines as such (their calls are calls), the
interpreter's memory limits and turn limits of a budget; in run storage, `events`,
`calls` and `usage`, which are written behind the record in the same item of the
queue, the validation of records, and a second host that opens the same session. Text,
formats, logging and diagnostics are left out throughout.

## 8. Plan

Done, in this order, the most important behaviour first:

1. `EventRelay` with `OrderedDelivery`: all its safety and the refinement proved.
2. `TabHost`: all its safety proved.
3. `AgentScheduler`: all its safety proved.
4. `ScriptCalls`: all its safety proved.
5. `RunManager`: all its safety proved.
6. `SupervisorLaunch`: proved.
7. `SettingsLock`: exclusion and kept updates proved.
8. `IssueGateway`: all its safety proved.
9. `SessionClaims`: all its properties proved.

Next:

10. Update fences between processes (WEBUI/lib/update): effect locks, participants,
   install lock, journal; composed with the fence of `TabHost`.
11. Agent run registry and subagent gate; the follow-up queue's compare and replace as
    a pure operator against a reference definition.
12. Natural conversation and todo progress, as far as they keep state of their own.

A theorem to add: two runs that share one `AgentScheduler`, as a composition of it with two
instances of `ScriptCalls`.
