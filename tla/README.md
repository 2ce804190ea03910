# A TLA+ model of Pi-Whim

Pi-Whim is a Rust desktop workbench around the Pi coding agent. A *supervisor* owns a team of
agent subprocesses; agents call it for files, children, messages and background work, a wait hub
lets sessions wait for events and timers, hook processes gate what agents do, and an application
host drives an engine that commits the state the window shows.

This directory holds TLA+ modules translated from that code, the TLC configurations that check
them on small instances, and TLAPS proofs for all values of their constants. `PROJECT.json` says
for every definition which lines of the source it models.

    tlc -workers 2 -config FileLane.cfg FileLane.tla        # model-check a run
    tlapm AgentTeamProofs.tla                               # check the proofs of a module

## 1. Inventory

State, operations, hard behaviour and what makes each part correct. "Modelled" names the module.

| Component (source) | State | Operations | Hard behaviour | Correct when | Modelled |
|---|---|---|---|---|---|
| File coordinator (`pi-whim-agent-team/src/file_dispatch.rs`) | per-file lane: mutex, condvar, reader count, writer flag, ticket queue, ring of 16 mutations; observed revision per (agent, file) | `read`, `write`, `edit` from many request threads | readers/writers, FIFO tickets that wrap, revisions fixed before queueing, bash bypassing the lanes | permits exclude; nobody starves; nothing stale is committed; conflicts can be explained | `FileLane`, `FileCoordinator`, `FileRegister`, `FileKnowledge` |
| Agent team (`lib.rs`, `process.rs`, `routing.rs`, `model.rs` there) | one mutex: actors, capabilities, controls, inboxes; per agent a launching thread, a process and a monitor thread | spawn, wait, interrupt, reset, stop, finish | launches that straddle a reset or a stop, exits racing interrupts, kill deadlines | limits hold; capabilities die; final is final; whoever is shown running can be ended | `AgentTeam`, `TeamPromises` |
| Wait hub (`pi-whim-wait`) | one mutex: sources, ring of events, tasks; a queue of updates with a draining flag; coordinator thread | register, publish, close, wait, start, cancel, drop | wakeups, deadlines against events, who drains, eviction | each completion told once and in order; no lost wakeup; every task ends | `WaitHub` |
| Interactions (`lib.rs` 1959-2550) | map of questions and approvals; tickets | ask, escalate, resolve, consume, revoke | gate before lock, ticket checked after removal, owner ends meanwhile | an approval authorises one operation once | `Interactions` |
| Inboxes and messages (`lib.rs`, `routing.rs`) | bounded queue of 256 per agent | send, read, take | oldest dropped silently | a waiting owner gets what it waits for, or a newer message; a root only what was sent to its session | between roots: `RootMail` |
| Background processes (`bash_dispatch.rs`) | map of processes, reaper thread | start, list, stop, transfer, clear | check-then-act limits, two-lock clear, transfer while the parent ends | every process ends, whoever owns it; an end is final | `BackgroundJobs` |
| Session catalog, root mailbox (`catalog.rs`) | global bounded maps; mailbox files | publish, register, enqueue, claim | eviction, claim by rename, crash between steps | a message is delivered at most once and not lost | `RootMail` |
| Hook host (`pi-whim-hook-host`) | one process per persistent hook, restart budget, observe queue | call, submit, restart, stop | try_lock/Busy, timeouts, stop against restart | stop ends the process and the worker, for good | `HookHost` |
| Signals (`pi-whim-signal`) | listeners, queue, draining flag, terminal; `StateSignal` value | emit, subscribe, set, update, complete | re-entrant emission, panicking observers, two setters | one thread drains; an observer hears all that was emitted since it subscribed, the current value first | `StateSignal` |
| Application host (`pi-whim-app`) | FIFO control slot; prompts held for a reload of hooks | give, control, execute, hold, flush; open, replace, delete sessions | a hook decides, hooks reload and Pi compacts while the user opens other sessions | order of controlled commands; a prompt is sent or given back once, to its own project | `PromptRoute` |
| Engine (`pi-whim-engine`) | session pool, mailbox, reducer | forward, rekey, apply_batch | late events of replaced sessions | an event reaches its own session or none | sessions, turns and Pi's events in `PromptRoute` |
| One-shot AI (`pi-whim-one-shot-ai`) and the names of sessions (`app.rs` 2025-2834) | slots, channel, active and cancelled requests, workers; titles waited for, names expected from Pi, the index of sessions | submit, cancel, complete, new settings; first prompt, smart rename, rename | an answer after a rename, a cancel or new settings; names Pi reports late | slots are exact; the user's name stays | `OneShot`, `SessionTitles` |
| Persistence | files, SQLite | save, load | - | - | the titles of a session's row |
| UI, core types, RPC, theme, protocol, TypeScript extension, tool back ends | - | rendering, conversion, I/O | - | - | no |

How they interact: a request thread of the supervisor (`dispatch_request_cancellable`) maps a
capability to an agent and calls one handler; handlers share the team mutex and the file
coordinator of the project, which several supervisors may share; the monitor thread of a process
finishes its agent under the same mutex. The wait hub is called by any thread and calls back
observers from whichever thread drains. Hook processes are called in the middle of a spawn.

## 2. The modules

| Module | Stands for | Composition |
|---|---|---|
| `FileLane` | `FileLane`, `ReadPermit`, `WritePermit` | |
| `FileContents` | contents, revisions, what an edit does | |
| `FileRegister` | abstract: each write a compare-and-replace, each edit a read-modify-replace | extends `FileContents` |
| `FileCoordinator` | `read_in_scope`, `write_in_scope`, `edit_in_scope` | extends `FileLane` and `FileContents`; refines `FileRegister` |
| `FileKnowledge` | `FileCoordinator` with what tool results have shown to agents | extends `FileCoordinator` |
| `AgentTeam` | spawn, launch, monitor, interrupt, reset, stop | |
| `TeamPromises` | `AgentTeam` with what callers were told | extends `AgentTeam` |
| `WaitHub` | `WaitHub`, `WaitSourceHandle`, the coordinator thread | |
| `Interactions` | questions, approvals, tickets | with the ends of agents, interrupts, resets and stop as far as they revoke |
| `BackgroundJobs` | background bash: capacity, reaper, stop, transfer, clear | with the ends of agents, resets and stop |
| `HookHost` | a scope's persistent hook: call, restart, observe queue, open, revoke | |
| `StateSignal` | `Signal`, `StateSignal`, `Subscription` | |
| `PromptRoute` | the way of a prompt through host, application, session pool and turns | |
| `RootMail` | messages between level-0 sessions: catalog, mailbox files, inboxes of roots | with starts, stops and resets of their teams, and crashes |
| `OneShot` | the pool that answers short AI requests | |
| `SessionTitles` | the name of a session: application, Pi, index, service | extends `OneShot` |
| `MCServices`, `MCEndings` | small instances of the seven components above, which share no state: safety, and endings | `MCServices` extends its four and `MCEndings` its three (with `OneShot`), whose definitions all have names of their own |
| other `MC*` | small instances for TLC | |
| `FileCoordinatorProofs`, `AgentTeamProofs`, `WaitHubProofs`, `InteractionsProofs`, `EndingsProofs`, `StateSignalProofs`, `PromptRouteProofs` | theorems | extend the module they are about; `FileCoordinatorProofs` is about `FileLane` too, `InteractionsProofs` about `RootMail`, `EndingsProofs` about `HookHost`, `BackgroundJobs`, and `SessionTitles` with `OneShot` |
| `SequenceLemmas` | lemmas about the sequence operators of the models | used by `WaitHubProofs`, `InteractionsProofs`, `EndingsProofs`, `StateSignalProofs` and `PromptRouteProofs` |

### File coordinator

A thread is one request thread. `FileLane` takes the code between two acquisitions of the lane
mutex as one step: `WantWrite` is the head of `acquire_write` (take a ticket, queue it),
`AcquireRead`/`AcquireWrite` the end of the wait loop, `Park` a failed test with
`condition.wait`, `DropRead`/`DropWrite` the permits' `Drop` with its `notify_all`. A parked
thread goes on only when another thread's step notifies its lane, or by a spurious wakeup. The
ticket counter is taken modulo `TicketModulus`, so wrap-around happens in the model.

`FileCoordinator` gives each call a step wherever another thread can come in between: fix the
expected revision (`BeginChange`; `Snapshot` when it has to be read from disk), take the ticket
(`Enqueue`), wait, look at the file (`ReadFile`, `CheckWrite`, `CheckEdit`), rename (`Commit`),
record and observe (`ReportChange`), drop the permit (`Release`). Every I/O error path ends in
`Release`. Recording and observing are one step, since only the permit's holder touches
the ring and only one agent's own entry is observed. Programs that do not use the coordinator
(bash) are `Bypass`; the files they touch are remembered in `tampered`, and the promises are made
for the others. A revision is identified with the content it is the hash of.

### Agent team

`AgentTeam` has one variable per map of `TeamState` and one per thread that works for an agent:
`spawn[a]` follows the `spawn_agent` call that creates `a` (requested, reserved, launching,
started, done), `process[a]` the pi process, `monitor[a]` the monitor thread, `interrupt[a]` the
command in its channel. An id is used for one child only, as UUIDs are. The launch hook, the
start of the process and the registration of the control are separate steps because the code
holds no lock across them. What `stop` does after telling everyone (waiting up to five seconds)
changes nothing and is left out. `TeamPromises` adds two history variables.

### Wait hub

`HubState` is one mutex with one condition variable. A call's critical section is one action; the
`notify_all` that follows after the mutex is released, and after the updates are drained, is an
action of its own, so that the window between them is explored. `Enqueue` is `enqueue_update`
under the hub's mutex; `DrainNext`, `DrainEmit` and `DrainEnd` are `drain_updates`, in whichever
thread found the queue idle. parking_lot's condition variables do not wake spuriously. Time is
not a variable: whenever the code looks at the clock, any deadline of a pending task may have
passed (`Settle(passed)`), and a sleeper is woken by a deadline only if it counted that task's
when it fell asleep (`timed`). `query` of a settled task is forgotten, because nothing reads it.

### Interactions and approvals

A thread is one request thread or the user's. A call's critical section on the interactions is
one action; between two of them (`call[t].pc`) others come in: an interaction is asked, inserted
(`Insert`), perhaps answered by a hook (`AutoAnswer`, `AutoEscalate`, `NoAutoAnswer`), and its
owner told (`TellOwner`). A response is gated without the lock (`Gate`), then looked at again and
taken under it (`Decide`, `Escalate`, `Refuse`). A ticket leaves the table in `Consume` before it
is validated, as in `consume_approval`, so a failed use loses it. The end of an agent is two
steps (`Revoke` first, then the status: `FinishRevoke`, `FinishEnd`), and so is a reset. The
team's lock and the table's are different ones, as in the code. `decision`, `decider` and `uses`
are history.

### Background processes

`entry` and `owner` are the entry of a process, `child` the operating-system process, `reaper`
its thread, `bash` the bash call that starts it. Capacity, start, entry and the start of the
reaper are four steps (`Bash`, `Spawn`, `Enter`, `Watch`). The reaper looks, terminates what has
timed out, and reports in steps of their own (`ReaperLooks`, `ReaperTerminates`,
`ReaperReports`); `killing` is the thread that escalates SIGTERM to SIGKILL. `Transfer` and
`FinishEnd` are the two halves of `finish_agent`. `cleared` remembers processes a `clear_all`
dropped from the map alive: one that is entered between its two locks is lost to the code, and
the properties say what holds of all the others.

### Hook host

A generation is one `HookScopeState` of a key, here with one persistent hook; opening builds a
new one, revoking stops the old. `control` and `connection` are the hook's two mutexes; who holds
which is explicit, since `call` tries one and waits for the other while `stop` waits for the
second only. Threads of callers and the worker of the observe queue run the same steps (`WorkOf`).
Health is computed under the lock and reported after it (`Report`). Replies are not told apart:
a request ends well, badly or by its timeout. An opening can fail after it has started the hook
(`FailOpen`); such a generation is never handed out.

### Signals

Emission is as in `signal.rs`: a queue and a draining flag under the mutex, delivery outside it
listener by listener. A gated observer is one that came through `StateSignal::subscribe`: events
go into its gate, and whoever finds the gate idle drains it. Observers may panic; `Unwind` is
what the drain guards do then. A callback that sets or subscribes is, in the model, another thread
doing so while the callback runs; so a panic can also go on through the drain of a second thread
(`PanicReaches`), as it does through the nested drains of one. Values are numbers, set in increasing order of the calls.

### The way of a prompt

The application runs on one thread, so each handler is one step; what interleaves is its own
deferred work. `Give` is a command from the window, which a hook controls or not; `Controlled` the
worker's answer; `SubmitPrompt` sends, holds for a reload of hooks, or defers behind a compaction;
`Hear*` are Pi's events as `translate` and `apply_agent_event` read them (a message of a peer, of
the user, of the assistant, an empty reply, and so on); `Pi*` the process, which is external. An
empty reply, a failing launch, an exit and a change of files from outside count against one bound
(`UpsetBound`). Approving or revoking hooks may also change what is loaded (`ChangeTrust`). Where the outcome depends on what the model leaves out (which session is the most
recent, whether a launch fails, whether a conversation has replies), an operator yields the set
of outcomes. Prompts and steers, a change of model and a change of settings stand for the
commands; all others are commands no hook holds up. Events of a session that was removed are
dropped. In this repository only the test runtime sends `agent_ready`; the model takes Pi to send
it when it has started.

### Messages between roots

Several supervisors live in one process and share the catalog and the mailbox directory, each
behind a mutex of its own; `RootMail` takes what happens under one mutex as one step, except where
a crash can come in between. A send looks its target up (`Locate`), then either enters the other
team's mutex with a location that may be stale by now (`Remote`), or writes a file: make room,
create it, write it (`MakeRoom`, `Create`, `Fill`). A reset takes over the files of the session it
goes to one by one (`ReadFile`, `RemoveFile`), and only then, under its team's mutex, moves the
root and registers it (`Unregister`, `Register`); meanwhile the messages are in its hands (`got`).
`Crash` loses all but the files, of which one may be half written. `Evict` is a publication of
other sessions that pushes this one out of the bounded catalog. `to`, `told`, `reads` and
`dropped` are history: what was sent where, what was answered "delivered", what was read and what
a full box, a reset or a crash threw away.

### Session titles

`OneShot` has one service for each generation of the settings; `slots`, `queue`, `admitted`,
`cancelled` and `work` are the admission slots, the channel, the two sets and the workers.
Cancelling is two critical sections: what is active is found (`FindActive`), then marked (`Mark`);
the application does nothing in between, workers do. `SessionTitles` follows one session, new or
from the index, with a process or without. `name` is Pi's name of it and `echoes` what Pi has still
to report, `expected` the names the application will not take for a rename by hand; `row` is the
session in the store, where a manual name goes before a generated one, and `sidebar` the title last
read from it. Handlers of the application are one step each, but for the setting of a title on a
live session: Pi can take another name after it has been asked (`Settle`, `ApplyTitle`), and the
transcript for a smart rename is read elsewhere (`AskSmart`, `StartSmart`). Failures of a request,
late and cancelled ones included, differ only in what is reported. `chosen` and `unheard` are
history: the name the user gave, unless another source named the session after, and whether a
name of Pi went unheard since, for its process ended before reporting it or did not answer when it
was asked about the report (`HearNameUnread`).

## 3. The runs

| Run | Question | Bounds | Result |
|---|---|---|---|
| `file_lane` | Do permits exclude, are counters and tickets exact, does nobody starve? | 3 threads, 2 files, tickets modulo 3 (as few as three waiting writers allow, so every run wraps) | holds |
| `file_coordinator` | Is what is committed fresh, is the history a chain, does the coordinator implement the register? | 2 threads, 2 agents, 1 file that may be missing, contents of 2 tokens, a ring of 2, bash once | holds |
| `file_knowledge` | Does an agent overwrite only what it was shown? | 2 agents, 1 thread | violated, finding 1 |
| `agent_team` | Limits, capabilities, reachability, finality, interrupts | 3 agents, depth 2, 1 active agent per level, 1 reset | holds |
| `team_doomed` | Is everyone who should end told so? | as `agent_team` | violated, finding 2 |
| `team_wait` | Does a subtree reported complete stay finished? | as `agent_team` | violated, finding 3 |
| `wait_hub` | Completions told once, in order; no lost wakeup; events win | 2 clients and the coordinator, 2 tasks, 1 source, 2 events, a ring of 1 event and 1 completed task | holds |
| `wait_tasks` | Is the table of tasks bounded, does every task end? | 1 client and the coordinator, 3 tasks of two owners, hub limit 2, owner limit 1, no completed task kept | holds |
| `services` | Approvals, signals, prompts and mail: see below | one of four parts: 2 agents in a chain, 1 interaction, 2 operations, 2 threads; or 2 threads, a plain and a gated observer, 3 values; or 2 projects of one session, 2 commands, 1 unhandled event per session, 1 upset; or 2 roots, 2 sessions, messages to one of them, 2 messages, 2 threads, boxes of 1 | holds |
| `endings` | Do background processes and hooks come to an end, and stay ended? Does the user's name of a session stay? | one of three parts: 1 agent, 2 processes, limits 1 and 2, a history of 1, 1 reset; or 2 threads, 1 generation, 1 restart, a queue of 1; or 2 requests for titles and 2 changes (renames, new settings, ended processes), 3 of both together, 1 worker, no waiting room, 1 generated name, 1 of the user | holds |
| `state_replay` | Is the current value heard before newer ones? | 2 threads, a plain and a gated observer, 2 values | violated, finding 4 |
| `prompt_home` | Does every prompt go to the project it was given in? | 2 projects of one session, 1 command, 1 upset | violated, finding 5 |

In `services` and `endings` the variable `part` chooses the component of the behaviour; the
components share no state, so exploring them side by side loses nothing and exploring their
product would show nothing more. A property of a component is guarded by its part, or says
nothing of the others' untouched state. `services` takes threads, operations and the two projects (each with
its session) and, in the mail, roots and messages to be interchangeable, which they are; it checks
no liveness. The state of every component is its module's own, so that the properties are, word for
word, those of the theorems.

* `TicketsAuthoriseOnce`: an approval is used at most once, by its requester, for the operation it
  was given for. `GrantedByItsOwner`: it was granted by an owner above the requester or the user,
  never by a hook. `DecisionStands`: the first response is not replaced, though the gate runs
  without the lock. `UserIsAsked`: what is open at the user has been shown to the user.
* `OneDrainer`: never two drainers of a signal or of a gate, panics included. `HearsAllSince`: once
  everybody has returned, a plain observer has heard all that was emitted since it subscribed, in
  order, and a gated one all of it (after a panic, what is still queued is not promised).
* `InOrder`: controlled commands are executed in the order given. `SettlesOnce`: a prompt is sent
  or given back at most once. `DirectHome`: one that was not held for a reload goes to its own
  project.
* `EachInOnePlace`: a message between roots is never in two places and never read twice, crashes
  between reading and removing its file included; once its sender was told "delivered" it is
  somewhere, unless it was thrown away as said above; and an inbox holds only messages for the
  session its root is on, though senders go by a location that may be stale.
* `AliveIsAttended`: a process that lives is about to be entered, shown as running and watched, or
  being ended, unless `clear_all` lost it; so no stop, timeout, transfer or pruning shows an end or
  drops an entry and leaves the process to itself.
* `EndIsFinal`: the way a process ended is not rewritten, except that a stop may still call it
  stopped. `StoppedForGood`: a stopped hook has no process again. `WorkEnds`: every background
  process does end, unless `clear_all` lost it (`JobsEnd`), and stopping a hook ends its process and
  worker (`RevokeEnds`).
* `ChosenStands`: from the moment the user names a session its name is Pi's name of it, and it is
  what the store shows whenever Pi has no report left to make: no title that was in the making, held
  back or being cancelled replaces it, and no late report of an older name has the last word. The
  exceptions are those of `UserNameWins`.
* `UserNameWins`: in the end no title is waited for, and the name the user gave last is Pi's name
  of the session and the one the store shows, whatever requests, reports and cancellations were
  under way: unless another source named it after, or a name went unheard in the sense above.
* `EveryoneServed` (of `file_lane`): every queued writer gets its permit, and a reader waits for
  ever only if writers keep queueing.

The type invariants of the lanes and of the coordinator are checked together, in `file_coordinator`
(`TypeOK`).

Why these bounds are enough to be interesting. *Lanes*: three threads are the fewest with a
permit holder, a queued writer and a late reader, and lanes of different files do not interact,
so two files show that they do not. *Coordinator*: every hazard is about two calls; a ring of 2
is overrun by the third change. A file touched by bash is followed up to the next recorded change
(`MCBypassBound`). *Team*: a chain of three agents with a limit of one makes every launch compete
for its level; a third id replaces an ended agent. *Hub*: with a ring of one event every second
event evicts one, and two clients, the coordinator and two tasks give a thread that drains, one
that hands over and one that sleeps. In `wait_tasks` no event is published (deadlines, closing
sources and cancels end the tasks), so that three tasks fit; in `wait_hub` monitors select one
named source or any. *Interactions*: with two agents in a chain below the user there is an owner to
escalate from and one to end; all hazards are about one ticket and two calls. *Signals*: two
threads are a drainer and one that hands over; a third value is needed for one in the queue, one
in the gate and one current. *Prompts*: two commands overtake or not; one upset at a time is what
each hazard needs. `PromptRoute` alone was also checked with two upsets (2.7 million states),
`HookHost` alone with three threads, and (its safety) with two generations. *Mail*: a box of one is full with one message, and the
second makes room; two threads are a sender and a reset, and a root that has left a session leaves
a stale location behind. *Endings*: a limit of one lets two
calls exceed it, a history of one makes pruning happen. *Titles*: one request and
two changes are an answer that comes after a rename and another rename, an exit or new settings;
two requests and a change, a smart rename on top of the first prompt's. One worker without waiting
room refuses the next request for as long as it is busy. The safety of `SessionTitles` alone was
also checked with two requests and two changes.

Deadlock is checked where the system goes on for ever (lanes, coordinator). In the other
passing runs it is not, because a stopped supervisor or a dropped hub with no thread left really stops;
what must still happen before is stated as `InterruptEnds`, `TasksEnd` and `WorkEnds`.

Fairness, wherever a run checks liveness, is weak fairness of the steps of threads that run by
themselves. `FileLane`: a thread that can take or drop its permit does (its file operation ends).
`AgentTeam`: launching and monitor threads keep running; a process need not exit, and nobody has
to call a tool. `WaitHub`: clients notify, drain and return from waits, the coordinator runs; one
strong fairness, that a deadline the coordinator looks at again and again is one day found
passed, stands for the clock. `BackgroundJobs`: a bash call that has started its process enters
it, reapers and terminators run, and a process's own deadline passes one day (every process has
one); a command need not exit by itself. `HookHost`: threads go on with a call they have begun
(requests and starts have timeouts) and workers run; nobody has to call, submit or revoke.
`SessionTitles`: workers run (requests have a deadline), and the application handles completions,
Pi's reports and what it has begun; nobody has to rename or prompt. In
`MCEndings` each condition is stated for the component's own part. No other strong fairness, and no fairness of callers, is assumed.

### Findings

1. *A stale agent can overwrite silently* (`NoStaleOverwrite`, `docs/agent-teams.md:98-99`). An
   edit is applied to what is on disk now, even if another agent has changed it, and the result
   becomes the revision its agent has "observed", although the agent saw only its own blocks. The
   agent's next `write` without a base revision then replaces the other agent's change.
2. *A launch under way escapes a stop, reset or interrupt* (`DoomedAreTold`,
   `docs/agent-teams.md:126-132`). Between `reserve_child` and `controls.insert` there is nobody
   to tell, and `launch_child` does not ask afterwards.
3. *A subtree reported complete can come alive again* (`CompletedStaysQuiet`,
   `docs/agent-teams.md:84`). `validate_child` does not look at the parent's status, so a
   `spawn_agent` call accepted before the parent ended can add a child after its owner's
   `wait_agent` has returned.
4. *A new subscriber can hear the old value last* (`ReplayFirst`, `state.rs:83-86` of
   `pi-whim-signal`). The replay of the current value enters the observer's gate after the state
   lock is released; a `set` in between enters its newer value first.
5. *A held prompt can go to another project* (`HomeProject`, the test `app.rs:4083` of
   `pi-whim-app`). When a session of the project becomes ready, the prompts held for the reload of
   its hooks are handed to `submit_prompt`, which sends to whichever session is visible.

### Mutants

Next to an operation stand its mutants: the operation as a plausible slip would have it (a missing
notification, a limit not looked at, a check done too early). `PROJECT.json` names for each
property the mutant that breaks it under the run's own configuration.

## 4. What is proved

For any (finite, where the assumption says so) sets of threads, agents, tasks and files, and any
limits:

| Theorem | Statement |
|---|---|
| `LaneTypes`, `LaneCounters`, `LaneExclusion` | `LaneSpec` implies `[]LaneTypeOK`, `[]CountersExact`, `[]Exclusion` |
| `LaneQueue` | `LaneSpec` implies `[]QueueExact`, if there are at most as many threads as tickets |
| `CoordinatorTypes`, `CoordinatorFresh`, `CoordinatorHistory`, `CoordinatorExplains` | `Spec` of `FileCoordinator` implies `[]TypeOK`, `[]CommitFresh`, `[]HistoryChain`, `[]ConflictExplained` |
| `CoordinatorImplementsLanes`, `CoordinatorImplementsRegister` | it implies `LaneSpec` (permits are used by their protocol), and `RefinesRegister` (a change is atomic) |
| `TeamTypes`, `TeamCapabilities`, `TeamReachable`, `TeamTerminal`, `TeamCapacity` | `Spec` of `AgentTeam` implies `[]TypeOK`, `[]CapabilityDies`, `[]RunningReachable`, `TerminalIsFinal`, `[]LevelCapacity` |
| `HubTypes`, `HubBounded`, `HubEventWins`, `HubWakeups`, `HubFresh`, `HubExactlyOnce` | `Spec` of `WaitHub` implies `[]TypeOK`, `[]TasksBounded`, `EventWins`, `[]NoLostWakeup`, `[]TaskStateFresh`, `[]ExactlyOnce` |
| `InteractionTypes`, `TicketsOnce`, `GrantedFromAbove`, `UserAsked`, `DecisionsStand` | `Spec` of `Interactions` implies `[]TypeOK`, `[]TicketsAuthoriseOnce`, `[]GrantedByItsOwner`, `[]UserIsAsked`, `DecisionStands` |
| `MailTypes`, `MailEachInOnePlace` | `MailSpec` of `RootMail` implies `[]MailTypeOK` (which bounds every box), `[]EachInOnePlace` |
| `HookTypes`, `HookStoppedForGood` | `Spec` of `HookHost` implies `[]TypeOK`, `[]StoppedForGood` |
| `JobsTypes`, `JobsAttended`, `JobsEndIsFinal` | `JobsSpec` of `BackgroundJobs` implies `[]JobsTypeOK`, `[]AliveIsAttended`, `EndIsFinal` |
| `TitlesTypes`, `TitlesUnderWay`, `TitlesChosenStands` | `TitlesSpec` of `SessionTitles` implies `[]TitlesTypeOK` (which counts the slots of `OneShot`), `[]WaitedIsUnderWay`, `[]ChosenStands` |
| `SignalTypes`, `SignalOneDrainer`, `SignalHearsAllSince` | `SignalSpec` implies `[]SignalTypeOK`, `[]OneDrainer`, `[]HearsAllSince` |
| `RouteTypes`, `CommandsInOrder`, `PromptsSettleOnce`, `PromptsGoHome` | `RouteSpec` implies `[]RouteTypeOK`, `[]InOrder`, `[]SettlesOnce`, `[]DirectHome` |

Assumptions: the named `ASSUME`s of the modules, which TLC evaluates in every run (finite sets of
threads, agents and tasks, a positive ticket range and event ring, agents that form a tree, marks
such as `None` and `Absent` that are no values, tasks that are no clients, numbers that are numbers),
and hypotheses stated at their theorems: `TicketsSuffice` (the counter of the code has 2^64
tickets), `RequestAssumption` (the mark for "no request" is no request), and three that `MCServices`
assumes and TLC evaluates: `MailAssumption` (`Nobody` is no root, session, message or thread,
messages are sent to sessions there are, a box has room for one), `SignalAssumption` (a plain observer is no gated one, there is an initial
value, `Nil` is none of the values it stands beside) and `RouteAssumption` (a session belongs to one
project, `Nothing` is none, bounds are numbers); and three that `MCEndings` assumes: `HookAssumption`
(threads are no generations, limits are numbers), `JobsAssumption` (the parent of a child is a
member of the team, `NoOwner` is none, there are finitely many processes, limits are numbers) and
`TitlesAssumption` (a service has workers, finitely many, there is room for an expected name and for
a process, a failure is no title, `Nil` is none of the values it stands beside, bounds are numbers).
Nothing else.

*Lanes.* `Exclusion` is not inductive: that a reader is kept out depends on the writer flag
telling the truth, and a writer on the reader count. `LaneInv` is `LaneTypeOK /\ CountersExact /\
Exclusion`; a step changes a count by the one thread it moves, which is a lemma about
cardinalities for each of the four steps that move one. `QueueExact` needs `TicketsConsecutive`:
the tickets in a queue are a window below the counter, modulo its range. Since the window is no
longer than the number of threads, a new ticket is none of those in it, also after a wrap.

*Coordinator.* Each of its steps is a `LaneSpec` step or leaves the lane alone
(`LaneStepOfNext`), so the lane's invariant is used and not proved again. `CommitFresh` needs
`Holding` (a call inside the checked part has the permit of its own file): any other thread that
could change the file would have to hold a write permit of it, which `Exclusion` forbids.
`HistoryInv` is behind the two statements about the ring. The chain is interrupted while a change
is on disk and not yet recorded, so `Recording` says what that change replaced; and that a refused
write can always be explained rests on `Unchanged`: as long as no change of a file is on record,
every revision of it that an agent has observed, or a call carries, is the one on disk. Both speak
only of files no other program has touched. For the refinement, `RequestOf` maps a call to the
abstract request it stands for. `RefinementInv` adds that only changes queue and commit and that an
edit commits what its anchors fitted. A step of a thread is one of a few kinds (`StepKinds`): it
begins a request, goes on with it (a stutter), commits it (the abstract change, at which
`CommitFresh` says that the abstract comparison succeeds) or gives up. A program outside the
coordinator maps to the abstract register's own step for it.

*Team.* `CapabilityDies` and `RunningReachable` look at entries of shared maps; what keeps them
true is how entries follow the agent's own threads. `Lifecycle` says for each stage of launch and
monitor what the agent's entries are, and is inductive with `TypeOK`. `TerminalIsFinal` is a
property of each action under it. `LevelCapacity` needs of it that the id a launch enters was
unborn, and a cardinality lemma.

*Wait hub.* `HubInv` is `TypeOK` with `Places` (where a thread can be), `Table` (the map holds the
pending tasks and the retained completed ones, each once), `Draining` (the flag is up exactly while
one thread drains, and nothing is queued while nobody does) and `Ring` (the events are the newest
part of what was published). On it rest, each with a part of its own: `TasksBounded` with `Limits`,
which counts pending tasks of the hub and of an owner; `EventWins`, a property of each step under
`Ring`; `NoLostWakeup`, inductive beside `HubInv`, since a step that makes something decidable puts
its client on the way to `notify_all`, and a sleeper has looked before it sleeps; `TaskStateFresh`
with `Shown`: no table that is queued behind a completion shows its task pending, and the last one
queued is the hub's own; `ExactlyOnce` with `Reports`: what has been told, is in the hand of the
thread that drains and is still queued is, in this order, every settled task once, the retained
ones last. `Kept`, the model's order-keeping filter, is a recursive function, and what it computes
(`KeptFacts`), like what flattening a sequence of sequences does, is proved by induction over the
length by means of a set of lengths, which needs no induction theorem with an operator parameter.

*Interactions.* A response is gated, and a ticket taken, between critical sections, so none of the
properties is inductive. `InteractionsInv` says what threads may rely on meanwhile: what is about
to be inserted is new (`Inserting`), what is in the map has not been used and carries what was
decided (`Entered`), and its owner stands above the requester (`Owned`). `TicketsAuthoriseOnce`
holds because taking a ticket and removing it are one step and nothing that has left the map comes
back. `GrantedByItsOwner` needs facts about the tree (the root is above all, a parent of somebody
above is above), which are proved by well-founded induction along `Above`.

*Messages between roots.* `EachInOnePlace` looks at whole files, hands, inboxes and what was read.
A message is also where it does not look: carried by its sender, in a file half written, in one that
has been read and is being removed. `MailInv` speaks of these too. `Lock`: a thread that writes or
removes a file, or is between two of those it takes over, has `MAILBOX_LOCK`. `Carried`: a message
being sent is with one thread only, but for the file it is written to, the last of its session's.
`Apart`: otherwise it is in one place, except that the file which is being removed is the first one,
whole, and its message already in the hands of the thread that removes it. That is what a crash
relies on: it loses the hands, not the file. `Addressed`: what is in a file, in hand or in an inbox was
sent to the session of that place, which a reset keeps true because it moves its root and hands over
what it took for the same session in one step. `Room` is behind the bounds: what is in hand and
what is still on file fit one box. `Found` follows each message told "delivered" from place to place.
Dropping the oldest renumbers a box, so the lemmas `KeptFacts`, `TailFacts` and `AppendFacts` say
which index becomes which.

*Hook host.* A thread that has seen "not stopping" and is about to start the process would break
`StoppedForGood`, but it holds the connection that `stop` has to wait for; and the first start of a
generation holds nothing, but nobody can stop a generation that has not been handed out. `AtWork`,
`Owners` and `Stopped` say this, and only together are they inductive.

*Background processes.* An entry is made by the bash call and watched by its reaper, and there is a
moment between the two, as there is one between a process and its entry. `AliveIsAttended` says who
is responsible for a process at each moment, and is inductive with `Fresh`: what has not been
entered has no entry, so that pruning and stopping cannot meet it; and a reaper that is about to
report has been started by a call that has returned, so that the process it reports was its own to
wait for. What ends an entry (a stop, `terminate_all`, a report) either takes the process along
(`killing`) or comes after its exit. Pruning takes away only entries that have ended
(`PrunedFacts`), whichever of them the clock picks. `EndIsFinal` needs `Fresh`, too: that `Enter`
writes "running" rewrites no end because the id is new.

*Names of sessions.* A worker's step moves one worker into `Holding`, out of it or neither
(`HoldingMoves`, about cardinalities), and the slot or the length of the channel with it: so the sum
`SlotsExact` stays, and with it the number of free slots in its range. `WaitedIsUnderWay` is inductive
beside the types, since who stops waiting for a title (a cancel, new settings, the end of a process)
forgets the request in the same step, and what nobody waits for any more may be answered
in vain. No run checks it, as it has no consequence of its own for the user; it is what `UserNameWins`
needs of the service. `ChosenStands` looks at Pi's name and, when Pi has reported everything, at the
store, but neither says why a title that comes later does no harm. `Unopposed`: once the user has
named the session no title is asked for, deferred or being set for it, though requests that have been
cancelled may still be answered. `Reported`: the last name Pi has to report is the user's; until it is
heard the store has that name, or has it as the title with no better one, or an older name is there
that has been taken for one given by hand, and then the last report will be, too, because it is not
among the names expected and differs from what the sidebar shows. `Quiet`: a session without a process
has no reports to come.

*Signals.* `SignalInv` ties the flags to the threads: the stage of a thread says whether it drains
the signal and which gate it is at; one thread at most is at a gate, which is shut exactly while
that thread replays. `OneDrainer` is one of its parts, and panics keep it: the guards lower exactly
the flags of the drains that unwind. `HearsAllSince` speaks only of moments when everybody has
returned, so it needs to be said where each observer stands meanwhile. By `Log` the queue is the
end of what was emitted, and the event in the drainer's hand the last one before it. An observer
whom the drainer has yet to call for that event stands before it, any other behind it. Up to there
a plain observer has heard the events in their order (`HeardPlain`), and a gated one has heard them
or will find them in its gate (`HeardGated`); whoever came after the terminal event has heard that
(`Late`). `Attended` says that nothing waits that nobody drains. After a panic only `SignalInv`,
`Log` and `Lists` remain, which `HearInv` says: a panic loses events and no flag. The order of the
stored values is not in it: two setters, or a setter and a subscriber, may be heard in the other
order, which is finding 4.

*Prompts.* `SettlesOnce` says of a prompt that has been sent or answered that it was so once; it is
not inductive, for it says nothing of a prompt still on its way. `RouteInv` accounts for every
number: what waits for a hook or is in its control has not reached the application (`QueueOK`,
`Untouched`); what the application has is in one place of it (`Once`), held for one project or
deferred in one session, and is neither sent nor answered (`FateOK`); a prompt a step has just sent
left its place in the same step. `Aimed` adds where those not held for a reload will go, for
`DirectHome`, and `Line` that executed, controlled and waiting commands are in the order of their
numbers, which is `InOrder` and also why a number is given out once. A handler is a composition of
functions from a state of the application to its possible outcomes, and so is the proof: a function
either leaves every prompt where it is (`Calm`) or admits some numbers and keeps all places single
(`Follows`); both compose, and one lemma (`BecomesKeeps`) turns what a handler did into the next
state. The prompts of a reload are sent one after the other (`SubmitAll`, a recursive function), which
needs an induction over their number, by a set of numbers as above.

Only model-checked: all liveness properties (liveness under fairness and `ENABLED` are beyond the
proof system used here). The type invariants of `Interactions`, `StateSignal`, `RootMail`,
`PromptRoute`, `HookHost`, `BackgroundJobs` and `SessionTitles` are checked by the runs as part of
`PartsTypeOK`, which covers all components of a run.

## 5. What is not modelled

Besides the components marked so: hash collisions of revisions; path resolution, scopes, directory
listings and the rendering of reads (no state but the observation); name checks and policies in
`reserve_child` (the model lets them refuse any child); a file that exists and cannot be read, which
a write takes for an empty one (`file_dispatch.rs:460`); the exit status of a subagent, so that a
failing `try_wait` (`process.rs:172`) is the end it stands for; grandchildren that keep a subagent's
pipes open (the join on its reader is taken to return); poisoned mutexes; panics of observers
inside `drain_updates`; several clauses in one wait query and the matcher fields a source
supports; generations of a source (a handle of an older generation can do nothing). *Interactions*: the texts of questions and
answers, beyond what tells approvals from refusals; an answer that
cannot be told to the requester, whose interaction has it all the same (`lib.rs:2174`), and a
question that cannot be told to the user because the application is gone (`lib.rs:2488`).
*Background processes*: foreground bash, output
and pagination, children of a command. *Hook host*: manifests, trust, sandboxes, audits, one-shot
hooks, the contents of replies. *Signals*: the operators built on signals, schedulers. *Prompts*:
draft sessions and their rekeying, forks and clones, attachments, the contents of conversations,
notices, commands that neither hold up nor redirect a prompt. *Mail*: failing reads, renames and
removals of files; a second application instance on the same directory (`MAILBOX_LOCK` is one
process's); messages within a team; listing, searching and reading sessions. *Titles*: the HTTP
protocol, prompts and the normalisation of titles; which profile is resolved; several sessions at
once (they share only the service); failing writes of a session's file or row.

Not modelled at all: tool back ends (network, compression, rendering), persistence but for the row of a session (single-threaded
file I/O), the window, conversions of core types, RPC, theme and tool protocol, and the TypeScript
extension, whose tools are one request each. They keep no shared state with a protocol of its own.
Children's inboxes and the wait runtime have protocols and are still open (see the plan).

Hazards without a property are listed in `PROJECT.json` with the reason. The following behaviours
are in the models, or follow from what they leave out, and nothing in the repository promises
otherwise, so no property is stated about them:

* a program outside the coordinator changes a file between comparison and rename
  (`file_dispatch.rs:470`; the model's `Bypass`);
* the new owner of an escalated interaction ends before it is told (`lib.rs:2137`);
* a value stored before a signal completes is emitted after it and heard by nobody (`state.rs:48`),
  and two setters may emit in the other order than they stored (`state.rs:49`);
* a message sent to a session while its root is between taking over its files and registering
  (`lib.rs:3508-3554`) goes to a file and is read at the next resume, although the session is live;
  `unregister_active` asks nobody whose the entry is, so a root that leaves a session can take away
  the entry of another that is on it;
* only the project of a controlled prompt is compared again, not its session (`host.rs:175`); held
  prompts are lost with their project or wait for a session that never becomes ready
  (`app.rs:3219`); the pending model is one for all sessions (`app.rs:1771`); the hooks' revision is
  recorded before a launch that may fail (`app.rs:1414`);
* the last health shown of a stopped hook can be a Ready reported late (`persistent.rs:196`), and
  the stop of an old scope marks a new one's health (`scope.rs:891`); two concurrent openings build
  two generations (`scope.rs:276`);
* a scope that cannot be built after one of its hooks was started leaves that hook running, and
  nobody can stop it (`persistent.rs:114`; the model's `FailOpen`);
* concurrent bash calls exceed the limits of background processes, since the count and the entry are
  separate (`bash_dispatch.rs:73`); a stale handle of a source (`hub.rs:433`; merged in the model);
* a smart rename goes by the sidebar alone, and a name given in Pi between the look and the setting
  of a generated title is overwritten and the generated one then stored as given by hand
  (`app.rs:2713`, `app.rs:2743`; the comment at `app.rs:3109` says the changed name wins);
* a rename of a session without a process leaves the sidebar on the name before, since the index is
  read before the manual name is stored (`app.rs:2046-2052`); a name given before the first prompt is
  replaced by the prompt's fallback (`app.rs:2456`);
* a request that ends between the two halves of a cancel leaves its mark behind
  (`service.rs:476-493`);
* late events of a session whose token was rekeyed or slot reused (`mailbox.rs:78`; not modelled).

## 6. Plan

Done: file coordinator, agent team, wait hub; interactions, background processes, hook host,
signals, the way of a prompt; messages between roots; one-shot AI and the names of sessions.

Proved: file lanes and coordinator with the refinement of the register, agent team, wait hub,
interactions, messages between roots, hook host, background processes, signals, the way of a prompt,
one-shot AI and the names of sessions.

Next: children's inboxes and `take_messages_from` in `AgentTeam`; rekeying of sessions
(`EngineEvents`); source generations in `WaitHub`.
