------------------------------ MODULE HookHost ------------------------------
(***************************************************************************)
(* A persistent hook and the scopes that own it: persistent.rs and the     *)
(* open, revoke and observe paths of scope.rs in pi-whim-hook-host.        *)
(*                                                                         *)
(* One scope key, whose scope may be revoked and opened again, has one     *)
(* generation of its hook at a time or, for a while, two.  A generation    *)
(* has a process behind a connection mutex, a control mutex that is only   *)
(* ever tried, a queue of observations with its worker thread, and a       *)
(* health record; health is published in one slot of the manager's health  *)
(* signal, after the record's mutex is released.                           *)
(***************************************************************************)
EXTENDS Naturals

CONSTANTS
    Threads,        \* threads that call, submit, revoke and open
    Generations,    \* 1 .. n: a bound on how often the scope is opened
    MaxRestarts,    \* RestartPolicy::max_restarts
    Capacity,       \* DeliveryPolicy::capacity of the observe queue
    LatestOnly,     \* the delivery mode is StateLatest
    None

HookAssumption ==
    /\ Generations \subseteq Nat \ {0}
    /\ Threads \cap Generations = {}
    /\ None \notin Threads \cup Generations
    /\ MaxRestarts \in Nat
    /\ Capacity \in Nat \ {0}
    /\ LatestOnly \in BOOLEAN

VARIABLES
    current,    \* the generation in ManagerInner::scopes, or None
    revoked,    \* generations whose scope is revoked
    stopping,   \* generations with PersistentHook::stopping set
    silent,     \* those whose observe queue is stopped
    halted,     \* history: those whose stop has taken the connection
    control,    \* control[g]: who holds the control mutex
    connection, \* connection[g]: who holds the connection mutex
    process,    \* process[g]: what the connection mutex guards
    restarts,   \* restarts[g]: ProcessState::restart_count
    status,     \* status[g]: ProcessState::status
    queued,     \* queued[g]: observations in the queue
    worker,     \* worker[g]: "none", "new", "waiting", "working", "ended", "dropped"
    call,       \* call[x]: what a thread, or the worker of generation x, does
    shown       \* the status in the health signal's slot

hookState == <<stopping, silent, halted, control, connection, process, restarts, status, queued, worker>>
vars == <<current, revoked, hookState, call, shown>>

Actors == Threads \cup Generations
Statuses == {"Starting", "Ready", "Unhealthy", "Stopped"}

Idle == [pc |-> "idle", gen |-> None, asked |-> FALSE, health |-> None, then |-> "idle"]
At(pc, g) == [Idle EXCEPT !.pc = pc, !.gen = g]
Goto(x, pc) == call' = [call EXCEPT ![x].pc = pc]

Init ==
    /\ current = None
    /\ revoked = {}
    /\ stopping = {}
    /\ silent = {}
    /\ halted = {}
    /\ control = [g \in Generations |-> None]
    /\ connection = [g \in Generations |-> None]
    /\ process = [g \in Generations |-> "none"]
    /\ restarts = [g \in Generations |-> 0]
    /\ status = [g \in Generations |-> "Starting"]
    /\ queued = [g \in Generations |-> 0]
    /\ worker = [g \in Generations |-> "none"]
    /\ call = [x \in Actors |-> Idle]
    /\ shown = None

-----------------------------------------------------------------------------
(* Health: set under the state mutex, published after it *)

\* set_health: the new status is also what x is going to report.
SetHealth(x, s, then) ==
    /\ status' = [status EXCEPT ![call[x].gen] = s]
    /\ call' = [call EXCEPT ![x] = [@ EXCEPT !.pc = "report", !.health = s, !.then = then]]

Report(x) ==
    /\ call[x].pc = "report"
    /\ shown' = call[x].health
    /\ call' = [call EXCEPT ![x] = IF @.then = "idle" THEN Idle
                                  ELSE [@ EXCEPT !.pc = call[x].then, !.health = None]]
    /\ UNCHANGED <<current, revoked, hookState>>

-----------------------------------------------------------------------------
(* PersistentHook::call (a gate or a transform) and send_observe (the worker) *)

\* A generation a handle can refer to: its scope has been handed out.
Opened(g) == worker[g] \notin {"none", "new", "dropped"}

Call(t, g) ==
    /\ call[t] = Idle
    /\ Opened(g)
    /\ g \notin revoked \cup stopping
    /\ call' = [call EXCEPT ![t] = At("try", g)]
    /\ UNCHANGED <<current, revoked, hookState, shown>>

\* The worker: an item, if it is not told to stop; the item is gone from the queue.
PopObserve(g) ==
    /\ worker[g] = "waiting"
    /\ queued[g] > 0
    /\ queued' = [queued EXCEPT ![g] = @ - 1]
    /\ IF g \in stopping
       THEN worker' = [worker EXCEPT ![g] = "ended"] /\ UNCHANGED call
       ELSE /\ worker' = [worker EXCEPT ![g] = "working"]
            /\ call' = [call EXCEPT ![g] = At("try", g)]
    /\ UNCHANGED <<current, revoked, stopping, silent, halted, control, connection, process, restarts,
                   status, shown>>

WorkerStops(g) ==
    /\ worker[g] = "waiting"
    /\ queued[g] = 0
    /\ g \in silent
    /\ worker' = [worker EXCEPT ![g] = "ended"]
    /\ UNCHANGED <<current, revoked, stopping, silent, halted, control, connection, process, restarts,
                   status, queued, call, shown>>

\* The worker goes back to its queue, a thread to its caller.
BackTo(x) == worker' = IF x \in Generations THEN [worker EXCEPT ![x] = "waiting"] ELSE worker

\* control_lock.try_lock(): whoever finds it held is Busy and gives up.
TryControl(x) ==
    LET g == call[x].gen IN
    /\ call[x].pc = "try"
    /\ IF control[g] = None
       THEN control' = [control EXCEPT ![g] = x] /\ Goto(x, "lock") /\ UNCHANGED worker
       ELSE call' = [call EXCEPT ![x] = Idle] /\ BackTo(x) /\ UNCHANGED control
    /\ UNCHANGED <<current, revoked, stopping, silent, halted, connection, process, restarts, status,
                   queued, shown>>

LockConnection(x) ==
    LET g == call[x].gen IN
    /\ call[x].pc = "lock"
    /\ connection[g] = None
    /\ connection' = [connection EXCEPT ![g] = x]
    /\ Goto(x, IF process[g] = "none" THEN "restart" ELSE "request")
    /\ UNCHANGED <<current, revoked, stopping, silent, halted, control, process, restarts, status,
                   queued, worker, shown>>

\* Mutant: restart_locked does not ask whether the hook is being stopped.
RestartAnyway(x) ==
    LET g == call[x].gen IN
    /\ call[x].pc = "restart"
    /\ IF restarts[g] >= MaxRestarts
         THEN SetHealth(x, "Unhealthy", "leave") /\ UNCHANGED restarts
         ELSE /\ restarts' = [restarts EXCEPT ![g] = @ + 1]
              /\ SetHealth(x, "Starting", "start")
    /\ UNCHANGED <<current, revoked, stopping, silent, halted, control, connection, process, queued,
                   worker, shown>>

\* restart_locked up to start_connection: the stop, the budget, the back-off.
Restart(x) ==
    LET g == call[x].gen IN
    /\ call[x].pc = "restart"
    /\ IF g \in stopping
         THEN Goto(x, "leave") /\ UNCHANGED <<restarts, status>>
       ELSE IF restarts[g] >= MaxRestarts
         THEN SetHealth(x, "Unhealthy", "leave") /\ UNCHANGED restarts
         ELSE /\ restarts' = [restarts EXCEPT ![g] = @ + 1]
              /\ SetHealth(x, "Starting", "start")
    /\ UNCHANGED <<current, revoked, stopping, silent, halted, control, connection, process, queued,
                   worker, shown>>

\* start_connection launches the process and waits for its hello, or fails.
Start(x) ==
    LET g == call[x].gen IN
    /\ call[x].pc = "start"
    /\ \/ /\ process' = [process EXCEPT ![g] = "up"]
          /\ SetHealth(x, "Ready", IF call[x].asked THEN "leave" ELSE "request")
       \/ UNCHANGED process /\ SetHealth(x, "Unhealthy", "leave")
    /\ UNCHANGED <<current, revoked, stopping, silent, halted, control, connection, restarts, queued,
                   worker, shown>>

\* The request is answered, or fails or times out: then the process goes and is restarted.
Request(x) ==
    LET g == call[x].gen IN
    /\ call[x].pc = "request"
    /\ \/ Goto(x, "leave") /\ UNCHANGED <<process, status>>
       \/ /\ process' = [process EXCEPT ![g] = "none"]
          /\ status' = [status EXCEPT ![g] = "Unhealthy"]
          /\ call' = [call EXCEPT ![x] = [@ EXCEPT !.pc = "report", !.health = "Unhealthy",
                                                   !.then = "restart", !.asked = TRUE]]
    /\ UNCHANGED <<current, revoked, stopping, silent, halted, control, connection, restarts, queued,
                   worker, shown>>

\* Mutant: the connection is not given back.
LeaveHolding(x) ==
    LET g == call[x].gen IN
    /\ call[x].pc = "leave"
    /\ control' = [control EXCEPT ![g] = None]
    /\ call' = [call EXCEPT ![x] = Idle]
    /\ BackTo(x)
    /\ UNCHANGED <<current, revoked, stopping, silent, halted, connection, process, restarts, status,
                   queued, shown>>

\* Both guards are dropped.
Leave(x) ==
    LET g == call[x].gen IN
    /\ call[x].pc = "leave"
    /\ control' = [control EXCEPT ![g] = None]
    /\ connection' = [connection EXCEPT ![g] = None]
    /\ call' = [call EXCEPT ![x] = Idle]
    /\ BackTo(x)
    /\ UNCHANGED <<current, revoked, stopping, silent, halted, process, restarts, status, queued, shown>>

-----------------------------------------------------------------------------
(* submit_observe *)

Submit(t, g) ==
    /\ call[t] = Idle
    /\ Opened(g)
    /\ g \notin revoked \cup stopping
    /\ call' = [call EXCEPT ![t] = At("push", g)]
    /\ UNCHANGED <<current, revoked, hookState, shown>>

\* Mutant: whether the queue is full is not looked at.
PushAnyway(t) ==
    /\ call[t].pc = "push"
    /\ queued' = [queued EXCEPT ![call[t].gen] = @ + 1]
    /\ call' = [call EXCEPT ![t] = Idle]
    /\ UNCHANGED <<current, revoked, stopping, silent, halted, control, connection, process,
                   restarts, status, worker, shown>>

\* The queue takes an observation, in place of the one waiting if only the latest counts.
\* What is dropped is counted, and health reported as it is at that moment.
Push(t) ==
    LET g == call[t].gen
        full == IF LatestOnly THEN queued[g] > 0 ELSE queued[g] >= Capacity
    IN
    /\ call[t].pc = "push"
    /\ queued' = [queued EXCEPT ![g] = IF full \/ g \in silent THEN @ ELSE @ + 1]
    /\ call' = [call EXCEPT ![t] = IF full \/ g \in silent
                                  THEN [At("report", g) EXCEPT !.health = status[g]]
                                  ELSE Idle]
    /\ UNCHANGED <<current, revoked, stopping, silent, halted, control, connection, process,
                   restarts, status, worker, shown>>

-----------------------------------------------------------------------------
(* Scopes: revoke and open *)

\* HookScopeState::stop, from a handle or from revoke_scope, which first forgets the scope.
Revoke(t, g) ==
    /\ call[t] = Idle
    /\ Opened(g)
    /\ g \notin revoked
    /\ revoked' = revoked \cup {g}
    /\ stopping' = stopping \cup {g}
    /\ current' \in {current, IF current = g THEN None ELSE current}
    /\ call' = [call EXCEPT ![t] = At("silence", g)]
    /\ UNCHANGED <<silent, halted, control, connection, process, restarts, status, queued,
                   worker, shown>>

\* The queue is stopped and emptied before the connection is waited for.
Silence(t) ==
    LET g == call[t].gen IN
    /\ call[t].pc = "silence"
    /\ silent' = silent \cup {g}
    /\ queued' = [queued EXCEPT ![g] = 0]
    /\ Goto(t, "take")
    /\ UNCHANGED <<current, revoked, stopping, halted, control, connection, process, restarts,
                   status, worker, shown>>

\* connection.lock().take() waits for whoever works with the process; then set_health.
TakeConnection(t) ==
    LET g == call[t].gen IN
    /\ call[t].pc = "take"
    /\ connection[g] = None
    /\ process' = [process EXCEPT ![g] = "none"]
    /\ halted' = halted \cup {g}
    /\ SetHealth(t, "Stopped", "mark")
    /\ UNCHANGED <<current, revoked, stopping, silent, control, connection, restarts, queued,
                   worker, shown>>

\* Every slot of the scope's id is marked, whichever generation published in it.
MarkStopped(t) ==
    /\ call[t].pc = "mark"
    /\ shown' = IF shown = None THEN None ELSE "Stopped"
    /\ call' = [call EXCEPT ![t] = Idle]
    /\ UNCHANGED <<current, revoked, hookState>>

\* open_scope: no live scope is found, and a new one is built outside the lock.
Open(t, g) ==
    /\ call[t] = Idle
    /\ current \in revoked \cup {None}
    /\ worker[g] = "none" /\ \A h \in Generations : h < g => worker[h] # "none"
    /\ current' = None
    /\ worker' = [worker EXCEPT ![g] = "new"]
    /\ call' = [call EXCEPT ![t] = At("initial", g)]
    /\ UNCHANGED <<revoked, stopping, silent, halted, control, connection, process, restarts, status,
                   queued, shown>>

StartInitial(t) ==
    LET g == call[t].gen IN
    /\ call[t].pc = "initial"
    /\ \/ process' = [process EXCEPT ![g] = "up"] /\ SetHealth(t, "Ready", "publish")
       \/ UNCHANGED process /\ SetHealth(t, "Unhealthy", "publish")
    /\ UNCHANGED <<current, revoked, stopping, silent, halted, control, connection, restarts, queued,
                   worker, shown>>

\* HookScopeState::new publishes the health of its hooks, and the scope is entered.
Publish(t) ==
    LET g == call[t].gen IN
    /\ call[t].pc = "publish"
    /\ shown' = status[g]
    /\ current' = g
    /\ worker' = [worker EXCEPT ![g] = "waiting"]
    /\ call' = [call EXCEPT ![t] = Idle]
    /\ UNCHANGED <<revoked, stopping, silent, halted, control, connection, process, restarts, status, queued>>

\* HookScopeState::new fails after it has started the hook (another hook's definition is wrong, a
\* thread cannot be spawned).  Nobody stops the hook: if its worker waits on the queue already, it
\* keeps the hook and its process for ever; if not, both go.
FailOpen(t) ==
    LET g == call[t].gen IN
    /\ call[t].pc = "publish"
    /\ worker' = [worker EXCEPT ![g] = "dropped"]
    /\ \E left \in {process[g], "none"} : process' = [process EXCEPT ![g] = left]
    /\ call' = [call EXCEPT ![t] = Idle]
    /\ UNCHANGED <<current, revoked, stopping, silent, halted, control, connection, restarts, status,
                   queued, shown>>

-----------------------------------------------------------------------------
WorkOf(x) ==
    \/ TryControl(x) \/ LockConnection(x) \/ Restart(x) \/ Start(x) \/ Request(x)
    \/ Leave(x) \/ Report(x)
StopSteps(t) == Silence(t) \/ TakeConnection(t) \/ MarkStopped(t)
OpenSteps(t) == StartInitial(t) \/ Publish(t) \/ FailOpen(t)
ThreadSteps(t) == WorkOf(t) \/ StopSteps(t) \/ OpenSteps(t) \/ Push(t)
WorkerSteps(g) == WorkOf(g) \/ PopObserve(g) \/ WorkerStops(g)

Next ==
    \/ \E t \in Threads :
         \/ ThreadSteps(t)
         \/ \E g \in Generations : Call(t, g) \/ Submit(t, g) \/ Revoke(t, g) \/ Open(t, g)
    \/ \E g \in Generations : WorkerSteps(g)

Spec == Init /\ [][Next]_vars

\* Threads go on with what they have begun, and workers run; requests and starts end by their
\* timeouts.
Fairness ==
    /\ \A t \in Threads : WF_vars(ThreadSteps(t))
    /\ \A g \in Generations : WF_vars(WorkerSteps(g))

FairSpec == Spec /\ Fairness

-----------------------------------------------------------------------------
Pcs == {"idle", "try", "lock", "restart", "start", "request", "leave", "report", "push",
        "silence", "take", "mark", "initial", "publish"}

TypeOK ==
    /\ current \in Generations \cup {None}
    /\ {revoked, stopping, silent, halted} \subseteq SUBSET Generations
    /\ control \in [Generations -> Actors \cup {None}]
    /\ connection \in [Generations -> Actors \cup {None}]
    /\ process \in [Generations -> {"none", "up"}]
    /\ restarts \in [Generations -> 0 .. MaxRestarts]
    /\ status \in [Generations -> Statuses]
    /\ queued \in [Generations -> 0 .. Capacity]
    /\ worker \in [Generations -> {"none", "new", "waiting", "working", "ended", "dropped"}]
    /\ call \in [Actors -> [pc: Pcs, gen: Generations \cup {None}, asked: BOOLEAN,
                            health: Statuses \cup {None}, then: Pcs]]
    /\ shown \in Statuses \cup {None}

\* A stopped hook has no process and gets none, although calls, the worker's observations and
\* their restarts may be anywhere when stop comes (stop, restart_locked).
StoppedForGood == \A g \in halted : process[g] = "none" /\ status[g] = "Stopped"

\* Revoking ends, and with it the worker: nobody waits for a lock that is not given back or for
\* a queue that nobody stops.
RevokeEnds == \A g \in Generations : (g \in stopping) ~> (g \in halted /\ worker[g] = "ended")

=============================================================================
