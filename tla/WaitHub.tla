------------------------------- MODULE WaitHub -------------------------------
(***************************************************************************)
(* The wait hub of a session (crates/pi-whim-wait): sources publish events *)
(* into a bounded ring, clients wait for a matching event in the           *)
(* foreground or start background tasks, and one coordinator thread        *)
(* settles the tasks.  What is settled is told to observers through a      *)
(* queue of updates that whoever finds it idle drains.                     *)
(*                                                                         *)
(* HubState is one mutex with one condition variable (changed).  What the  *)
(* code does under the mutex is one step; notify_all, which comes after    *)
(* the mutex is released and after the queue of updates is drained, is a   *)
(* step of its own.  parking_lot's condition variables have no spurious    *)
(* wakeups.  A deadline may have passed whenever the clock is looked at.   *)
(***************************************************************************)
EXTENDS Naturals, FiniteSets, SequencesExt

CONSTANTS
    Clients,             \* threads that use a WaitHub or a WaitSourceHandle
    Coordinator,         \* the thread "pi-whim-wait"
    Tasks,               \* ids of background tasks, each used once (random UUIDs)
    Owner,               \* Owner[k]: the owner a task k is started for
    Sources,             \* ids of sources
    Payloads,            \* event payloads, as far as matchers tell them apart
    Selections,          \* the sets of sources queries name
    EventRetention,      \* 1024 in the code
    CompletedRetention,  \* 128
    HubLimit,            \* 256
    OwnerLimit,          \* 32
    MaxSequence          \* bound on the number of events published

ASSUME HubAssumption ==
    /\ Coordinator \notin Clients
    /\ Tasks \cap Clients = {}
    /\ IsFiniteSet(Tasks)
    /\ Selections \subseteq SUBSET Sources
    /\ EventRetention \in Nat \ {0}
    /\ CompletedRetention \in Nat
    /\ HubLimit \in Nat
    /\ OwnerLimit \in Nat
    /\ MaxSequence \in Nat

VARIABLES
    \* HubState
    source,      \* source[s]: "absent" from the map, "open" or "closed"
    events,      \* the ring of retained events, oldest first
    sequence,    \* next_sequence: the number of the last event published
    order,       \* task_order: the tasks in the map, oldest first
    completed,   \* completed_order: those that are terminal, oldest first
    status,      \* status[k]: the last status k had in the map
    query,       \* query[k]: what task or foreground client k waits for
    shutdown,
    \* UpdateQueue and its observers
    updates,     \* pending
    draining,
    unsaid,      \* unsaid[x]: completions of the update x drains that are still to be emitted
    taskState,   \* the value of task_state
    told,        \* completions emitted, oldest first
    \* threads and time
    pc,          \* pc[x]: where thread x is
    timed,       \* tasks whose deadline the coordinator's wait_for counts
    late,        \* the task whose deadline has woken the coordinator
    \* history
    log          \* every event published

hubState == <<source, events, sequence, order, completed, status, query, shutdown>>
updateQueue == <<updates, draining, unsaid, taskState, told>>
vars == <<hubState, updateQueue, pc, timed, late, log>>

Threads == Clients \cup {Coordinator}
Waiters == Tasks \cup Clients

Event == [seq : Nat, source : Sources, payload : Payloads]

\* A monitor selects sources and payloads after a sequence number; a timer nothing.  No
\* source named is WaitSourceSelection::Any (an empty list of sources is refused).
Monitor == [kind : {"monitor"}, sel : SUBSET Sources, wants : SUBSET Payloads,
            after : 0 .. MaxSequence]
Timer == [kind |-> "timer"]
NoQuery == [kind |-> "none"]

Terminal == {"matched", "source_closed", "timed_out", "elapsed", "cancelled"}
Statuses == Terminal \cup {"unstarted", "pending"}

-----------------------------------------------------------------------------
(* What a query waits for *)

Selected(q) == IF q.sel = {} THEN {s \in Sources : source[s] # "absent"} ELSE q.sel

Matches(q, e) ==
    /\ q.kind = "monitor"
    /\ e.seq > q.after
    /\ e.source \in Selected(q)
    /\ e.payload \in q.wants

MatchRetained(q) == \E i \in DOMAIN events : Matches(q, events[i])
SourcesClosed(q) == q.kind = "monitor" /\ \A s \in Selected(q) : source[s] # "open"

\* Mutant of Outcome: the deadline is looked at first.
OutcomeDeadlineFirst(q, passed) ==
    CASE q.kind = "timer" -> IF passed THEN "elapsed" ELSE "pending"
      [] q.kind # "timer" /\ passed -> "timed_out"
      [] q.kind # "timer" /\ ~passed -> IF MatchRetained(q) THEN "matched"
                                    ELSE IF SourcesClosed(q) THEN "source_closed"
                                    ELSE "pending"

\* What settle_tasks and wait find for query q, whose deadline may have passed: they
\* look for an event, then for closed sources, then at the clock.
Outcome(q, passed) ==
    IF MatchRetained(q) THEN "matched"
    ELSE IF SourcesClosed(q) THEN "source_closed"
    ELSE IF ~passed THEN "pending"
    ELSE IF q.kind = "timer" THEN "elapsed" ELSE "timed_out"

\* The members of the sequence s that are in S, in the order of s.  (SelectSeq with the
\* selection as a set: it can be reasoned about.)
Kept(s, S) ==
    LET kept[n \in 0 .. Len(s)] ==
            IF n = 0 THEN <<>>
            ELSE IF s[n] \in S THEN Append(kept[n - 1], s[n]) ELSE kept[n - 1]
    IN  kept[Len(s)]

Pending(k) == k \in ToSet(order) /\ status[k] = "pending"
PendingTasks == {k \in Tasks : Pending(k)}

\* task_snapshots: what the map shows of every task.
Snapshot == [k \in Tasks |-> IF k \in ToSet(order) THEN status[k] ELSE "gone"]

Init ==
    /\ source = [s \in Sources |-> "absent"]
    /\ events = <<>>
    /\ sequence = 0
    /\ order = <<>>
    /\ completed = <<>>
    /\ status = [k \in Tasks |-> "unstarted"]
    /\ query = [x \in Waiters |-> NoQuery]
    /\ shutdown = FALSE
    /\ updates = <<>>
    /\ draining = FALSE
    /\ unsaid = [x \in Threads |-> <<>>]
    /\ taskState = Snapshot
    /\ told = <<>>
    /\ pc = [x \in Threads |-> IF x = Coordinator THEN "settle" ELSE "idle"]
    /\ timed = {}
    /\ late = {}
    /\ log = <<>>

GoTo(x, l) == pc' = [pc EXCEPT ![x] = l]

-----------------------------------------------------------------------------
(* Sources: register_source, publish, close *)

\* A registration needs the id to be free or closed; it makes a new generation.  A
\* handle of an older generation can neither publish nor close any more.
RegisterSource(c, s) ==
    /\ pc[c] = "idle" /\ ~shutdown
    /\ source[s] # "open"
    /\ source' = [source EXCEPT ![s] = "open"]
    /\ GoTo(c, "notify")
    /\ UNCHANGED <<events, sequence, order, completed, status, query, shutdown, updateQueue,
                   timed, late, log>>

\* The ring keeps the newest events.  Its mutant keeps all of them.
RetainedAll(es) == es
Retained(es) == IF Len(es) > EventRetention THEN Tail(es) ELSE es

Publish(c, s, p) ==
    LET e == [seq |-> sequence + 1, source |-> s, payload |-> p] IN
    /\ pc[c] = "idle" /\ ~shutdown
    /\ source[s] = "open"
    /\ sequence < MaxSequence
    /\ sequence' = sequence + 1
    /\ events' = Retained(Append(events, e))
    /\ log' = Append(log, e)
    /\ GoTo(c, "notify")
    /\ UNCHANGED <<source, order, completed, status, query, shutdown, updateQueue,
                   timed, late>>

\* Mutant of CloseSource: nobody is notified.
CloseSourceSilently(c, s) ==
    /\ pc[c] = "idle"
    /\ source[s] = "open"
    /\ source' = [source EXCEPT ![s] = "closed"]
    /\ UNCHANGED <<events, sequence, order, completed, status, query, shutdown, updateQueue,
                   pc, timed, late, log>>

\* close, or the drop of the last handle of the source's generation.
CloseSource(c, s) ==
    /\ pc[c] = "idle"
    /\ source[s] = "open"
    /\ source' = [source EXCEPT ![s] = "closed"]
    /\ GoTo(c, "notify")
    /\ UNCHANGED <<events, sequence, order, completed, status, query, shutdown, updateQueue,
                   timed, late, log>>

\* changed.notify_all
NotifyAll(c) ==
    /\ pc[c] = "notify"
    /\ pc' = [x \in Threads |->
          IF x = c THEN "idle"
          ELSE IF pc[x] = "parked" THEN IF x = Coordinator THEN "settle" ELSE "wait"
          ELSE pc[x]]
    /\ timed' = {}
    /\ UNCHANGED <<hubState, updateQueue, late, log>>

-----------------------------------------------------------------------------
(* The queue of updates: enqueue_update and drain_updates *)

\* Mutant of Enqueue: a thread drains its update even while another one drains.
EnqueueAlwaysDrain(x, done, next) ==
    /\ updates' = Append(updates, [tasks |-> Snapshot', done |-> done])
    /\ draining' = TRUE
    /\ GoTo(x, "drain")

\* Thread x adds an update.  If nobody drains it does so itself, then goes on to next.
Enqueue(x, done, next) ==
    /\ updates' = Append(updates, [tasks |-> Snapshot', done |-> done])
    /\ draining' = TRUE
    /\ GoTo(x, IF draining THEN next ELSE "drain")

\* Where a thread goes on after it has drained.
AfterDrain(x) == IF x = Coordinator THEN "settle" ELSE "notify"

\* Take the next update and set task_state, whose observers run in this thread.
DrainNext(x) ==
    /\ pc[x] = "drain" /\ unsaid[x] = <<>>
    /\ updates # <<>>
    /\ taskState' = Head(updates).tasks
    /\ unsaid' = [unsaid EXCEPT ![x] = Head(updates).done]
    /\ updates' = Tail(updates)
    /\ UNCHANGED <<hubState, draining, told, pc, timed, late, log>>

\* Emit one completion of the update.
DrainEmit(x) ==
    /\ pc[x] = "drain" /\ unsaid[x] # <<>>
    /\ told' = Append(told, Head(unsaid[x]))
    /\ unsaid' = [unsaid EXCEPT ![x] = Tail(@)]
    /\ UNCHANGED <<hubState, updates, draining, taskState, pc, timed, late, log>>

\* Mutants of DrainEnd: it does not look for further updates; the flag stays up.
DrainEndEarly(x) ==
    /\ pc[x] = "drain" /\ unsaid[x] = <<>>
    /\ draining' = FALSE
    /\ GoTo(x, AfterDrain(x))
    /\ UNCHANGED <<hubState, updates, unsaid, taskState, told, timed, late, log>>

DrainEndFlagged(x) ==
    /\ pc[x] = "drain" /\ unsaid[x] = <<>>
    /\ updates = <<>>
    /\ GoTo(x, AfterDrain(x))
    /\ UNCHANGED <<hubState, updates, draining, unsaid, taskState, told, timed, late, log>>

DrainEnd(x) ==
    /\ pc[x] = "drain" /\ unsaid[x] = <<>>
    /\ updates = <<>>
    /\ draining' = FALSE
    /\ GoTo(x, AfterDrain(x))
    /\ UNCHANGED <<hubState, updates, unsaid, taskState, told, timed, late, log>>

-----------------------------------------------------------------------------
(* Background tasks *)

\* prepare_query: the sources selected exist; after defaults to the last event.
Prepared(q) == Selected(q) # {} /\ \A s \in Selected(q) : source[s] # "absent"

\* Mutant of WithinLimits: only the hub's limit is looked at.
WithinLimitsOfHub(k) == Cardinality(PendingTasks) < HubLimit
WithinLimits(k) ==
    /\ Cardinality(PendingTasks) < HubLimit
    /\ Cardinality({j \in PendingTasks : Owner[j] = Owner[k]}) < OwnerLimit

\* start_background (a monitor) and start_background_timer (a timer).
StartBackground(c, k, q) ==
    /\ pc[c] = "idle" /\ ~shutdown
    /\ status[k] = "unstarted"
    /\ WithinLimits(k)
    /\ q.kind = "monitor" => Prepared(q)
    /\ status' = [status EXCEPT ![k] = "pending"]
    /\ query' = [query EXCEPT ![k] = q]
    /\ order' = Append(order, k)
    /\ Enqueue(c, <<>>, "notify")
    /\ UNCHANGED <<source, events, sequence, completed, shutdown, unsaid, taskState, told,
                   timed, late, log>>

\* The completed snapshots that leave the map, oldest first, when those of done join.
\* Its mutant: completed snapshots are kept for ever.
EvictedNever(done) == <<>>
Evicted(done) ==
    LET all == completed \o done IN SubSeq(all, 1, Len(all) - CompletedRetention)

\* complete_task for each task of done, in that order.
Complete(done, outcome) ==
    LET all == completed \o done
        gone == Evicted(done)
    IN
    /\ status' = [k \in Tasks |-> IF k \in ToSet(done) THEN outcome[k] ELSE status[k]]
    /\ query' = [x \in Waiters |-> IF x \in ToSet(done) THEN NoQuery ELSE query[x]]
    /\ completed' = SubSeq(all, Len(gone) + 1, Len(all))
    /\ order' = Kept(order, Tasks \ ToSet(gone))

\* cancel and cancel_any; a terminal task's snapshot is returned and nothing changes.
Cancel(c, k) ==
    /\ pc[c] = "idle" /\ ~shutdown
    /\ Pending(k)
    /\ Complete(<<k>>, [j \in {k} |-> "cancelled"])
    /\ Enqueue(c, <<k>>, "notify")
    /\ UNCHANGED <<source, events, sequence, shutdown, unsaid, taskState, told,
                   timed, late, log>>

-----------------------------------------------------------------------------
(* The coordinator thread *)

\* The tasks that settle_tasks settles, in task order, if the deadlines of passed have
\* passed when it looks at the clock.
Decided(passed) ==
    Kept(order, {k \in PendingTasks : Outcome(query[k], k \in passed) # "pending"})

Settle(passed) ==
    LET outcome == [k \in ToSet(Decided(passed)) |-> Outcome(query[k], k \in passed)] IN
    /\ pc[Coordinator] = "settle" /\ ~shutdown
    /\ late \cap PendingTasks \subseteq passed
    /\ Decided(passed) # <<>>
    /\ Complete(Decided(passed), outcome)
    /\ Enqueue(Coordinator, Decided(passed), "settle")
    /\ late' = {}
    /\ UNCHANGED <<source, events, sequence, shutdown, unsaid, taskState, told, timed, log>>

\* wait_for the earliest deadline of a pending task, or wait.
CoordinatorParks ==
    /\ pc[Coordinator] = "settle" /\ ~shutdown
    /\ Decided(late) = <<>>
    /\ timed' = PendingTasks
    /\ late' = {}
    /\ GoTo(Coordinator, "parked")
    /\ UNCHANGED <<hubState, updateQueue, log>>

\* The earliest of the deadlines passes.
CoordinatorTimesOut ==
    /\ pc[Coordinator] = "parked"
    /\ \E k \in timed : late' = {k}
    /\ timed' = {}
    /\ GoTo(Coordinator, "settle")
    /\ UNCHANGED <<hubState, updateQueue, log>>

CoordinatorStops ==
    /\ pc[Coordinator] = "settle" /\ shutdown
    /\ GoTo(Coordinator, "stopped")
    /\ UNCHANGED <<hubState, updateQueue, timed, late, log>>

-----------------------------------------------------------------------------
(* Foreground waits: wait (a monitor) and wait_timer (a timer) *)

\* A wait that finds its outcome at once returns it and changes nothing.
WaitBegins(c, q) ==
    /\ pc[c] = "idle" /\ ~shutdown
    /\ q.kind = "monitor" => Prepared(q)
    /\ Outcome(q, FALSE) = "pending"
    /\ query' = [query EXCEPT ![c] = q]
    /\ GoTo(c, "parked")
    /\ UNCHANGED <<source, events, sequence, order, completed, status, shutdown, updateQueue,
                   timed, late, log>>

\* Woken, with the mutex: return the outcome, or sleep again.
WaitReturns(c) ==
    /\ pc[c] = "wait"
    /\ Outcome(query[c], FALSE) # "pending"
    /\ query' = [query EXCEPT ![c] = NoQuery]
    /\ GoTo(c, "idle")
    /\ UNCHANGED <<source, events, sequence, order, completed, status, shutdown, updateQueue,
                   timed, late, log>>

WaitParks(c) ==
    /\ pc[c] = "wait"
    /\ Outcome(query[c], FALSE) = "pending"
    /\ GoTo(c, "parked")
    /\ UNCHANGED <<hubState, updateQueue, timed, late, log>>

\* Woken by the deadline or after it: whatever the outcome, the wait returns.
WaitTimesOut(c) ==
    /\ pc[c] \in {"wait", "parked"}
    /\ query' = [query EXCEPT ![c] = NoQuery]
    /\ GoTo(c, "idle")
    /\ UNCHANGED <<source, events, sequence, order, completed, status, shutdown, updateQueue,
                   timed, late, log>>

-----------------------------------------------------------------------------
(* The end of the hub *)

\* The last WaitHub is dropped, so no client is inside a call of it; one that publishes or
\* closes through a source's handle may still be about to notify.  The drop itself wakes
\* the coordinator, and waits for it.
DropHub ==
    /\ ~shutdown
    /\ \A c \in Clients : pc[c] \in {"idle", "notify"}
    /\ shutdown' = TRUE
    /\ GoTo(Coordinator, IF pc[Coordinator] = "parked" THEN "settle" ELSE pc[Coordinator])
    /\ timed' = {}
    /\ UNCHANGED <<source, events, sequence, order, completed, status, query, updateQueue,
                   late, log>>

Queries == [kind : {"monitor"}, sel : Selections, wants : SUBSET Payloads \ {{}},
            after : {0, sequence}] \cup {Timer}

Call(c) ==
    \/ \E s \in Sources : RegisterSource(c, s) \/ CloseSource(c, s)
    \/ \E s \in Sources, p \in Payloads : Publish(c, s, p)
    \/ \E k \in Tasks : Cancel(c, k) \/ \E q \in Queries : StartBackground(c, k, q)
    \/ \E q \in Queries : WaitBegins(c, q)

Drain(x) == DrainNext(x) \/ DrainEmit(x) \/ DrainEnd(x)
Waiting(c) == WaitReturns(c) \/ WaitParks(c) \/ WaitTimesOut(c)
SettleLate(k) == \E passed \in SUBSET PendingTasks : k \in passed /\ Settle(passed)
Coordinating ==
    \/ \E passed \in SUBSET PendingTasks : Settle(passed)
    \/ CoordinatorParks
    \/ CoordinatorTimesOut
    \/ CoordinatorStops

Next ==
    \/ \E c \in Clients : Call(c) \/ NotifyAll(c) \/ Waiting(c)
    \/ \E x \in Threads : Drain(x)
    \/ Coordinating
    \/ DropHub

Spec == Init /\ [][Next]_vars

\* Threads keep running, inside the hub's code and the observers it calls.  Nobody has
\* to call the hub.  A wait_for ends, because every timeout is finite; so a task whose
\* deadline the coordinator keeps looking at is one day found late.
Fairness ==
    /\ \A c \in Clients : WF_vars(NotifyAll(c)) /\ WF_vars(Waiting(c))
    /\ \A x \in Threads : WF_vars(Drain(x))
    /\ WF_vars(Coordinating)
    /\ \A k \in Tasks : SF_vars(SettleLate(k))

FairSpec == Spec /\ Fairness

-----------------------------------------------------------------------------
(* Properties *)

TypeOK ==
    /\ source \in [Sources -> {"absent", "open", "closed"}]
    /\ events \in Seq(Event) /\ Len(events) <= EventRetention
    /\ sequence \in 0 .. MaxSequence
    /\ order \in Seq(Tasks) /\ completed \in Seq(Tasks)
    /\ status \in [Tasks -> Statuses]
    /\ query \in [Waiters -> Monitor \cup {Timer, NoQuery}]
    /\ shutdown \in BOOLEAN /\ draining \in BOOLEAN
    /\ updates \in Seq([tasks : [Tasks -> Statuses \cup {"gone"}], done : Seq(Tasks)])
    /\ unsaid \in [Threads -> Seq(Tasks)] /\ told \in Seq(Tasks)
    /\ taskState \in [Tasks -> Statuses \cup {"gone"}]
    /\ pc \in [Threads -> {"idle", "notify", "drain", "wait", "parked", "settle", "stopped"}]
    /\ timed \subseteq Tasks /\ late \subseteq Tasks
    /\ log \in Seq(Event)

\* Every completion is emitted exactly once and in the order in which tasks settled,
\* however threads that settle, cancel and start tasks share the draining: what was
\* emitted, what is in hand and what is queued never hold a task twice, and together
\* they are the tasks that have settled.
ExactlyOnce ==
    LET queued == FlattenSeq([i \in DOMAIN updates |-> updates[i].done])
        holders == {x \in Threads : unsaid[x] # <<>>}
        inHand == IF holders = {} THEN <<>> ELSE unsaid[CHOOSE x \in holders : TRUE]
        all == told \o inHand \o queued
    IN  /\ \A i, j \in DOMAIN all : i # j => all[i] # all[j]
        /\ ToSet(all) = {k \in Tasks : status[k] \in Terminal}
        /\ IsSuffix(completed, all)

\* task_state never lags behind what observers have been told: a task whose completion
\* was emitted is not shown as pending, and when no thread drains, task_state is the
\* hub's table of tasks.
TaskStateFresh ==
    /\ \A k \in ToSet(told) : taskState[k] # "pending"
    /\ ~draining => taskState = Snapshot

\* No wakeup is lost between looking and sleeping: if a sleeping waiter could return, or
\* the sleeping coordinator could settle a task or does not count the deadline of a
\* pending one, then a client is on its way to notify_all.
NoLostWakeup ==
    LET notifying == \E c \in Clients : pc[c] \in {"notify", "drain"} IN
    /\ pc[Coordinator] = "parked" =>
          (notifying \/ (Decided({}) = <<>> /\ PendingTasks \subseteq timed))
    /\ \A c \in Clients :
          pc[c] = "parked" => (notifying \/ Outcome(query[c], FALSE) = "pending")

\* An event always wins over the deadline and over the end of its source: a task ends
\* timed out or closed only if none of the EventRetention newest events published so
\* far matches it.
EventWins ==
    [][\A k \in Tasks :
          (status[k] = "pending" /\ status'[k] \in {"timed_out", "source_closed"}) =>
              \A i \in DOMAIN log : i + EventRetention > sequence => ~Matches(query[k], log[i])]_vars

\* The table of tasks is bounded: pending tasks by the hub's and the owners' limits,
\* finished ones by the retention.
TasksBounded ==
    /\ Cardinality(PendingTasks) <= HubLimit
    /\ \A k \in Tasks : Cardinality({j \in PendingTasks : Owner[j] = Owner[k]}) <= OwnerLimit
    /\ Len(order) <= HubLimit + CompletedRetention

\* Every background task ends, and its end is told to the observers, unless the hub is
\* dropped before.
TasksEnd == \A k \in Tasks : status[k] = "pending" ~> (k \in ToSet(told) \/ shutdown)

=============================================================================
