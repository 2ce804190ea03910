----------------------------- MODULE StateSignal -----------------------------
(***************************************************************************)
(* A StateSignal and the Signal it emits through: state.rs, signal.rs and  *)
(* subscription.rs in pi-whim-signal.                                      *)
(*                                                                         *)
(* Callers set the value, complete the signal and subscribe to it while    *)
(* others do the same.  The value and the signal are guarded by two        *)
(* mutexes, taken one after the other, and callbacks run under neither:    *)
(* one thread at a time drains the signal's queue and calls the observers  *)
(* it knew when it took the event.  An observer of the state hears through *)
(* a replay gate, a queue of its own that starts with the value it found.  *)
(*                                                                         *)
(* A callback that sets, subscribes or unsubscribes does what another      *)
(* thread does while the callback runs: with the signal draining it only   *)
(* enqueues.  A value is numbered by the store that made it current.       *)
(***************************************************************************)
EXTENDS Naturals, Sequences, SequencesExt

CONSTANTS
    Callers,
    Plain,      \* observers of Signal::subscribe
    Gated,      \* observers of StateSignal::subscribe
    MaxValue,   \* a bound on the values stored: 1 is the initial one
    Nil         \* no value

Observers == Plain \cup Gated

SignalAssumption ==
    /\ Plain \cap Gated = {}
    /\ MaxValue \in Nat \ {0}
    /\ Nil \notin Callers \cup Observers \cup Nat
    /\ Nil \notin [replaying: BOOLEAN, draining: BOOLEAN, pending: Seq(Nat)]

VARIABLES
    value, terminated,                      \* StateValue
    queue, draining, terminal, listeners,   \* SignalState
    gate,       \* gate[o]: ReplayState, or Nil
    task,       \* task[t]: what the thread is doing
    heard,      \* heard[o]: the events o was called with
    emitted,    \* history: the events enqueued, in that order
    since,      \* history: since[o] = Len(emitted) when o subscribed, or Nil
    initial,    \* history: initial[o] is the value o found
    gone,       \* history: the observers that have unsubscribed
    panicked    \* a callback has panicked: one does in a behaviour, through any drains around it

signal == <<queue, draining, terminal, listeners>>
remembered == <<emitted, since, initial, gone>>
signalVars == <<value, terminated, signal, gate, task, heard, remembered, panicked>>

End == 0    \* SignalEvent::Complete, or Error
NoTask == [pc |-> "idle", event |-> Nil, left |-> <<>>, obs |-> Nil, signalling |-> FALSE]
NoGate == [replaying |-> FALSE, draining |-> FALSE, pending |-> <<>>]

SignalInit ==
    /\ value = 1 /\ terminated = FALSE
    /\ queue = <<>> /\ draining = FALSE /\ terminal = FALSE /\ listeners = <<>>
    /\ gate = [o \in Observers |-> Nil]
    /\ task = [t \in Callers |-> NoTask]
    /\ heard = [o \in Observers |-> <<>>]
    /\ emitted = <<>>
    /\ since = [o \in Observers |-> Nil]
    /\ initial = [o \in Observers |-> Nil]
    /\ gone = {}
    /\ panicked = FALSE

\* The listeners without o, who is one of them once at most.
Without(s, o) == IF Contains(s, o) THEN RemoveAt(s, CHOOSE i \in DOMAIN s : s[i] = o) ELSE s

Hears(o, event) == heard' = [heard EXCEPT ![o] = Append(@, event)]
Continue(t, pc) == task' = [task EXCEPT ![t].pc = pc]
Done(t) == task' = [task EXCEPT ![t] = NoTask]

-----------------------------------------------------------------------------
(* Writers: the value under one mutex, the event under another *)

\* set and update: a stored value is emitted, by the same thread, after the mutex.
Set(t) ==
    /\ task[t] = NoTask
    /\ ~terminated
    /\ value < MaxValue
    /\ value' = value + 1
    /\ task' = [task EXCEPT ![t] = [NoTask EXCEPT !.pc = "emit", !.event = value + 1]]
    /\ UNCHANGED <<terminated, signal, gate, heard, remembered, panicked>>

\* complete and error.
Complete(t) ==
    /\ task[t] = NoTask
    /\ ~terminated
    /\ terminated' = TRUE
    /\ task' = [task EXCEPT ![t] = [NoTask EXCEPT !.pc = "emit", !.event = End]]
    /\ UNCHANGED <<value, signal, gate, heard, remembered, panicked>>

\* Signal::enqueue: refused after the terminal event; whoever finds nobody draining drains.
Enqueue(t) ==
    /\ task[t].pc = "emit"
    /\ IF terminal
       THEN Done(t) /\ UNCHANGED <<signal, remembered>>
       ELSE /\ terminal' = (task[t].event = End)
            /\ queue' = Append(queue, task[t].event)
            /\ emitted' = Append(emitted, task[t].event)
            /\ draining' = TRUE
            /\ task' = [task EXCEPT ![t] = IF draining THEN NoTask
                                           ELSE [NoTask EXCEPT !.pc = "drain", !.signalling = TRUE]]
            /\ UNCHANGED <<listeners, since, initial, gone>>
    /\ UNCHANGED <<value, terminated, gate, heard, panicked>>

-----------------------------------------------------------------------------
(* The drain: one event at a time, to the observers of the moment *)

Drain(t) ==
    /\ task[t].pc = "drain"
    /\ IF queue = <<>>
       THEN Done(t) /\ draining' = FALSE /\ UNCHANGED <<queue, terminal, listeners>>
       ELSE /\ queue' = Tail(queue)
            /\ task' = [task EXCEPT ![t].pc = "dispatch", ![t].event = Head(queue)]
            /\ UNCHANGED <<draining, terminal, listeners>>
    /\ UNCHANGED <<value, terminated, gate, heard, remembered, panicked>>

\* dispatch takes a snapshot of the listeners, and forgets them when the signal ends.
Dispatch(t) ==
    /\ task[t].pc = "dispatch"
    /\ task' = [task EXCEPT ![t].pc = "deliver", ![t].left = listeners]
    /\ listeners' = IF task[t].event = End THEN <<>> ELSE listeners
    /\ UNCHANGED <<value, terminated, queue, draining, terminal, gate, heard, remembered, panicked>>

Delivered(t) ==
    /\ task[t].pc = "deliver"
    /\ task[t].left = <<>>
    /\ Continue(t, "drain")
    /\ UNCHANGED <<value, terminated, signal, gate, heard, remembered, panicked>>

DeliverPlain(t) ==
    /\ task[t].pc = "deliver"
    /\ task[t].left # <<>>
    /\ LET o == Head(task[t].left) IN
       /\ gate[o] = Nil
       /\ Hears(o, task[t].event)
    /\ task' = [task EXCEPT ![t].left = Tail(@)]
    /\ UNCHANGED <<value, terminated, signal, gate, remembered, panicked>>

\* enqueue_replay: the gate's queue takes the event; it is drained by whoever is not kept from it.
DeliverGated(t) ==
    /\ task[t].pc = "deliver"
    /\ task[t].left # <<>>
    /\ LET o == Head(task[t].left) IN
       /\ gate[o] # Nil
       /\ LET drains == ~(gate[o].replaying \/ gate[o].draining) IN
          /\ gate' = [gate EXCEPT ![o].pending = Append(@, task[t].event),
                                  ![o].draining = @ \/ drains]
          /\ task' = [task EXCEPT ![t].left = Tail(@), ![t].obs = o,
                                  ![t].pc = IF drains THEN "gate" ELSE "deliver"]
    /\ UNCHANGED <<value, terminated, signal, heard, remembered, panicked>>

\* drain_replay: the drainer of the signal goes back to it, a subscriber to its caller.
DrainGate(t) ==
    LET o == task[t].obs IN
    /\ task[t].pc = "gate"
    /\ IF gate[o].pending = <<>>
       THEN /\ gate' = [gate EXCEPT ![o].draining = FALSE]
            /\ IF task[t].signalling THEN Continue(t, "deliver") ELSE Done(t)
            /\ UNCHANGED heard
       ELSE /\ gate' = [gate EXCEPT ![o].pending = Tail(@)]
            /\ Hears(o, Head(gate[o].pending))
            /\ UNCHANGED task
    /\ UNCHANGED <<value, terminated, signal, remembered, panicked>>

\* Mutant: the unwinding restores the gate but not the signal.
UnwindGateOnly(t) ==
    /\ draining' = draining
    /\ listeners' = listeners

\* The guards lower the flags of the drains that unwind; a subscriber's subscription is dropped.
Unwind(t) ==
    /\ draining' = (draining /\ ~task[t].signalling)
    /\ listeners' = IF task[t].signalling THEN listeners ELSE Without(listeners, task[t].obs)

PanicPlain(t) ==
    /\ ~panicked
    /\ task[t].pc = "deliver"
    /\ task[t].left # <<>>
    /\ LET o == Head(task[t].left) IN gate[o] = Nil /\ Hears(o, task[t].event)
    /\ Unwind(t)
    /\ Done(t)
    /\ panicked' = TRUE
    /\ UNCHANGED <<value, terminated, queue, terminal, gate, remembered>>

PanicGated(t) ==
    LET o == task[t].obs IN
    /\ ~panicked
    /\ task[t].pc = "gate"
    /\ gate[o].pending # <<>>
    /\ Hears(o, Head(gate[o].pending))
    /\ gate' = [gate EXCEPT ![o].pending = Tail(@), ![o].draining = FALSE]
    /\ Unwind(t)
    /\ Done(t)
    /\ panicked' = TRUE
    /\ UNCHANGED <<value, terminated, queue, terminal, remembered>>

\* The panic goes on through the drain in whose callback its thread called: what another
\* thread does while a callback runs is also what the callback does.
PanicReaches(t) ==
    /\ panicked
    /\ task[t].pc \in {"deliver", "gate"}
    /\ gate' = IF task[t].pc = "gate" THEN [gate EXCEPT ![task[t].obs].draining = FALSE] ELSE gate
    /\ Unwind(t)
    /\ Done(t)
    /\ UNCHANGED <<value, terminated, queue, terminal, heard, remembered, panicked>>

-----------------------------------------------------------------------------
(* Observers: they come once and may leave at any time *)

Joins(o) == since' = [since EXCEPT ![o] = Len(emitted)]

\* Signal::subscribe: after the terminal event its replay is all there is to hear.
SubscribePlain(o) ==
    /\ Joins(o)
    /\ IF terminal
       THEN Hears(o, End) /\ UNCHANGED listeners
       ELSE listeners' = Append(listeners, o) /\ UNCHANGED heard
    /\ UNCHANGED <<value, terminated, queue, draining, terminal, gate, task, emitted, initial,
                   gone, panicked>>

\* StateSignal::subscribe: under the value's mutex the gate is registered and the value read.
\* A terminated state has nothing to replay: the signal is subscribed to as it is.
SubscribeGated(t, o) ==
    /\ ~terminated
    /\ Joins(o)
    /\ listeners' = Append(listeners, o)
    /\ gate' = [gate EXCEPT ![o] = [NoGate EXCEPT !.replaying = TRUE]]
    /\ initial' = [initial EXCEPT ![o] = value]
    /\ task' = [task EXCEPT ![t] = [NoTask EXCEPT !.pc = "replay", !.obs = o, !.event = value]]
    /\ UNCHANGED <<value, terminated, queue, draining, terminal, heard, emitted, gone,
                   panicked>>

Subscribe(t, o) ==
    /\ task[t] = NoTask
    /\ since[o] = Nil
    /\ IF o \in Gated /\ ~terminated THEN SubscribeGated(t, o) ELSE SubscribePlain(o)

\* The value found goes through the gate, behind whatever is in it by now.
Replay(t) ==
    /\ task[t].pc = "replay"
    /\ gate' = [gate EXCEPT ![task[t].obs].pending = Append(@, task[t].event)]
    /\ Continue(t, "finish")
    /\ UNCHANGED <<value, terminated, signal, heard, remembered, panicked>>

\* Mutant: the gate opens and nobody looks at what is waiting in it.
OpenGateOnly(t) ==
    /\ task[t].pc = "finish"
    /\ gate' = [gate EXCEPT ![task[t].obs].replaying = FALSE]
    /\ Done(t)
    /\ UNCHANGED <<value, terminated, signal, heard, remembered, panicked>>

\* finish_replay: the gate opens and what is in it is heard.
FinishReplay(t) ==
    /\ task[t].pc = "finish"
    /\ gate' = [gate EXCEPT ![task[t].obs].replaying = FALSE, ![task[t].obs].draining = TRUE]
    /\ Continue(t, "gate")
    /\ UNCHANGED <<value, terminated, signal, heard, remembered, panicked>>

Unsubscribe(t, o) ==
    /\ task[t] = NoTask
    /\ Contains(listeners, o)
    /\ \A u \in Callers : (task[u].obs = o => task[u].signalling)
    /\ listeners' = Without(listeners, o)
    /\ gone' = gone \cup {o}
    /\ UNCHANGED <<value, terminated, queue, draining, terminal, gate, task, heard, emitted,
                   since, initial, panicked>>

-----------------------------------------------------------------------------
SignalNext ==
    \E t \in Callers :
        \/ Set(t) \/ Complete(t) \/ Enqueue(t)
        \/ Drain(t) \/ Dispatch(t) \/ Delivered(t) \/ DeliverPlain(t) \/ DeliverGated(t)
        \/ DrainGate(t) \/ PanicPlain(t) \/ PanicGated(t) \/ PanicReaches(t)
        \/ Replay(t) \/ FinishReplay(t)
        \/ \E o \in Observers : Subscribe(t, o) \/ Unsubscribe(t, o)

SignalSpec == SignalInit /\ [][SignalNext]_signalVars

-----------------------------------------------------------------------------
Events == 0 .. MaxValue
Pcs == {"idle", "emit", "drain", "dispatch", "deliver", "gate", "replay", "finish"}

SignalTypeOK ==
    /\ value \in 1 .. MaxValue
    /\ {terminated, draining, terminal, panicked} \subseteq BOOLEAN
    /\ queue \in Seq(Events) /\ emitted \in Seq(Events)
    /\ listeners \in Seq(Observers)
    /\ gate \in [Observers -> {Nil} \cup [replaying: BOOLEAN, draining: BOOLEAN,
                                          pending: Seq(Events)]]
    /\ task \in [Callers -> [pc: Pcs, event: Events \cup {Nil}, left: Seq(Observers),
                             obs: Observers \cup {Nil}, signalling: BOOLEAN]]
    /\ heard \in [Observers -> Seq(Events)]
    /\ since \in [Observers -> Nat \cup {Nil}]
    /\ initial \in [Observers -> Nat \cup {Nil}]
    /\ gone \subseteq Observers

\* One thread drains the signal, and one the gate of an observer, exactly while the flag is up:
\* no event is delivered by two threads at once, and none waits for a drain that has unwound.
OneDrainer ==
    /\ \A t, u \in Callers : task[t].signalling /\ task[u].signalling => t = u
    /\ draining <=> \E t \in Callers : task[t].signalling
    /\ \A o \in Observers : gate[o] # Nil =>
         (gate[o].draining <=> \E t \in Callers : task[t].pc = "gate" /\ task[t].obs = o)

Quiet == (\A t \in Callers : task[t] = NoTask) /\ ~panicked

\* The events o was promised: what was enqueued after it subscribed.
Promised(o) == SubSeq(emitted, since[o] + 1, Len(emitted))

\* Once everybody has returned, a plain observer that stayed has heard everything enqueued since
\* it subscribed, in that order, and a gated one every bit of it, whoever drained.
HearsAllSince ==
    Quiet => \A o \in Observers :
        since[o] # Nil /\ o \notin gone =>
            IF gate[o] = Nil THEN IsSuffix(Promised(o), heard[o]) /\ IsSuffix(heard[o], emitted)
            ELSE ToSet(Promised(o)) \subseteq ToSet(heard[o])

\* StateSignal::subscribe promises the current value "before changes": a concurrent newer value
\* is queued behind the initial replay, never delivered before it.
ReplayFirst == \A o \in Gated :
    gate[o] # Nil /\ heard[o] # <<>> => Head(heard[o]) = initial[o]
=============================================================================
