-------------------------- MODULE StateSignalProofs --------------------------
(***************************************************************************)
(* TLAPS proofs about StateSignal, for any threads, observers and number   *)
(* of values: one thread drains the signal and one each gate, exactly      *)
(* while the flag is up, and once everybody has returned an observer that  *)
(* stayed has heard everything enqueued since it subscribed.               *)
(*                                                                         *)
(* SignalInv is what both rest on: the stage of a thread says whether it   *)
(* drains the signal and which gate it is at, one thread at most is at a   *)
(* gate, and it keeps the gate shut while it replays.  HearInv adds where  *)
(* each observer stands in what was emitted.  Log: the queue is the end of *)
(* what was emitted, and the event in the drainer's hand the last one      *)
(* before it.  An observer still among those the drainer is to call stands *)
(* one event behind what was taken from the queue, any other at it; up to  *)
(* there a plain observer has heard the events in their order, and a gated *)
(* one has heard them or will find them in its gate.  A panicking callback *)
(* loses that, and with it only the parts that speak of it: what remains   *)
(* says that the signal can be drained again.                              *)
(***************************************************************************)
EXTENDS StateSignal, SequenceLemmas

-----------------------------------------------------------------------------
(* The invariant: who drains what *)

Task == [pc: Pcs, event: Events \cup {Nil}, left: Seq(Observers),
         obs: Observers \cup {Nil}, signalling: BOOLEAN]
Gate == [replaying: BOOLEAN, draining: BOOLEAN, pending: Seq(Events)]

\* Where a drainer of the signal is, and the stages at the gate of an observer.
Draws == {"drain", "dispatch", "deliver"}
Stages == {"replay", "finish", "gate"}
At(t, o) == task[t].pc \in Stages /\ task[t].obs = o

\* A thread's stage says whether it drains the signal, and which gate it is at.
Roles ==
    \A t \in Callers :
        /\ task[t].pc \in Draws => task[t].signalling
        /\ task[t].signalling => task[t].pc \in Draws \cup {"gate"}
        /\ task[t].pc \in Stages => task[t].obs \in Observers /\ gate[task[t].obs] # Nil
        /\ task[t].pc \in {"emit", "dispatch", "deliver", "replay"} => task[t].event \in Events
        /\ task[t].pc = "gate" /\ task[t].signalling => task[t].event \in Events

\* One thread at most is at a gate; it replays exactly while the gate is kept shut.
Gates ==
    /\ \A t, u \in Callers, o \in Observers : At(t, o) /\ At(u, o) => t = u
    /\ \A o \in Observers : gate[o] # Nil =>
         (gate[o].replaying <=> \E t \in Callers : At(t, o) /\ task[t].pc # "gate")

\* Who has not subscribed is known nowhere.
Strangers ==
    \A o \in Observers : since[o] = Nil => gate[o] = Nil

SignalInv == SignalTypeOK /\ Roles /\ Gates /\ Strangers /\ OneDrainer

-----------------------------------------------------------------------------
(* The invariant: where in what was emitted each observer stands *)

\* The events that a drainer has taken from the queue, the one in its hand included.
Taken == Len(emitted) - Len(queue)

\* The event in the hand of t, which drains, has still to be delivered to o.
Awaits(t, o) ==
    /\ task[t].signalling
    /\ \/ task[t].pc = "dispatch" /\ o \in ToSet(listeners)
       \/ task[t].pc \in {"deliver", "gate"} /\ o \in ToSet(task[t].left)
Due(o) == \E t \in Callers : Awaits(t, o)

\* How far o has been called.
Reached(o) == IF Due(o) THEN Taken - 1 ELSE Taken

\* The queue is the end of what was emitted, the event in hand the last one before it; the
\* terminal event is the last of all.
Log ==
    /\ Len(queue) <= Len(emitted)
    /\ \A i \in 1 .. Len(queue) : queue[i] = emitted[Taken + i]
    /\ \A t \in Callers : task[t].signalling /\ task[t].pc # "drain" =>
          Taken >= 1 /\ task[t].event = emitted[Taken]
    /\ \A i \in 1 .. Len(emitted) : emitted[i] = End <=> (terminal /\ i = Len(emitted))
    /\ terminal => Len(emitted) >= 1

\* Nobody is called twice for an event, and who has not subscribed is called for none.
Lists ==
    /\ Unrepeated(listeners)
    /\ \A t \in Callers : Unrepeated(task[t].left)
    /\ \A o \in Observers : since[o] = Nil =>
          /\ o \notin ToSet(listeners)
          /\ \A t \in Callers : o \notin ToSet(task[t].left)
          /\ heard[o] = <<>>

\* Nothing waits that nobody drains.
Attended ==
    /\ ~draining => queue = <<>>
    /\ \A o \in Observers : gate[o] # Nil =>
          (gate[o].replaying \/ gate[o].draining \/ gate[o].pending = <<>>)

\* o came after the terminal event, and has heard that.
Late(o) ==
    /\ terminal /\ gate[o] = Nil /\ heard[o] = <<End>> /\ since[o] = Len(emitted)
    /\ o \notin ToSet(listeners)
    /\ \A t \in Callers : o \notin ToSet(task[t].left)

\* What the observer of a gate has heard or will find there.
Known(o) == ToSet(heard[o]) \cup ToSet(gate[o].pending)

\* o has heard what was emitted, up to where it stands; what comes, it will be called for.
HeardPlain(o) ==
    /\ Len(heard[o]) <= Reached(o)
    /\ Reached(o) - since[o] <= Len(heard[o])
    /\ \A i \in 1 .. Len(heard[o]) : heard[o][i] = emitted[Reached(o) - Len(heard[o]) + i]
HeardGated(o) ==
    \A i \in 1 .. Len(emitted) : since[o] < i /\ i <= Reached(o) => emitted[i] \in Known(o)

InStep(o) ==
    /\ since[o] \in Nat /\ since[o] <= Len(emitted)
    /\ o \notin ToSet(listeners) => terminal /\ queue = <<>>
    /\ IF gate[o] = Nil THEN HeardPlain(o) ELSE HeardGated(o)

Place(o) == since[o] # Nil /\ o \notin gone => Late(o) \/ InStep(o)

HearInv ==
    /\ SignalInv /\ Log /\ Lists
    /\ ~panicked => Attended /\ \A o \in Observers : Place(o)

-----------------------------------------------------------------------------
LEMMA SignalInitial == SignalAssumption /\ SignalInit => SignalInv
<1> SUFFICES ASSUME SignalAssumption, SignalInit PROVE SignalInv
    OBVIOUS
<1>1. SignalTypeOK
    <2>1. NoTask \in Task /\ NoTask.signalling = FALSE
        BY EmptySeq DEF NoTask, Task, Pcs
    <2>2. task \in [Callers -> Task]
        BY <2>1 DEF SignalInit
    <2>3. value \in 1 .. MaxValue
        BY DEF SignalAssumption, SignalInit
    <2>8. {terminated, draining, terminal, panicked} \subseteq BOOLEAN
        BY Zenon DEF SignalInit
    <2>4. queue \in Seq(Events) /\ emitted \in Seq(Events) /\ listeners \in Seq(Observers)
        BY EmptySeq DEF SignalInit
    <2>5. heard \in [Observers -> Seq(Events)]
        BY EmptySeq DEF SignalInit
    <2>6. /\ gate \in [Observers -> {Nil} \cup Gate]
          /\ since \in [Observers -> Nat \cup {Nil}] /\ initial \in [Observers -> Nat \cup {Nil}]
          /\ gone \subseteq Observers
        BY DEF SignalInit
    <2>7. QED
        BY <2>2, <2>3, <2>4, <2>5, <2>6, <2>8 DEF SignalTypeOK, Task, Gate
<1>2. Roles /\ Gates /\ Strangers /\ OneDrainer
    BY DEF SignalAssumption, SignalInit, NoTask, Roles, Gates, Strangers, OneDrainer, At, Draws, Stages
<1>3. QED
    BY <1>1, <1>2 DEF SignalInv

-----------------------------------------------------------------------------
(* The first part is kept *)

\* SignalTypeOK in parts.
ValueTypes ==
    /\ value \in 1 .. MaxValue
    /\ {terminated, draining, terminal, panicked} \subseteq BOOLEAN
    /\ queue \in Seq(Events) /\ emitted \in Seq(Events)
    /\ listeners \in Seq(Observers)
ObserverTypes ==
    /\ heard \in [Observers -> Seq(Events)]
    /\ since \in [Observers -> Nat \cup {Nil}]
    /\ initial \in [Observers -> Nat \cup {Nil}]
    /\ gone \subseteq Observers

LEMMA TypesInParts ==
    /\ SignalTypeOK <=> /\ ValueTypes /\ ObserverTypes
                  /\ gate \in [Observers -> {Nil} \cup Gate] /\ task \in [Callers -> Task]
    /\ SignalTypeOK' <=> /\ ValueTypes' /\ ObserverTypes'
                   /\ gate' \in [Observers -> {Nil} \cup Gate] /\ task' \in [Callers -> Task]
BY DEF SignalTypeOK, ValueTypes, ObserverTypes, Task, Gate

\* What becomes of the drain of the signal when t goes on to r: nothing, t takes it up, or t
\* ends it.
DrainGoes(t, r) ==
    /\ draining' \in BOOLEAN
    /\ \/ r.signalling = task[t].signalling /\ draining' = draining
       \/ r.signalling /\ draining' /\ ~draining
       \/ task[t].signalling /\ ~r.signalling /\ ~draining'

\* What is true of a thread at r by itself.
RoleFits(r) ==
    /\ r.pc \in Draws => r.signalling
    /\ r.signalling => r.pc \in Draws \cup {"gate"}
    /\ r.pc \in {"emit", "dispatch", "deliver", "replay"} => r.event \in Events
    /\ r.pc = "gate" /\ r.signalling => r.event \in Events

LEMMA OneSignalDrainer ==
    ASSUME SignalInv, NEW t \in Callers, NEW r \in Task, task' = [task EXCEPT ![t] = r],
           DrainGoes(t, r)
    PROVE  /\ task' \in [Callers -> Task] /\ task'[t] = r
           /\ \A u \in Callers : u # t => task'[u] = task[u]
           /\ \A u, v \in Callers : task'[u].signalling /\ task'[v].signalling => u = v
           /\ draining' <=> \E u \in Callers : task'[u].signalling
<1>1. /\ task \in [Callers -> Task] /\ task'[t] = r
      /\ \A u \in Callers : u # t => task'[u] = task[u]
    BY TypesInParts DEF SignalInv
<1>2. task' \in [Callers -> Task]
    BY <1>1
<1>3. /\ \A u, v \in Callers : task[u].signalling /\ task[v].signalling => u = v
      /\ draining <=> \E u \in Callers : task[u].signalling
    BY DEF SignalInv, OneDrainer
<1>4. QED
    BY <1>1, <1>2, <1>3 DEF DrainGoes

\* A step away from all gates.
LEMMA DrawsKeep ==
    ASSUME SignalInv, NEW t \in Callers, NEW r \in Task, task' = [task EXCEPT ![t] = r],
           gate' = gate, \A o \in Observers : since'[o] = Nil => since[o] = Nil,
           task[t].pc \notin Stages, r.pc \notin Stages, RoleFits(r), DrainGoes(t, r)
    PROVE  /\ task' \in [Callers -> Task] /\ gate' \in [Observers -> {Nil} \cup Gate]
           /\ Roles' /\ Gates' /\ Strangers' /\ OneDrainer'
<1>1. /\ task' \in [Callers -> Task] /\ task'[t] = r
      /\ \A u \in Callers : u # t => task'[u] = task[u]
      /\ \A u, v \in Callers : task'[u].signalling /\ task'[v].signalling => u = v
      /\ draining' <=> \E u \in Callers : task'[u].signalling
    BY OneSignalDrainer
<1>2. gate' \in [Observers -> {Nil} \cup Gate]
    BY TypesInParts DEF SignalInv
<1>3. Roles'
    BY <1>1 DEF SignalInv, Roles, RoleFits
<1>4. \A u \in Callers, o \in Observers : ((At(u, o))' <=> At(u, o)) /\ (At(u, o) => task'[u] = task[u])
    BY <1>1 DEF At
<1>5. Gates'
    BY <1>4 DEF SignalInv, Gates
<1>6. Strangers'
    BY DEF SignalInv, Strangers
<1>7. OneDrainer'
    <2>1. \A u \in Callers, o \in Observers :
              task'[u].pc = "gate" /\ task'[u].obs = o <=> task[u].pc = "gate" /\ task[u].obs = o
        BY <1>1 DEF Stages
    <2>2. QED
        BY <1>1, <2>1 DEF SignalInv, OneDrainer
<1>8. QED
    BY <1>1, <1>2, <1>3, <1>5, <1>6, <1>7

\* A step at the gate of o, which is g after it: t comes, moves on or leaves, or only puts
\* something in.
LEMMA GateKeeps ==
    ASSUME SignalAssumption, SignalInv, NEW t \in Callers, NEW r \in Task,
           task' = [task EXCEPT ![t] = r],
           NEW o \in Observers, NEW g \in Gate, gate' = [gate EXCEPT ![o] = g],
           since'[o] # Nil, \A p \in Observers : p # o => since'[p] = since[p],
           task[t].pc \in Stages => task[t].obs = o, r.pc \in Stages => r.obs = o,
           RoleFits(r), DrainGoes(t, r),
           \/ /\ task[t].pc \notin Stages /\ r.pc \notin Stages /\ gate[o] # Nil
              /\ g.replaying = gate[o].replaying /\ g.draining = gate[o].draining
           \/ /\ \A u \in Callers : u # t => ~At(u, o)
              /\ g.replaying <=> r.pc \in {"replay", "finish"}
              /\ g.draining <=> r.pc = "gate"
    PROVE  /\ task' \in [Callers -> Task] /\ gate' \in [Observers -> {Nil} \cup Gate]
           /\ Roles' /\ Gates' /\ Strangers' /\ OneDrainer'
<1>1. /\ task' \in [Callers -> Task] /\ task'[t] = r
      /\ \A u \in Callers : u # t => task'[u] = task[u]
      /\ \A u, v \in Callers : task'[u].signalling /\ task'[v].signalling => u = v
      /\ draining' <=> \E u \in Callers : task'[u].signalling
    BY OneSignalDrainer
<1>2. /\ gate' \in [Observers -> {Nil} \cup Gate] /\ gate'[o] = g
      /\ \A p \in Observers : p # o => gate'[p] = gate[p]
    BY TypesInParts DEF SignalInv
<1>3. g # Nil
    BY DEF SignalAssumption, Gate, Events
<1>4. Roles'
    <2>1. ASSUME NEW u \in Callers, u # t, task'[u].pc \in Stages
          PROVE  task'[u].obs \in Observers /\ gate'[task'[u].obs] # Nil
        BY <1>1, <1>2, <1>3, <2>1 DEF SignalInv, Roles
    <2>2. task'[t].pc \in Stages => task'[t].obs \in Observers /\ gate'[task'[t].obs] # Nil
        BY <1>1, <1>2, <1>3
    <2>3. QED
        BY <1>1, <2>1, <2>2 DEF SignalInv, Roles, RoleFits
<1>5. \A u \in Callers, p \in Observers : u # t => ((At(u, p))' <=> At(u, p))
    BY <1>1 DEF At
<1>6. \A p \in Observers : p # o => ~At(t, p) /\ ~At(t, p)'
    BY <1>1 DEF At
<1>7. At(t, o)' <=> r.pc \in Stages
    BY <1>1 DEF At
<1>8. CASE /\ task[t].pc \notin Stages /\ r.pc \notin Stages /\ gate[o] # Nil
           /\ g.replaying = gate[o].replaying /\ g.draining = gate[o].draining
    <2>1. ~At(t, o) /\ ~At(t, o)'
        BY <1>1, <1>8 DEF At
    <2>2. \A u \in Callers, p \in Observers : ((At(u, p))' <=> At(u, p)) /\ (At(u, p) => task'[u] = task[u])
        BY <1>1, <1>5, <1>6, <2>1
    <2>3. \A p \in Observers : gate'[p] # Nil =>
              /\ gate[p] # Nil /\ gate'[p].replaying = gate[p].replaying
              /\ gate'[p].draining = gate[p].draining
        BY <1>2, <1>8
    <2>4. Gates'
        BY <2>2, <2>3 DEF SignalInv, Gates
    <2>5. \A u \in Callers, p \in Observers :
              task'[u].pc = "gate" /\ task'[u].obs = p <=> task[u].pc = "gate" /\ task[u].obs = p
        BY <2>2 DEF At, Stages
    <2>6. OneDrainer'
        BY <1>1, <2>3, <2>5 DEF SignalInv, OneDrainer
    <2>7. QED
        BY <1>1, <1>2, <1>4, <2>4, <2>6, <1>3 DEF SignalInv, Strangers
<1>9. CASE /\ \A u \in Callers : u # t => ~At(u, o)
           /\ g.replaying <=> r.pc \in {"replay", "finish"}
           /\ g.draining <=> r.pc = "gate"
    <2>1. \A u \in Callers : At(u, o)' => u = t
        BY <1>5, <1>9
    <2>2. \A u \in Callers, p \in Observers : p # o =>
              ((At(u, p))' <=> At(u, p)) /\ (At(u, p) => task'[u] = task[u])
        BY <1>1, <1>5, <1>6
    <2>3. Gates'
        <3>1. \A u, v \in Callers, p \in Observers : At(u, p)' /\ At(v, p)' => u = v
            BY <2>1, <2>2 DEF SignalInv, Gates
        <3>2. ASSUME NEW p \in Observers, p # o, gate'[p] # Nil
              PROVE  gate'[p].replaying <=> \E u \in Callers : At(u, p)' /\ task'[u].pc # "gate"
            BY <1>2, <2>2, <3>2 DEF SignalInv, Gates
        <3>3. gate'[o].replaying <=> \E u \in Callers : At(u, o)' /\ task'[u].pc # "gate"
            <4>1. r.pc \in {"replay", "finish"} <=> (r.pc \in Stages /\ r.pc # "gate")
                BY DEF Stages
            <4>2. gate'[o].replaying <=> (At(t, o)' /\ task'[t].pc # "gate")
                BY <1>1, <1>2, <1>7, <1>9, <4>1
            <4>3. QED
                BY <2>1, <4>2
        <3>4. QED
            BY <3>1, <3>2, <3>3 DEF Gates
    <2>4. OneDrainer'
        <3>1. ASSUME NEW p \in Observers, p # o, gate'[p] # Nil
              PROVE  gate'[p].draining <=> \E u \in Callers : task'[u].pc = "gate" /\ task'[u].obs = p
            <4>1. \A u \in Callers :
                      task'[u].pc = "gate" /\ task'[u].obs = p <=> task[u].pc = "gate" /\ task[u].obs = p
                BY <2>2, <3>1 DEF At, Stages
            <4>2. QED
                BY <1>2, <3>1, <4>1 DEF SignalInv, OneDrainer
        <3>2. gate'[o].draining <=> \E u \in Callers : task'[u].pc = "gate" /\ task'[u].obs = o
            <4>1. \A u \in Callers : task'[u].pc = "gate" /\ task'[u].obs = o => u = t
                BY <2>1 DEF At, Stages
            <4>2. gate'[o].draining <=> task'[t].pc = "gate" /\ task'[t].obs = o
                BY <1>1, <1>2, <1>9 DEF Stages
            <4>3. QED
                BY <4>1, <4>2
        <3>3. QED
            BY <1>1, <3>1, <3>2 DEF OneDrainer
    <2>5. QED
        BY <1>1, <1>2, <1>4, <2>3, <2>4, <1>3 DEF SignalInv, Strangers
<1>10. QED
    BY <1>8, <1>9

\* Without takes one member away.
LEMMA WithoutFacts ==
    ASSUME NEW T, NEW s \in Seq(T), NEW o
    PROVE  /\ Without(s, o) \in Seq(T)
           /\ Unrepeated(s) => /\ Unrepeated(Without(s, o))
                               /\ ToSet(Without(s, o)) = ToSet(s) \ {o}
<1>1. CASE ~Contains(s, o)
    BY <1>1, MembersOf DEF Without, Contains
<1>2. CASE Contains(s, o)
    <2> DEFINE k == CHOOSE i \in DOMAIN s : s[i] = o
               a == SubSeq(s, 1, k - 1)
               b == SubSeq(s, k + 1, Len(s))
    <2>1. k \in 1 .. Len(s) /\ s[k] = o /\ Len(s) \in Nat
        BY <1>2 DEF Contains
    <2> HIDE DEF k
    <2>2. Without(s, o) = a \o b
        BY <1>2 DEF Without, RemoveAt, k
    <2>3. /\ 1 \in Nat \ {0} /\ k - 1 \in Int /\ k - 1 <= Len(s)
          /\ k + 1 \in Nat \ {0} /\ Len(s) \in Int /\ Len(s) <= Len(s)
        BY <2>1
    <2>4. /\ a \in Seq(T) /\ ToSet(a) = {s[i] : i \in 1 .. k - 1}
          /\ Unrepeated(s) => Unrepeated(a)
        BY <2>3, MembersSubSeq
    <2>5. /\ b \in Seq(T) /\ ToSet(b) = {s[i] : i \in k + 1 .. Len(s)}
          /\ Unrepeated(s) => Unrepeated(b)
        BY <2>3, MembersSubSeq
    <2> HIDE DEF a, b
    <2>6. a \o b \in Seq(T)
        BY <2>4, <2>5, MembersConcat
    <2>7. ASSUME Unrepeated(s)
          PROVE  Unrepeated(Without(s, o)) /\ ToSet(Without(s, o)) = ToSet(s) \ {o}
        <3>1. \A i, j \in 1 .. Len(s) : s[i] = s[j] => i = j
            BY <2>7 DEF Unrepeated
        <3>2. \A i \in 1 .. k - 1 : i \in 1 .. Len(s) /\ i # k
            BY <2>1
        <3>3. \A i \in k + 1 .. Len(s) : i \in 1 .. Len(s) /\ i # k /\ i \notin 1 .. k - 1
            BY <2>1
        <3>4. \A i \in 1 .. Len(s) : i \in 1 .. k - 1 \/ i = k \/ i \in k + 1 .. Len(s)
            BY <2>1
        <3>5. \A x : x \in ToSet(s) <=> \E i \in 1 .. Len(s) : s[i] = x
            BY MembersOf
        <3>6. ToSet(a) \cap ToSet(b) = {}
            BY <2>4, <2>5, <3>1, <3>2, <3>3
        <3>7. ToSet(a) \cup ToSet(b) = ToSet(s) \ {o}
            BY <2>1, <2>4, <2>5, <3>1, <3>2, <3>3, <3>4, <3>5
        <3>8. ToSet(a \o b) = ToSet(a) \cup ToSet(b)
            BY <2>4, <2>5, MembersConcat
        <3>9. Unrepeated(a \o b)
            BY <2>4, <2>5, <2>7, <3>6, MembersConcat
        <3>10. QED
            BY <2>2, <3>7, <3>8, <3>9, Zenon
    <2>8. QED
        BY <2>2, <2>6, <2>7
<1>3. QED
    BY <1>1, <1>2

-----------------------------------------------------------------------------
(* The actions keep the first part *)

LEMMA SetKeeps ==
    ASSUME SignalAssumption, SignalInv, NEW t \in Callers, Set(t)
    PROVE  SignalInv'
<1> DEFINE r == [NoTask EXCEPT !.pc = "emit", !.event = value + 1]
<1>1. /\ task' = [task EXCEPT ![t] = r] /\ value' = value + 1 /\ value < MaxValue
      /\ UNCHANGED <<terminated, signal, gate, heard, remembered, panicked>> /\ task[t] = NoTask
    BY DEF Set
<1>2. value \in 1 .. MaxValue /\ value + 1 \in 1 .. MaxValue /\ value + 1 \in Events
    BY <1>1 DEF SignalInv, SignalTypeOK, SignalAssumption, Events
<1>3. r \in Task /\ r.pc = "emit" /\ r.event \in Events /\ r.signalling = FALSE
    BY <1>2, EmptySeq DEF NoTask, Task, Pcs
<1>4. RoleFits(r) /\ task[t].pc \notin Stages /\ r.pc \notin Stages /\ DrainGoes(t, r)
    BY <1>1, <1>3 DEF SignalInv, SignalTypeOK, NoTask, RoleFits, DrainGoes, Draws, Stages, signal
<1> HIDE DEF r
<1>5. ValueTypes' /\ ObserverTypes'
    BY <1>1, <1>2, TypesInParts DEF SignalInv, ValueTypes, ObserverTypes, signal, remembered
<1>6. QED
    BY <1>1, <1>3, <1>4, <1>5, DrawsKeep, TypesInParts DEF SignalInv, remembered

LEMMA CompleteKeeps ==
    ASSUME SignalAssumption, SignalInv, NEW t \in Callers, Complete(t)
    PROVE  SignalInv'
<1> DEFINE r == [NoTask EXCEPT !.pc = "emit", !.event = End]
<1>1. /\ task' = [task EXCEPT ![t] = r] /\ terminated' = TRUE
      /\ UNCHANGED <<value, signal, gate, heard, remembered, panicked>> /\ task[t] = NoTask
    BY DEF Complete
<1>2. End \in Events
    BY DEF SignalAssumption, Events, End
<1>3. r \in Task /\ r.pc = "emit" /\ r.event \in Events /\ r.signalling = FALSE
    BY <1>2, EmptySeq DEF NoTask, Task, Pcs
<1>4. RoleFits(r) /\ task[t].pc \notin Stages /\ r.pc \notin Stages /\ DrainGoes(t, r)
    BY <1>1, <1>3 DEF SignalInv, SignalTypeOK, NoTask, RoleFits, DrainGoes, Draws, Stages, signal
<1> HIDE DEF r
<1>5. ValueTypes' /\ ObserverTypes'
    BY <1>1, <1>2, TypesInParts DEF SignalInv, ValueTypes, ObserverTypes, signal, remembered
<1>6. QED
    BY <1>1, <1>3, <1>4, <1>5, DrawsKeep, TypesInParts DEF SignalInv, remembered

LEMMA EnqueueKeeps ==
    ASSUME SignalAssumption, SignalInv, NEW t \in Callers, Enqueue(t)
    PROVE  SignalInv'
<1> DEFINE d == [NoTask EXCEPT !.pc = "drain", !.signalling = TRUE]
           r == IF terminal \/ draining THEN NoTask ELSE d
<1>1. task' = [task EXCEPT ![t] = r]
    BY DEF Enqueue, Done
<1>2. NoTask \in Task /\ d \in Task /\ NoTask.pc = "idle" /\ d.pc = "drain"
      /\ NoTask.signalling = FALSE /\ d.signalling = TRUE
    BY EmptySeq DEF NoTask, Task, Pcs
<1>3. task[t].pc = "emit" /\ task[t].event \in Events /\ task[t].signalling = FALSE
    BY TypesInParts DEF Enqueue, SignalInv, Roles, Draws, Task
<1>4. task[t].pc \notin Stages /\ r.pc \notin Stages /\ RoleFits(r) /\ r \in Task
    BY <1>2, <1>3 DEF RoleFits, Draws, Stages
<1>5. DrainGoes(t, r)
    <2>1. draining \in BOOLEAN
        BY TypesInParts, Zenon DEF SignalInv, ValueTypes
    <2>2. QED
        BY <1>2, <1>3, <2>1 DEF Enqueue, DrainGoes, signal
<1> HIDE DEF r, d
<1>6. ValueTypes'
    <2>1. queue' \in Seq(Events) /\ emitted' \in Seq(Events) /\ listeners' \in Seq(Observers)
        <3>1. queue \in Seq(Events) /\ emitted \in Seq(Events) /\ listeners \in Seq(Observers)
            BY TypesInParts DEF SignalInv, ValueTypes
        <3>2. /\ Append(queue, task[t].event) \in Seq(Events)
              /\ Append(emitted, task[t].event) \in Seq(Events)
            BY <1>3, <3>1
        <3>3. QED
            BY <3>1, <3>2 DEF Enqueue, signal, remembered
    <2>2. {terminated, draining, terminal, panicked}' \subseteq BOOLEAN
        BY <1>5, TypesInParts, Zenon DEF Enqueue, SignalInv, ValueTypes, signal, DrainGoes
    <2>3. QED
        BY <2>1, <2>2, TypesInParts DEF Enqueue, SignalInv, ValueTypes
<1>7. ObserverTypes' /\ UNCHANGED <<gate, since>>
    BY TypesInParts DEF Enqueue, SignalInv, ObserverTypes, remembered
<1>8. QED
    BY <1>1, <1>4, <1>5, <1>6, <1>7, DrawsKeep, TypesInParts DEF SignalInv

LEMMA DrainKeeps ==
    ASSUME SignalAssumption, SignalInv, NEW t \in Callers, Drain(t)
    PROVE  SignalInv'
<1> DEFINE d == [task[t] EXCEPT !.pc = "dispatch", !.event = Head(queue)]
           r == IF queue = <<>> THEN NoTask ELSE d
<1>1. task[t] \in Task /\ task \in [Callers -> Task] /\ queue \in Seq(Events)
    BY TypesInParts DEF SignalInv, ValueTypes
<1>2. task[t].pc = "drain" /\ task[t].signalling
    BY DEF Drain, SignalInv, Roles, Draws
<1>3. task' = [task EXCEPT ![t] = r]
    BY <1>1 DEF Drain, Done, Task
<1>4. NoTask \in Task /\ NoTask.pc = "idle" /\ NoTask.signalling = FALSE
    BY EmptySeq DEF NoTask, Task, Pcs
<1>5. queue # <<>> => Head(queue) \in Events /\ Tail(queue) \in Seq(Events)
    BY <1>1
<1>6. queue # <<>> => d \in Task /\ d.pc = "dispatch" /\ d.signalling = task[t].signalling
                      /\ d.event \in Events
    BY <1>1, <1>5 DEF Task, Pcs
<1>7. task[t].pc \notin Stages /\ r.pc \notin Stages /\ RoleFits(r) /\ r \in Task
    BY <1>2, <1>4, <1>6 DEF RoleFits, Draws, Stages
<1>8. draining \in BOOLEAN
    BY TypesInParts, Zenon DEF SignalInv, ValueTypes
<1>9. DrainGoes(t, r)
    BY <1>2, <1>4, <1>6, <1>8 DEF Drain, DrainGoes
<1> HIDE DEF r, d
<1>10. ValueTypes'
    <2>1. queue' \in Seq(Events) /\ emitted' \in Seq(Events) /\ listeners' \in Seq(Observers)
        BY <1>1, <1>5, TypesInParts DEF Drain, SignalInv, ValueTypes, remembered
    <2>2. {terminated, draining, terminal, panicked}' \subseteq BOOLEAN
        BY <1>9, TypesInParts, Zenon DEF Drain, SignalInv, ValueTypes, DrainGoes
    <2>3. QED
        BY <2>1, <2>2, TypesInParts DEF Drain, SignalInv, ValueTypes
<1>11. ObserverTypes' /\ UNCHANGED <<gate, since>>
    BY TypesInParts DEF Drain, SignalInv, ObserverTypes, remembered
<1>12. QED
    BY <1>3, <1>7, <1>9, <1>10, <1>11, DrawsKeep, TypesInParts DEF SignalInv

LEMMA DispatchKeeps ==
    ASSUME SignalAssumption, SignalInv, NEW t \in Callers, Dispatch(t)
    PROVE  SignalInv'
<1> DEFINE r == [task[t] EXCEPT !.pc = "deliver", !.left = listeners]
<1>1. task[t] \in Task /\ task \in [Callers -> Task] /\ listeners \in Seq(Observers)
    BY TypesInParts DEF SignalInv, ValueTypes
<1>2. task[t].pc = "dispatch" /\ task[t].signalling /\ task[t].event \in Events
    BY DEF Dispatch, SignalInv, Roles, Draws
<1>3. task' = [task EXCEPT ![t] = r]
    BY <1>1 DEF Dispatch, Task
<1>4. r \in Task /\ r.pc = "deliver" /\ r.signalling = task[t].signalling /\ r.event = task[t].event
    BY <1>1 DEF Task, Pcs
<1>5. task[t].pc \notin Stages /\ r.pc \notin Stages /\ RoleFits(r)
    BY <1>2, <1>4 DEF RoleFits, Draws, Stages
<1>6. draining \in BOOLEAN
    BY TypesInParts, Zenon DEF SignalInv, ValueTypes
<1>7. DrainGoes(t, r)
    BY <1>4, <1>6 DEF Dispatch, DrainGoes
<1> HIDE DEF r
<1>8. ValueTypes' /\ ObserverTypes' /\ UNCHANGED <<gate, since>>
    BY TypesInParts, EmptySeq DEF Dispatch, SignalInv, ValueTypes, ObserverTypes, remembered
<1>9. QED
    BY <1>3, <1>4, <1>5, <1>7, <1>8, DrawsKeep, TypesInParts DEF SignalInv

LEMMA DeliveredKeeps ==
    ASSUME SignalAssumption, SignalInv, NEW t \in Callers, Delivered(t)
    PROVE  SignalInv'
<1> DEFINE r == [task[t] EXCEPT !.pc = "drain"]
<1>1. task[t] \in Task /\ task \in [Callers -> Task]
    BY TypesInParts DEF SignalInv
<1>2. task[t].pc = "deliver" /\ task[t].signalling
    BY DEF Delivered, SignalInv, Roles, Draws
<1>3. task' = [task EXCEPT ![t] = r]
    BY <1>1 DEF Delivered, Continue, Task
<1>4. r \in Task /\ r.pc = "drain" /\ r.signalling = task[t].signalling
    BY <1>1 DEF Task, Pcs
<1>5. task[t].pc \notin Stages /\ r.pc \notin Stages /\ RoleFits(r)
    BY <1>2, <1>4 DEF RoleFits, Draws, Stages
<1>6. draining \in BOOLEAN
    BY TypesInParts, Zenon DEF SignalInv, ValueTypes
<1>7. DrainGoes(t, r)
    BY <1>4, <1>6 DEF Delivered, DrainGoes, signal
<1> HIDE DEF r
<1>8. ValueTypes' /\ ObserverTypes' /\ UNCHANGED <<gate, since>>
    BY TypesInParts DEF Delivered, SignalInv, ValueTypes, ObserverTypes, remembered, signal
<1>9. QED
    BY <1>3, <1>4, <1>5, <1>7, <1>8, DrawsKeep, TypesInParts DEF SignalInv

LEMMA DeliverPlainKeeps ==
    ASSUME SignalAssumption, SignalInv, NEW t \in Callers, DeliverPlain(t)
    PROVE  SignalInv'
<1> DEFINE r == [task[t] EXCEPT !.left = Tail(task[t].left)]
           o == Head(task[t].left)
<1>1. task[t] \in Task /\ task \in [Callers -> Task] /\ heard \in [Observers -> Seq(Events)]
    BY TypesInParts DEF SignalInv, ObserverTypes
<1>2. /\ task[t].pc = "deliver" /\ task[t].signalling /\ task[t].event \in Events
      /\ task[t].left \in Seq(Observers) /\ task[t].left # <<>>
    BY <1>1 DEF DeliverPlain, SignalInv, Roles, Draws, Task
<1>3. task' = [task EXCEPT ![t] = r]
    BY <1>1 DEF DeliverPlain, Task
<1>4. o \in Observers /\ Tail(task[t].left) \in Seq(Observers)
    BY <1>2
<1>5. r \in Task /\ r.pc = "deliver" /\ r.signalling = task[t].signalling /\ r.event = task[t].event
    BY <1>1, <1>2, <1>4 DEF Task, Pcs
<1>6. task[t].pc \notin Stages /\ r.pc \notin Stages /\ RoleFits(r)
    BY <1>2, <1>5 DEF RoleFits, Draws, Stages
<1>7. draining \in BOOLEAN
    BY TypesInParts, Zenon DEF SignalInv, ValueTypes
<1>8. DrainGoes(t, r)
    BY <1>5, <1>7 DEF DeliverPlain, DrainGoes, signal
<1>9. heard' \in [Observers -> Seq(Events)]
    <2>1. heard' = [heard EXCEPT ![o] = Append(heard[o], task[t].event)]
        BY DEF DeliverPlain, Hears
    <2>2. QED
        BY <1>1, <1>2, <1>4, <2>1
<1> HIDE DEF r, o
<1>10. ValueTypes' /\ ObserverTypes' /\ UNCHANGED <<gate, since>>
    BY <1>9, TypesInParts DEF DeliverPlain, SignalInv, ValueTypes, ObserverTypes, remembered, signal
<1>11. QED
    BY <1>3, <1>5, <1>6, <1>8, <1>10, DrawsKeep, TypesInParts DEF SignalInv

LEMMA PanicPlainKeeps ==
    ASSUME SignalAssumption, SignalInv, NEW t \in Callers, PanicPlain(t)
    PROVE  SignalInv'
<1> DEFINE o == Head(task[t].left)
<1>1. task[t] \in Task /\ task \in [Callers -> Task] /\ heard \in [Observers -> Seq(Events)]
      /\ listeners \in Seq(Observers)
    BY TypesInParts DEF SignalInv, ObserverTypes, ValueTypes
<1>2. /\ task[t].pc = "deliver" /\ task[t].signalling /\ task[t].event \in Events
      /\ task[t].left \in Seq(Observers) /\ task[t].left # <<>>
    BY <1>1 DEF PanicPlain, SignalInv, Roles, Draws, Task
<1>3. task' = [task EXCEPT ![t] = NoTask]
    BY DEF PanicPlain, Done
<1>4. NoTask \in Task /\ NoTask.pc = "idle" /\ NoTask.signalling = FALSE
    BY EmptySeq DEF NoTask, Task, Pcs
<1>5. task[t].pc \notin Stages /\ NoTask.pc \notin Stages /\ RoleFits(NoTask)
    BY <1>2, <1>4 DEF RoleFits, Draws, Stages
<1>6. ~draining' /\ draining' \in BOOLEAN /\ listeners' = listeners
    BY <1>2 DEF PanicPlain, Unwind
<1>7. DrainGoes(t, NoTask)
    BY <1>2, <1>4, <1>6 DEF DrainGoes
<1>8. heard' \in [Observers -> Seq(Events)]
    <2>1. heard' = [heard EXCEPT ![o] = Append(heard[o], task[t].event)]
        BY DEF PanicPlain, Hears
    <2>2. o \in Observers
        BY <1>2
    <2>3. QED
        BY <1>1, <1>2, <2>1, <2>2
<1>9. {terminated, draining, terminal, panicked}' \subseteq BOOLEAN
    BY <1>6, TypesInParts, Zenon DEF PanicPlain, SignalInv, ValueTypes
<1>10. ValueTypes' /\ ObserverTypes' /\ UNCHANGED <<gate, since>>
    BY <1>6, <1>8, <1>9, TypesInParts DEF PanicPlain, SignalInv, ValueTypes, ObserverTypes, remembered
<1>11. QED
    BY <1>3, <1>4, <1>5, <1>7, <1>10, DrawsKeep, TypesInParts DEF SignalInv

LEMMA DeliverGatedKeeps ==
    ASSUME SignalAssumption, SignalInv, NEW t \in Callers, DeliverGated(t)
    PROVE  SignalInv'
<1> DEFINE o == Head(task[t].left)
           drains == ~(gate[o].replaying \/ gate[o].draining)
           r == [task[t] EXCEPT !.left = Tail(task[t].left), !.obs = o,
                                !.pc = IF drains THEN "gate" ELSE "deliver"]
           g == [gate[o] EXCEPT !.pending = Append(gate[o].pending, task[t].event),
                                !.draining = gate[o].draining \/ drains]
<1>1. task[t] \in Task /\ task \in [Callers -> Task] /\ gate \in [Observers -> {Nil} \cup Gate]
    BY TypesInParts DEF SignalInv
<1>2. /\ task[t].pc = "deliver" /\ task[t].signalling /\ task[t].event \in Events
      /\ task[t].left \in Seq(Observers) /\ task[t].left # <<>>
    BY <1>1 DEF DeliverGated, SignalInv, Roles, Draws, Task
<1>3. o \in Observers /\ Tail(task[t].left) \in Seq(Observers) /\ gate[o] # Nil /\ gate[o] \in Gate
    BY <1>1, <1>2 DEF DeliverGated
<1>4. task' = [task EXCEPT ![t] = r] /\ gate' = [gate EXCEPT ![o] = g]
    BY <1>1, <1>3 DEF DeliverGated, Task, Gate
<1>5. r \in Task /\ r.pc = (IF drains THEN "gate" ELSE "deliver")
      /\ r.signalling = task[t].signalling /\ r.event = task[t].event /\ r.obs = o
    BY <1>1, <1>2, <1>3 DEF Task, Pcs
<1>6. Append(gate[o].pending, task[t].event) \in Seq(Events) /\ (gate[o].draining \/ drains) \in BOOLEAN
    BY <1>2, <1>3 DEF Gate
<1>7. g \in Gate /\ g.replaying = gate[o].replaying /\ g.draining = (gate[o].draining \/ drains)
    BY <1>3, <1>6 DEF Gate
<1>8. RoleFits(r)
    BY <1>2, <1>5 DEF RoleFits, Draws
<1>9. draining \in BOOLEAN
    BY TypesInParts, Zenon DEF SignalInv, ValueTypes
<1>10. DrainGoes(t, r)
    BY <1>5, <1>9 DEF DeliverGated, DrainGoes, signal
<1>11. since' = since /\ since[o] # Nil
    BY <1>3 DEF DeliverGated, remembered, SignalInv, Strangers
<1>12. task[t].pc \notin Stages
    BY <1>2 DEF Stages
<1>13. \/ /\ task[t].pc \notin Stages /\ r.pc \notin Stages /\ gate[o] # Nil
          /\ g.replaying = gate[o].replaying /\ g.draining = gate[o].draining
       \/ /\ \A u \in Callers : u # t => ~At(u, o)
          /\ g.replaying <=> r.pc \in {"replay", "finish"}
          /\ g.draining <=> r.pc = "gate"
    <2>1. CASE drains
        <3>1. \A u \in Callers : ~At(u, o)
            BY <1>3, <2>1 DEF SignalInv, Gates, OneDrainer, At
        <3>2. g.replaying = FALSE /\ g.draining = TRUE /\ r.pc = "gate"
            <4>1. gate[o].replaying = FALSE /\ gate[o].draining = FALSE
                BY <1>3, <2>1 DEF Gate
            <4>2. r.pc = "gate"
                BY <1>5, <2>1
            <4>3. g.draining = TRUE
                BY <1>7, <2>1, <4>1
            <4>4. QED
                BY <1>7, <4>1, <4>2, <4>3
        <3>3. QED
            BY <3>1, <3>2
    <2>2. CASE ~drains
        <3>1. r.pc = "deliver" /\ (gate[o].draining \/ drains) = gate[o].draining
            BY <1>3, <1>5, <2>2 DEF Gate
        <3>2. QED
            BY <1>3, <1>7, <1>12, <3>1 DEF Stages
    <2>3. QED
        BY <2>1, <2>2
<1> HIDE DEF r, g, drains, o
<1>14. ValueTypes' /\ ObserverTypes'
    BY TypesInParts DEF DeliverGated, SignalInv, ValueTypes, ObserverTypes, remembered, signal
<1>15. QED
    BY <1>3, <1>4, <1>5, <1>7, <1>8, <1>10, <1>11, <1>12, <1>13, <1>14, GateKeeps, TypesInParts
    DEF SignalInv

\* The gate a thread is at: it is there alone.
LEMMA AtGate ==
    ASSUME SignalInv, NEW t \in Callers, task[t].pc \in Stages
    PROVE  /\ task[t].obs \in Observers /\ gate[task[t].obs] \in Gate
           /\ gate[task[t].obs] # Nil /\ since[task[t].obs] # Nil
           /\ \A u \in Callers : u # t => ~At(u, task[t].obs)
           /\ gate[task[t].obs].replaying <=> task[t].pc # "gate"
           /\ gate[task[t].obs].draining <=> task[t].pc = "gate"
<1> DEFINE o == task[t].obs
<1>1. o \in Observers /\ gate[o] # Nil /\ gate[o] \in Gate
    BY TypesInParts DEF SignalInv, Roles
<1>2. since[o] # Nil
    BY <1>1 DEF SignalInv, Strangers
<1>3. At(t, o)
    BY DEF At
<1>4. \A u \in Callers : u # t => ~At(u, o)
    BY <1>1, <1>3 DEF SignalInv, Gates
<1>5. gate[o].replaying <=> task[t].pc # "gate"
    BY <1>1, <1>3, <1>4 DEF SignalInv, Gates
<1>6. gate[o].draining <=> task[t].pc = "gate"
    <2>1. \A u \in Callers : task[u].pc = "gate" /\ task[u].obs = o => u = t
        BY <1>4 DEF At, Stages
    <2>2. QED
        BY <1>1, <2>1 DEF SignalInv, OneDrainer
<1>7. QED
    BY <1>1, <1>2, <1>4, <1>5, <1>6

LEMMA DrainGateKeeps ==
    ASSUME SignalAssumption, SignalInv, NEW t \in Callers, DrainGate(t)
    PROVE  SignalInv'
<1> DEFINE o == task[t].obs
           back == [task[t] EXCEPT !.pc = "deliver"]
           shut == [gate[o] EXCEPT !.draining = FALSE]
           g == [gate[o] EXCEPT !.pending = Tail(gate[o].pending)]
<1>1. task[t] \in Task /\ task \in [Callers -> Task] /\ gate \in [Observers -> {Nil} \cup Gate]
      /\ heard \in [Observers -> Seq(Events)]
    BY TypesInParts DEF SignalInv, ObserverTypes
<1>2. task[t].pc = "gate" /\ task[t].pc \in Stages
    BY DEF DrainGate, Stages
<1>3. /\ o \in Observers /\ gate[o] \in Gate /\ gate[o] # Nil /\ since[o] # Nil
      /\ \A u \in Callers : u # t => ~At(u, o)
      /\ ~gate[o].replaying /\ gate[o].draining
    BY <1>2, AtGate
<1>4. task[t].signalling \in BOOLEAN /\ gate[o].pending \in Seq(Events)
    BY <1>1, <1>3 DEF Task, Gate
<1>5. draining \in BOOLEAN
    BY TypesInParts, Zenon DEF SignalInv, ValueTypes
<1>6. UNCHANGED <<value, terminated, signal, remembered, panicked>>
    BY DEF DrainGate
<1>7. since' = since
    BY <1>6 DEF remembered
<1>8. ValueTypes' /\ (heard' \in [Observers -> Seq(Events)] => ObserverTypes')
    BY <1>6, TypesInParts DEF SignalInv, ValueTypes, ObserverTypes, remembered, signal
<1>9. CASE gate[o].pending = <<>>
    <2>1. /\ gate' = [gate EXCEPT ![o] = shut] /\ heard' = heard
          /\ task' = [task EXCEPT ![t] = IF task[t].signalling THEN back ELSE NoTask]
        BY <1>1, <1>3, <1>9 DEF DrainGate, Continue, Done, Task, Gate
    <2>2. shut \in Gate /\ shut.replaying = gate[o].replaying /\ shut.draining = FALSE
        BY <1>3 DEF Gate
    <2>3. back \in Task /\ back.pc = "deliver" /\ back.signalling = task[t].signalling
          /\ back.event = task[t].event
        BY <1>1 DEF Task, Pcs
    <2>4. NoTask \in Task /\ NoTask.pc = "idle" /\ NoTask.signalling = FALSE
        BY EmptySeq DEF NoTask, Task, Pcs
    <2> HIDE DEF shut, back
    <2>5. CASE task[t].signalling
        <3>1. task[t].event \in Events
            BY <1>2, <2>5 DEF SignalInv, Roles
        <3>2. RoleFits(back) /\ back.pc \notin Stages
            BY <2>3, <2>5, <3>1 DEF RoleFits, Draws, Stages
        <3>3. DrainGoes(t, back)
            BY <1>5, <1>6, <2>3 DEF DrainGoes, signal
        <3>4. task' = [task EXCEPT ![t] = back]
            BY <2>1, <2>5
        <3>5. ~(back.pc \in {"replay", "finish"}) /\ back.pc # "gate"
            BY <2>3
        <3> HIDE DEF o
        <3>6. /\ task' \in [Callers -> Task] /\ gate' \in [Observers -> {Nil} \cup Gate]
              /\ Roles' /\ Gates' /\ Strangers' /\ OneDrainer'
            BY <1>2, <1>3, <1>7, <2>1, <2>2, <2>3, <3>2, <3>3, <3>4, <3>5, GateKeeps DEF o
        <3>7. QED
            BY <1>1, <1>8, <2>1, <3>6, TypesInParts DEF SignalInv
    <2>6. CASE ~task[t].signalling
        <3>1. RoleFits(NoTask) /\ NoTask.pc \notin Stages /\ ~(NoTask.pc \in {"replay", "finish"}) /\ NoTask.pc # "gate"
            BY <2>4 DEF RoleFits, Draws, Stages
        <3>2. DrainGoes(t, NoTask)
            BY <1>4, <1>5, <1>6, <2>4, <2>6 DEF DrainGoes, signal
        <3>3. task' = [task EXCEPT ![t] = NoTask]
            BY <2>1, <2>6
        <3> HIDE DEF o
        <3>4. /\ task' \in [Callers -> Task] /\ gate' \in [Observers -> {Nil} \cup Gate]
              /\ Roles' /\ Gates' /\ Strangers' /\ OneDrainer'
            BY <1>2, <1>3, <1>7, <2>1, <2>2, <2>4, <3>1, <3>2, <3>3, GateKeeps DEF o
        <3>5. QED
            BY <1>1, <1>8, <2>1, <3>4, TypesInParts DEF SignalInv
    <2>7. QED
        BY <2>5, <2>6
<1>10. CASE gate[o].pending # <<>>
    <2>1. /\ gate' = [gate EXCEPT ![o] = g] /\ task' = task
          /\ heard' = [heard EXCEPT ![o] = Append(heard[o], Head(gate[o].pending))]
        BY <1>1, <1>3, <1>10 DEF DrainGate, Hears, Gate
    <2>2. Head(gate[o].pending) \in Events /\ Tail(gate[o].pending) \in Seq(Events)
        BY <1>4, <1>10
    <2>3. g \in Gate /\ g.replaying = gate[o].replaying /\ g.draining = gate[o].draining
        BY <1>3, <2>2 DEF Gate
    <2>4. heard' \in [Observers -> Seq(Events)]
        BY <1>1, <1>3, <2>1, <2>2
    <2>5. task' = [task EXCEPT ![t] = task[t]]
        BY <1>1, <2>1
    <2>6. RoleFits(task[t])
        BY DEF SignalInv, Roles, RoleFits
    <2>7. DrainGoes(t, task[t])
        BY <1>5, <1>6 DEF DrainGoes, signal
    <2> HIDE DEF g, o
    <2>8. /\ task' \in [Callers -> Task] /\ gate' \in [Observers -> {Nil} \cup Gate]
          /\ Roles' /\ Gates' /\ Strangers' /\ OneDrainer'
        <3>1. task[t].obs = o
            BY DEF o
        <3>2. ~(task[t].pc \in {"replay", "finish"})
            BY <1>2
        <3>3. QED
            BY <1>1, <1>2, <1>3, <1>7, <2>1, <2>3, <2>5, <2>6, <2>7, <3>1, <3>2, GateKeeps
    <2>9. QED
        BY <1>8, <2>4, <2>8, TypesInParts DEF SignalInv
<1>11. QED
    BY <1>9, <1>10

LEMMA PanicGatedKeeps ==
    ASSUME SignalAssumption, SignalInv, NEW t \in Callers, PanicGated(t)
    PROVE  SignalInv'
<1> DEFINE o == task[t].obs
           g == [gate[o] EXCEPT !.pending = Tail(gate[o].pending), !.draining = FALSE]
<1>1. task[t] \in Task /\ task \in [Callers -> Task] /\ gate \in [Observers -> {Nil} \cup Gate]
      /\ heard \in [Observers -> Seq(Events)] /\ listeners \in Seq(Observers)
    BY TypesInParts DEF SignalInv, ObserverTypes, ValueTypes
<1>2. task[t].pc = "gate" /\ task[t].pc \in Stages
    BY DEF PanicGated, Stages
<1>3. /\ o \in Observers /\ gate[o] \in Gate /\ gate[o] # Nil /\ since[o] # Nil
      /\ \A u \in Callers : u # t => ~At(u, o)
      /\ ~gate[o].replaying
    BY <1>2, AtGate
<1>4. gate[o].pending \in Seq(Events) /\ gate[o].pending # <<>> /\ task[t].signalling \in BOOLEAN
    BY <1>1, <1>3 DEF Gate, Task, PanicGated
<1>5. Head(gate[o].pending) \in Events /\ Tail(gate[o].pending) \in Seq(Events)
    BY <1>4
<1>6. g \in Gate /\ g.replaying = gate[o].replaying /\ g.draining = FALSE
    BY <1>3, <1>5 DEF Gate
<1>7. /\ gate' = [gate EXCEPT ![o] = g] /\ task' = [task EXCEPT ![t] = NoTask]
      /\ heard' = [heard EXCEPT ![o] = Append(heard[o], Head(gate[o].pending))]
    <2>1. gate' = [gate EXCEPT ![o] = g]
        BY <1>1, <1>3, <1>4 DEF PanicGated, Gate
    <2>2. task' = [task EXCEPT ![t] = NoTask]
        BY DEF PanicGated, Done
    <2>3. heard' = [heard EXCEPT ![o] = Append(heard[o], Head(gate[o].pending))]
        BY DEF PanicGated, Hears
    <2>4. QED
        BY <2>1, <2>2, <2>3
<1>8. NoTask \in Task /\ NoTask.pc = "idle" /\ NoTask.signalling = FALSE
    BY EmptySeq DEF NoTask, Task, Pcs
<1>9. RoleFits(NoTask) /\ NoTask.pc \notin Stages /\ ~(NoTask.pc \in {"replay", "finish"}) /\ NoTask.pc # "gate"
    BY <1>8 DEF RoleFits, Draws, Stages
<1>10. draining \in BOOLEAN
    BY TypesInParts, Zenon DEF SignalInv, ValueTypes
<1>11. DrainGoes(t, NoTask)
    <2>1. CASE task[t].signalling
        BY <1>8, <2>1 DEF PanicGated, Unwind, DrainGoes
    <2>2. CASE ~task[t].signalling
        <3>1. draining' = draining
            BY <1>10, <2>2 DEF PanicGated, Unwind
        <3>2. QED
            BY <1>4, <1>8, <1>10, <2>2, <3>1 DEF DrainGoes
    <2>3. QED
        BY <2>1, <2>2
<1>12. heard' \in [Observers -> Seq(Events)]
    BY <1>1, <1>3, <1>5, <1>7
<1>13. Without(listeners, o) \in Seq(Observers)
    BY <1>1, WithoutFacts
<1>14. draining' \in BOOLEAN
    BY <1>11 DEF DrainGoes
<1>15. {terminated, draining, terminal, panicked}' \subseteq BOOLEAN
    BY <1>14, TypesInParts, Zenon DEF PanicGated, SignalInv, ValueTypes
<1>16. listeners' \in Seq(Observers)
    BY <1>1, <1>13 DEF PanicGated, Unwind
<1>17. ValueTypes' /\ ObserverTypes' /\ since' = since
    BY <1>12, <1>15, <1>16, TypesInParts DEF PanicGated, SignalInv, ValueTypes, ObserverTypes, remembered
<1> HIDE DEF g
<1>18. task[t].obs = o
    OBVIOUS
<1> HIDE DEF o
<1>19. /\ task' \in [Callers -> Task] /\ gate' \in [Observers -> {Nil} \cup Gate]
       /\ Roles' /\ Gates' /\ Strangers' /\ OneDrainer'
    BY <1>3, <1>6, <1>7, <1>8, <1>9, <1>11, <1>17, <1>18, GateKeeps
<1>20. QED
    BY <1>17, <1>19, TypesInParts DEF SignalInv

LEMMA ReplayKeeps ==
    ASSUME SignalAssumption, SignalInv, NEW t \in Callers, Replay(t)
    PROVE  SignalInv'
<1> DEFINE o == task[t].obs
           r == [task[t] EXCEPT !.pc = "finish"]
           g == [gate[o] EXCEPT !.pending = Append(gate[o].pending, task[t].event)]
<1>1. task[t] \in Task /\ task \in [Callers -> Task] /\ gate \in [Observers -> {Nil} \cup Gate]
    BY TypesInParts DEF SignalInv
<1>2. task[t].pc = "replay" /\ task[t].pc \in Stages
    BY DEF Replay, Stages
<1>3. /\ o \in Observers /\ gate[o] \in Gate /\ gate[o] # Nil /\ since[o] # Nil
      /\ \A u \in Callers : u # t => ~At(u, o)
      /\ gate[o].replaying /\ ~gate[o].draining
    BY <1>2, AtGate
<1>4. gate[o].pending \in Seq(Events) /\ task[t].event \in Events /\ ~task[t].signalling
    BY <1>2, <1>3 DEF Gate, SignalInv, Roles, Draws
<1>5. Append(gate[o].pending, task[t].event) \in Seq(Events)
    BY <1>4
<1>6. g \in Gate /\ g.replaying = gate[o].replaying /\ g.draining = gate[o].draining
    BY <1>3, <1>5 DEF Gate
<1>7. gate' = [gate EXCEPT ![o] = g] /\ task' = [task EXCEPT ![t] = r]
    BY <1>1, <1>3 DEF Replay, Continue, Task, Gate
<1>8. r \in Task /\ r.pc = "finish" /\ r.signalling = task[t].signalling /\ r.obs = o
    BY <1>1 DEF Task, Pcs
<1>9. RoleFits(r)
    BY <1>4, <1>8 DEF RoleFits, Draws
<1>10. draining \in BOOLEAN
    BY TypesInParts, Zenon DEF SignalInv, ValueTypes
<1>11. DrainGoes(t, r)
    BY <1>8, <1>10 DEF Replay, signal, DrainGoes
<1>12. ValueTypes' /\ ObserverTypes' /\ since' = since
    BY TypesInParts DEF Replay, SignalInv, ValueTypes, ObserverTypes, remembered, signal
<1> HIDE DEF g, r
<1>13. task[t].obs = o
    OBVIOUS
<1> HIDE DEF o
<1>14. /\ task' \in [Callers -> Task] /\ gate' \in [Observers -> {Nil} \cup Gate]
       /\ Roles' /\ Gates' /\ Strangers' /\ OneDrainer'
    BY <1>3, <1>6, <1>7, <1>8, <1>9, <1>11, <1>12, <1>13, GateKeeps
<1>15. QED
    BY <1>12, <1>14, TypesInParts DEF SignalInv

LEMMA FinishReplayKeeps ==
    ASSUME SignalAssumption, SignalInv, NEW t \in Callers, FinishReplay(t)
    PROVE  SignalInv'
<1> DEFINE o == task[t].obs
           r == [task[t] EXCEPT !.pc = "gate"]
           g == [gate[o] EXCEPT !.replaying = FALSE, !.draining = TRUE]
<1>1. task[t] \in Task /\ task \in [Callers -> Task] /\ gate \in [Observers -> {Nil} \cup Gate]
    BY TypesInParts DEF SignalInv
<1>2. task[t].pc = "finish" /\ task[t].pc \in Stages
    BY DEF FinishReplay, Stages
<1>3. /\ o \in Observers /\ gate[o] \in Gate /\ gate[o] # Nil /\ since[o] # Nil
      /\ \A u \in Callers : u # t => ~At(u, o)
    BY <1>2, AtGate
<1>4. ~task[t].signalling
    BY <1>2 DEF SignalInv, Roles, Draws
<1>5. g \in Gate /\ g.replaying = FALSE /\ g.draining = TRUE
    BY <1>3 DEF Gate
<1>6. gate' = [gate EXCEPT ![o] = g] /\ task' = [task EXCEPT ![t] = r]
    BY <1>1, <1>3 DEF FinishReplay, Continue, Task, Gate
<1>7. r \in Task /\ r.pc = "gate" /\ r.signalling = task[t].signalling /\ r.obs = o
    BY <1>1 DEF Task, Pcs
<1>8. RoleFits(r)
    BY <1>4, <1>7 DEF RoleFits, Draws
<1>9. draining \in BOOLEAN
    BY TypesInParts, Zenon DEF SignalInv, ValueTypes
<1>10. DrainGoes(t, r)
    BY <1>7, <1>9 DEF FinishReplay, signal, DrainGoes
<1>11. ValueTypes' /\ ObserverTypes' /\ since' = since
    BY TypesInParts DEF FinishReplay, SignalInv, ValueTypes, ObserverTypes, remembered, signal
<1> HIDE DEF g, r
<1>12. task[t].obs = o
    OBVIOUS
<1> HIDE DEF o
<1>13. /\ task' \in [Callers -> Task] /\ gate' \in [Observers -> {Nil} \cup Gate]
       /\ Roles' /\ Gates' /\ Strangers' /\ OneDrainer'
    BY <1>3, <1>5, <1>6, <1>7, <1>8, <1>10, <1>11, <1>12, GateKeeps
<1>14. QED
    BY <1>11, <1>13, TypesInParts DEF SignalInv

LEMMA SubscribePlainKeeps ==
    ASSUME SignalAssumption, SignalInv, NEW t \in Callers, NEW o \in Observers,
           task[t] = NoTask, since[o] = Nil, SubscribePlain(o)
    PROVE  SignalInv'
<1>1. task \in [Callers -> Task] /\ heard \in [Observers -> Seq(Events)] /\ listeners \in Seq(Observers)
      /\ since \in [Observers -> Nat \cup {Nil}] /\ emitted \in Seq(Events)
    BY TypesInParts DEF SignalInv, ObserverTypes, ValueTypes
<1>2. NoTask \in Task /\ NoTask.pc = "idle" /\ NoTask.signalling = FALSE
    BY EmptySeq DEF NoTask, Task, Pcs
<1>3. RoleFits(NoTask) /\ NoTask.pc \notin Stages /\ task' = [task EXCEPT ![t] = NoTask]
    BY <1>1, <1>2 DEF RoleFits, Draws, Stages, SubscribePlain
<1>4. draining \in BOOLEAN
    BY TypesInParts, Zenon DEF SignalInv, ValueTypes
<1>5. DrainGoes(t, NoTask)
    BY <1>4 DEF SubscribePlain, DrainGoes
<1>6. Len(emitted) \in Nat /\ Nil \notin Nat /\ End \in Events
    BY <1>1 DEF SignalAssumption, Events, End
<1>7. since' = [since EXCEPT ![o] = Len(emitted)]
    BY DEF SubscribePlain, Joins
<1>8. since' \in [Observers -> Nat \cup {Nil}] /\ \A p \in Observers : since'[p] = Nil => since[p] = Nil
    BY <1>1, <1>6, <1>7
<1>9. heard' \in [Observers -> Seq(Events)] /\ listeners' \in Seq(Observers)
    <2>1. CASE terminal
        <3>1. heard' = [heard EXCEPT ![o] = Append(heard[o], End)] /\ listeners' = listeners
            BY <2>1 DEF SubscribePlain, Hears
        <3>2. QED
            BY <1>1, <1>6, <3>1
    <2>2. CASE ~terminal
        <3>1. heard' = heard /\ listeners' = Append(listeners, o)
            BY <2>2 DEF SubscribePlain
        <3>2. QED
            BY <1>1, <3>1
    <2>3. QED
        BY <2>1, <2>2
<1>10. ValueTypes' /\ ObserverTypes' /\ gate' = gate
    BY <1>8, <1>9, TypesInParts DEF SubscribePlain, SignalInv, ValueTypes, ObserverTypes
<1>11. QED
    BY <1>2, <1>3, <1>5, <1>8, <1>10, DrawsKeep, TypesInParts DEF SignalInv

LEMMA SubscribeGatedKeeps ==
    ASSUME SignalAssumption, SignalInv, NEW t \in Callers, NEW o \in Observers,
           task[t] = NoTask, since[o] = Nil, SubscribeGated(t, o)
    PROVE  SignalInv'
<1> DEFINE r == [NoTask EXCEPT !.pc = "replay", !.obs = o, !.event = value]
           g == [NoGate EXCEPT !.replaying = TRUE]
<1>1. task \in [Callers -> Task] /\ gate \in [Observers -> {Nil} \cup Gate]
      /\ since \in [Observers -> Nat \cup {Nil}] /\ initial \in [Observers -> Nat \cup {Nil}]
      /\ listeners \in Seq(Observers) /\ emitted \in Seq(Events) /\ value \in 1 .. MaxValue
    BY TypesInParts DEF SignalInv, ObserverTypes, ValueTypes
<1>2. /\ task' = [task EXCEPT ![t] = r] /\ gate' = [gate EXCEPT ![o] = g]
      /\ since' = [since EXCEPT ![o] = Len(emitted)] /\ initial' = [initial EXCEPT ![o] = value]
      /\ listeners' = Append(listeners, o)
    BY DEF SubscribeGated, Joins
<1>3. value \in Events /\ value \in Nat /\ Len(emitted) \in Nat /\ Nil \notin Nat
    BY <1>1 DEF SignalAssumption, Events
<1>4. r \in Task /\ r.pc = "replay" /\ r.event = value /\ r.obs = o /\ r.signalling = FALSE
    BY <1>3, EmptySeq DEF NoTask, Task, Pcs
<1>5. g \in Gate /\ g.replaying = TRUE /\ g.draining = FALSE
    BY EmptySeq DEF NoGate, Gate
<1>6. RoleFits(r) /\ task[t].pc \notin Stages
    BY <1>3, <1>4 DEF RoleFits, Draws, Stages, NoTask
<1>7. draining \in BOOLEAN
    BY TypesInParts, Zenon DEF SignalInv, ValueTypes
<1>8. DrainGoes(t, r)
    BY <1>4, <1>7 DEF SubscribeGated, DrainGoes, NoTask
<1> HIDE DEF r, g
<1>9. \A u \in Callers : ~At(u, o)
    BY DEF SignalInv, Strangers, Roles, At
<1>10. /\ since'[o] # Nil /\ \A p \in Observers : p # o => since'[p] = since[p]
       /\ since' \in [Observers -> Nat \cup {Nil}] /\ initial' \in [Observers -> Nat \cup {Nil}]
       /\ listeners' \in Seq(Observers)
    BY <1>1, <1>2, <1>3
<1>11. ValueTypes' /\ ObserverTypes'
    BY <1>10, TypesInParts DEF SubscribeGated, SignalInv, ValueTypes, ObserverTypes
<1>12. /\ task' \in [Callers -> Task] /\ gate' \in [Observers -> {Nil} \cup Gate]
       /\ Roles' /\ Gates' /\ Strangers' /\ OneDrainer'
    BY <1>2, <1>4, <1>5, <1>6, <1>8, <1>9, <1>10, GateKeeps
<1>13. QED
    BY <1>11, <1>12, TypesInParts DEF SignalInv

LEMMA UnsubscribeKeeps ==
    ASSUME SignalAssumption, SignalInv, NEW t \in Callers, NEW o \in Observers, Unsubscribe(t, o)
    PROVE  SignalInv'
<1>1. task \in [Callers -> Task] /\ listeners \in Seq(Observers)
    BY TypesInParts DEF SignalInv, ValueTypes
<1>2. NoTask \in Task /\ NoTask.pc = "idle" /\ NoTask.signalling = FALSE /\ task[t] = NoTask
    BY EmptySeq DEF NoTask, Task, Pcs, Unsubscribe
<1>3. RoleFits(NoTask) /\ NoTask.pc \notin Stages /\ task' = [task EXCEPT ![t] = NoTask]
    BY <1>1, <1>2 DEF RoleFits, Draws, Stages, Unsubscribe
<1>4. draining \in BOOLEAN
    BY TypesInParts, Zenon DEF SignalInv, ValueTypes
<1>5. DrainGoes(t, NoTask)
    BY <1>2, <1>4 DEF Unsubscribe, DrainGoes
<1>6. listeners' \in Seq(Observers)
    BY <1>1, WithoutFacts DEF Unsubscribe
<1>7. ValueTypes' /\ ObserverTypes' /\ UNCHANGED <<gate, since>>
    BY <1>6, TypesInParts DEF Unsubscribe, SignalInv, ValueTypes, ObserverTypes
<1>8. QED
    BY <1>2, <1>3, <1>5, <1>7, DrawsKeep, TypesInParts DEF SignalInv

\* The panic of a callback that the drain of t called.
LEMMA PanicReachesKeeps ==
    ASSUME SignalAssumption, SignalInv, NEW t \in Callers, PanicReaches(t)
    PROVE  SignalInv'
<1> DEFINE o == task[t].obs
           g == [gate[o] EXCEPT !.draining = FALSE]
<1>1. task[t] \in Task /\ task \in [Callers -> Task] /\ gate \in [Observers -> {Nil} \cup Gate]
      /\ listeners \in Seq(Observers) /\ task[t].signalling \in BOOLEAN
    BY TypesInParts DEF SignalInv, ObserverTypes, ValueTypes, Task
<1>2. task' = [task EXCEPT ![t] = NoTask]
    BY DEF PanicReaches, Done
<1>3. NoTask \in Task /\ NoTask.pc = "idle" /\ NoTask.signalling = FALSE
    BY EmptySeq DEF NoTask, Task, Pcs
<1>4. RoleFits(NoTask) /\ NoTask.pc \notin Stages /\ ~(NoTask.pc \in {"replay", "finish"}) /\ NoTask.pc # "gate"
    BY <1>3 DEF RoleFits, Draws, Stages
<1>5. draining \in BOOLEAN
    BY TypesInParts, Zenon DEF SignalInv, ValueTypes
<1>6. DrainGoes(t, NoTask)
    <2>1. CASE task[t].signalling
        BY <1>3, <2>1 DEF PanicReaches, Unwind, DrainGoes
    <2>2. CASE ~task[t].signalling
        <3>1. draining' = draining
            BY <1>5, <2>2 DEF PanicReaches, Unwind
        <3>2. QED
            BY <1>1, <1>3, <1>5, <2>2, <3>1 DEF DrainGoes
    <2>3. QED
        BY <2>1, <2>2
<1>7. draining' \in BOOLEAN
    BY <1>6 DEF DrainGoes
<1>8. {terminated, draining, terminal, panicked}' \subseteq BOOLEAN
    BY <1>7, TypesInParts, Zenon DEF PanicReaches, SignalInv, ValueTypes
<1>9. ASSUME listeners' \in Seq(Observers)
      PROVE  ValueTypes' /\ ObserverTypes' /\ since' = since
    BY <1>8, <1>9, TypesInParts DEF PanicReaches, SignalInv, ValueTypes, ObserverTypes, remembered
<1>10. CASE task[t].pc = "gate"
    <2>1. task[t].pc \in Stages
        BY <1>10 DEF Stages
    <2>2. /\ o \in Observers /\ gate[o] \in Gate /\ gate[o] # Nil /\ since[o] # Nil
          /\ \A u \in Callers : u # t => ~At(u, o)
          /\ ~gate[o].replaying
        BY <1>10, <2>1, AtGate
    <2>3. g \in Gate /\ g.replaying = gate[o].replaying /\ g.draining = FALSE
        BY <2>2 DEF Gate
    <2>4. gate' = [gate EXCEPT ![o] = g]
        BY <1>1, <1>10, <2>2 DEF PanicReaches, Gate
    <2>5. Without(listeners, o) \in Seq(Observers)
        BY <1>1, <2>2, WithoutFacts
    <2>6. listeners' \in Seq(Observers)
        BY <1>1, <2>5 DEF PanicReaches, Unwind
    <2>7. ValueTypes' /\ ObserverTypes' /\ since' = since
        BY <1>9, <2>6
    <2> HIDE DEF g
    <2>8. task[t].obs = o
        OBVIOUS
    <2> HIDE DEF o
    <2>9. /\ task' \in [Callers -> Task] /\ gate' \in [Observers -> {Nil} \cup Gate]
          /\ Roles' /\ Gates' /\ Strangers' /\ OneDrainer'
        BY <1>2, <1>3, <1>4, <1>6, <2>1, <2>2, <2>3, <2>4, <2>7, <2>8, GateKeeps
    <2>10. QED
        BY <2>7, <2>9, TypesInParts DEF SignalInv
<1>11. CASE task[t].pc = "deliver"
    <2>1. task[t].pc \notin Stages /\ task[t].signalling
        BY <1>11 DEF Stages, SignalInv, Roles, Draws
    <2>2. listeners' \in Seq(Observers) /\ gate' = gate
        BY <1>1, <1>11, <2>1 DEF PanicReaches, Unwind
    <2>3. ValueTypes' /\ ObserverTypes' /\ since' = since
        BY <1>9, <2>2
    <2>4. QED
        BY <1>2, <1>3, <1>4, <1>6, <2>1, <2>2, <2>3, DrawsKeep, TypesInParts DEF SignalInv
<1>12. QED
    BY <1>10, <1>11 DEF PanicReaches

LEMMA SignalStep ==
    ASSUME SignalAssumption, SignalInv, [SignalNext]_signalVars
    PROVE  SignalInv'
<1>1. ASSUME UNCHANGED signalVars PROVE SignalInv'
    BY <1>1 DEF signalVars, signal, remembered, SignalInv, SignalTypeOK, Roles, Gates, Strangers, OneDrainer, At
<1>2. ASSUME NEW t \in Callers, NEW o \in Observers, Subscribe(t, o) PROVE SignalInv'
    BY <1>2, SubscribePlainKeeps, SubscribeGatedKeeps DEF Subscribe
<1>3. QED
    BY <1>1, <1>2, SetKeeps, CompleteKeeps, EnqueueKeeps, DrainKeeps, DispatchKeeps, DeliveredKeeps,
       DeliverPlainKeeps, DeliverGatedKeeps, DrainGateKeeps, PanicPlainKeeps, PanicGatedKeeps,
       PanicReachesKeeps, ReplayKeeps, FinishReplayKeeps, UnsubscribeKeeps DEF SignalNext

\* The first part of the invariant holds in every behaviour.
THEOREM SignalInvariant ==
    ASSUME SignalAssumption
    PROVE  SignalSpec => []SignalInv
<1>1. SignalInit => SignalInv
    BY SignalInitial
<1>2. SignalInv /\ [SignalNext]_signalVars => SignalInv'
    BY SignalStep
<1>3. QED
    BY <1>1, <1>2, PTL DEF SignalSpec

\* Queues, gates, observers and threads are of their kinds, whoever panics.
THEOREM SignalTypes ==
    ASSUME SignalAssumption
    PROVE  SignalSpec => []SignalTypeOK
<1>1. SignalInv => SignalTypeOK
    BY DEF SignalInv
<1>2. QED
    BY <1>1, SignalInvariant, PTL

\* One thread drains the signal, and one each gate, exactly while the flag is up, callbacks
\* that panic included.
THEOREM SignalOneDrainer ==
    ASSUME SignalAssumption
    PROVE  SignalSpec => []OneDrainer
<1>1. SignalInv => OneDrainer
    BY DEF SignalInv
<1>2. QED
    BY <1>1, SignalInvariant, PTL

-----------------------------------------------------------------------------
(* The second part is kept *)

LEMMA HearInitial == SignalAssumption /\ SignalInit => HearInv
<1> SUFFICES ASSUME SignalAssumption, SignalInit PROVE HearInv
    OBVIOUS
<1>1. SignalInv
    BY SignalInitial
<1>2. \A t \in Callers : task[t] = NoTask /\ NoTask.signalling = FALSE /\ NoTask.left = <<>>
    BY DEF SignalInit, NoTask
<1>3. Log
    BY <1>2, EmptySeq DEF SignalInit, Log
<1>4. Lists
    BY <1>2, MembersEmpty DEF SignalInit, Lists
<1>5. Attended /\ \A o \in Observers : Place(o)
    BY DEF SignalInit, Attended, Place
<1>6. QED
    BY <1>1, <1>3, <1>4, <1>5 DEF HearInv

\* What Log says of lengths.
LEMMA LogFacts ==
    ASSUME SignalInv, Log
    PROVE  /\ Len(queue) \in Nat /\ Len(emitted) \in Nat /\ Taken \in Nat
           /\ Taken = Len(emitted) - Len(queue) /\ Len(queue) <= Len(emitted)
           /\ \A o \in Observers : Reached(o) \in Int
<1>1. queue \in Seq(Events) /\ emitted \in Seq(Events)
    BY TypesInParts DEF SignalInv, ValueTypes
<1>2. Len(queue) \in Nat /\ Len(emitted) \in Nat
    BY <1>1
<1>3. Taken \in Nat
    BY <1>2 DEF Log, Taken
<1>4. QED
    BY <1>2, <1>3 DEF Log, Taken, Reached

\* A step that leaves the queue alone, and after which a drainer has in hand what it had.
LEMMA LogStays ==
    ASSUME Log, UNCHANGED <<queue, emitted, terminal>>,
           \A u \in Callers : task'[u].signalling /\ task'[u].pc # "drain" =>
               task[u].signalling /\ task[u].pc # "drain" /\ task'[u].event = task[u].event
    PROVE  Log' /\ Taken' = Taken
<1>1. Taken' = Taken
    BY DEF Taken
<1>2. QED
    BY <1>1 DEF Log

\* A step that lets nobody in but those who have subscribed.
LEMMA ListsStay ==
    ASSUME Lists, Unrepeated(listeners'), \A u \in Callers : Unrepeated(task'[u].left),
           \A p \in Observers : since'[p] = Nil =>
               /\ since[p] = Nil /\ heard'[p] = heard[p]
               /\ p \in ToSet(listeners') => p \in ToSet(listeners)
               /\ \A u \in Callers : p \in ToSet(task'[u].left) =>
                      p \in ToSet(task[u].left) \cup ToSet(listeners)
    PROVE  Lists'
BY DEF Lists

\* The one who drains the signal is the one who keeps observers waiting.
LEMMA DueDrainer ==
    ASSUME NEW t \in Callers, NEW o
    PROVE  /\ SignalInv /\ task[t].signalling => (Due(o) <=> Awaits(t, o))
           /\ SignalInv' /\ task'[t].signalling => (Due(o)' <=> Awaits(t, o)')
BY DEF SignalInv, OneDrainer, Due, Awaits

\* A step of t that changes nothing for o.
LEMMA DueStays ==
    ASSUME NEW t \in Callers, \A u \in Callers : u # t => task'[u] = task[u], NEW o,
           o \in ToSet(listeners') <=> o \in ToSet(listeners), Awaits(t, o)' <=> Awaits(t, o)
    PROVE  Due(o)' <=> Due(o)
<1>1. \A u \in Callers : u # t => (Awaits(u, o)' <=> Awaits(u, o))
    BY DEF Awaits
<1>2. QED
    BY <1>1 DEF Due

LEMMA PlaceStays ==
    ASSUME SignalInv, Log, NEW o \in Observers, Place(o),
           UNCHANGED <<queue, emitted, terminal>>, since'[o] = since[o], gone \subseteq gone',
           o \in ToSet(listeners') <=> o \in ToSet(listeners), Due(o)' <=> Due(o),
           \A u \in Callers : o \in ToSet(task'[u].left) =>
               o \in ToSet(listeners) \/ \E v \in Callers : o \in ToSet(task[v].left),
           gate[o] = Nil => gate'[o] = Nil /\ heard'[o] = heard[o],
           gate[o] # Nil => gate'[o] # Nil /\ Known(o) \subseteq Known(o)'
    PROVE  Place(o)'
<1> SUFFICES ASSUME since[o] # Nil, o \notin gone PROVE Late(o)' \/ InStep(o)'
    BY DEF Place
<1>1. Taken' = Taken /\ Reached(o)' = Reached(o)
    BY DEF Taken, Reached
<1>2. CASE Late(o)
    BY <1>2 DEF Late
<1>3. CASE InStep(o)
    <2>1. CASE gate[o] = Nil
        <3>1. HeardPlain(o)'
            BY <1>1, <1>3, <2>1 DEF InStep, HeardPlain
        <3>2. QED
            BY <1>3, <2>1, <3>1 DEF InStep
    <2>2. CASE gate[o] # Nil
        <3>1. HeardGated(o)'
            BY <1>1, <1>3, <2>2 DEF InStep, HeardGated
        <3>2. QED
            BY <1>3, <2>2, <3>1 DEF InStep
    <2>3. QED
        BY <2>1, <2>2
<1>4. QED
    BY <1>2, <1>3 DEF Place

\* o is called with the event in the drainer's hand, or finds it in its gate.
LEMMA PlaceHears ==
    ASSUME SignalInv, Log, NEW o \in Observers, Place(o), NEW t \in Callers,
           task[t].signalling, task[t].pc # "drain", Due(o), ~Due(o)',
           UNCHANGED <<queue, emitted, terminal>>, since'[o] = since[o], gone \subseteq gone',
           o \in ToSet(listeners') <=> o \in ToSet(listeners),
           \E v \in Callers : o \in ToSet(task[v].left),
           gate[o] = Nil => gate'[o] = Nil /\ heard'[o] = Append(heard[o], task[t].event),
           gate[o] # Nil => /\ gate'[o] # Nil
                            /\ Known(o) \cup {task[t].event} \subseteq Known(o)'
    PROVE  Place(o)'
<1> SUFFICES ASSUME since[o] # Nil, o \notin gone PROVE InStep(o)'
    BY DEF Place
<1>1. InStep(o)
    BY DEF Place, Late
<1>2. /\ Taken' = Taken /\ Reached(o) = Taken - 1 /\ Reached(o)' = Taken
      /\ Taken >= 1 /\ Taken \in Nat /\ Taken <= Len(emitted)
    BY LogFacts DEF Taken, Reached, Log
<1>3. task[t].event = emitted[Taken] /\ since[o] \in Nat
    BY <1>1 DEF Log, InStep
<1>4. CASE gate[o] = Nil
    <2> DEFINE h == heard[o]
    <2>1. h \in Seq(Events) /\ task[t].event \in Events /\ Len(h) \in Nat
        <3>1. heard[o] \in Seq(Events)
            BY TypesInParts DEF SignalInv, ObserverTypes
        <3>2. task[t].event \in Events
            BY DEF SignalInv, Roles, Draws
        <3>3. QED
            BY <3>1, <3>2
    <2>2. /\ Len(h) <= Taken - 1 /\ Taken - 1 - since[o] <= Len(h)
          /\ \A i \in 1 .. Len(h) : h[i] = emitted[Taken - 1 - Len(h) + i]
        BY <1>1, <1>2, <1>4 DEF InStep, HeardPlain
    <2> DEFINE k == Append(h, task[t].event)
    <2>3. Len(k) = Len(h) + 1 /\ k[Len(h) + 1] = task[t].event /\ \A i \in 1 .. Len(h) : k[i] = h[i]
        BY <2>1
    <2>4. heard'[o] = k
        BY <1>4
    <2> HIDE DEF h, k
    <2>5. Len(k) <= Taken /\ Taken - since[o] <= Len(k)
        BY <1>2, <1>3, <2>1, <2>2, <2>3
    <2>6. ASSUME NEW i \in 1 .. Len(k) PROVE k[i] = emitted[Taken - Len(k) + i]
        <3>1. CASE i = Len(h) + 1
            <4>1. Taken - Len(k) + i = Taken
                BY <1>2, <2>1, <2>3, <3>1
            <4>2. QED
                BY <1>3, <2>3, <3>1, <4>1
        <3>2. CASE i \in 1 .. Len(h)
            <4>1. Taken - Len(k) + i = Taken - 1 - Len(h) + i
                BY <1>2, <2>1, <2>3, <3>2
            <4>2. QED
                BY <2>2, <2>3, <3>2, <4>1
        <3>3. QED
            BY <2>1, <2>3, <3>1, <3>2
    <2>7. HeardPlain(o)'
        BY <1>2, <2>4, <2>5, <2>6 DEF HeardPlain
    <2>8. QED
        BY <1>1, <1>4, <2>7 DEF InStep
<1>5. CASE gate[o] # Nil
    <2>1. ASSUME NEW i \in 1 .. Len(emitted), since[o] < i, i <= Taken PROVE emitted[i] \in Known(o)'
        <3>1. CASE i = Taken
            BY <1>3, <1>5, <3>1
        <3>2. CASE i <= Taken - 1
            BY <1>1, <1>2, <1>5, <2>1, <3>2 DEF InStep, HeardGated
        <3>3. QED
            BY <1>2, <2>1, <3>1, <3>2
    <2>2. HeardGated(o)'
        BY <1>2, <2>1 DEF HeardGated
    <2>3. QED
        BY <1>1, <1>5, <2>2 DEF InStep
<1>6. QED
    BY <1>4, <1>5

\* To keep the invariant is to keep its parts, of which the last only matter before a panic.
LEMMA HearStays ==
    ASSUME HearInv, SignalInv', Log', Lists', panicked' = panicked,
           ~panicked /\ Attended => Attended',
           \A o \in Observers : ~panicked /\ Attended /\ Place(o) => Place(o)'
    PROVE  HearInv'
BY DEF HearInv

\* Lists are known to be without repetition, and their members to be observers.
LEMMA ListFacts ==
    ASSUME SignalInv, Lists
    PROVE  /\ listeners \in Seq(Observers) /\ Unrepeated(listeners)
           /\ ToSet(listeners) \subseteq Observers
           /\ \A u \in Callers : /\ task[u].left \in Seq(Observers) /\ Unrepeated(task[u].left)
                                 /\ ToSet(task[u].left) \subseteq Observers
<1>1. listeners \in Seq(Observers) /\ task \in [Callers -> Task]
    BY TypesInParts DEF SignalInv, ValueTypes
<1>2. \A u \in Callers : task[u].left \in Seq(Observers)
    BY <1>1 DEF Task
<1>3. QED
    BY <1>1, <1>2, MembersOf DEF Lists

\* set, complete, the refusal of an event after the end, and the end of a drain of a gate: a
\* step of t that moves no event.
LEMMA AsideHears ==
    ASSUME HearInv, SignalInv', NEW t \in Callers, \A u \in Callers : u # t => task'[u] = task[u],
           UNCHANGED <<queue, emitted, terminal, listeners, since, heard, panicked>>,
           gone \subseteq gone', draining' = draining,
           task[t].signalling \/ task'[t].signalling =>
               /\ task[t].signalling /\ task'[t].signalling /\ task'[t].event = task[t].event
               /\ \/ task[t].pc = "gate" /\ task'[t].pc = "deliver"
                  \/ task[t].pc = "deliver" /\ task'[t].pc = "drain" /\ task[t].left = <<>>,
           task'[t].left = task[t].left \/ (~task'[t].signalling /\ task'[t].left = <<>>),
           \A o \in Observers :
               IF gate[o] = Nil THEN gate'[o] = Nil
               ELSE /\ gate'[o] # Nil /\ gate'[o].pending = gate[o].pending
                    /\ \/ gate'[o].replaying \/ gate'[o].draining \/ gate[o].pending = <<>>
                       \/ gate'[o] = gate[o]
    PROVE  HearInv'
<1>1. Log'
    BY LogStays DEF HearInv
<1>2. Unrepeated(<<>>) /\ ToSet(<<>>) = {}
    BY MembersEmpty
<1>3. \A u \in Callers : task'[u].left = task[u].left \/ task'[u].left = <<>>
    OBVIOUS
<1>4. Lists'
    BY <1>2, <1>3, ListsStay DEF HearInv, Lists
<1>5. Attended => Attended'
    BY DEF Attended
<1>6. \A o : Awaits(t, o)' <=> Awaits(t, o)
    <2>1. CASE ~(task[t].signalling \/ task'[t].signalling)
        BY <2>1 DEF Awaits
    <2>2. CASE task[t].pc = "gate" /\ task'[t].pc = "deliver" /\ task'[t].left = task[t].left
               /\ task[t].signalling /\ task'[t].signalling
        BY <2>2 DEF Awaits
    <2>3. CASE task[t].pc = "deliver" /\ task'[t].pc = "drain" /\ task[t].left = <<>>
        BY <1>2, <2>3 DEF Awaits
    <2>4. QED
        BY <2>1, <2>2, <2>3
<1>7. \A o \in Observers : Due(o)' <=> Due(o)
    BY <1>6, DueStays
<1>8. ASSUME NEW o \in Observers, Place(o) PROVE Place(o)'
    <2>1. \A u \in Callers : o \in ToSet(task'[u].left) => \E v \in Callers : o \in ToSet(task[v].left)
        BY <1>2, <1>3
    <2>2. gate[o] # Nil => Known(o) \subseteq Known(o)'
        BY DEF Known
    <2>3. QED
        BY <1>7, <1>8, <2>1, <2>2, PlaceStays DEF HearInv
<1>9. QED
    BY <1>1, <1>4, <1>5, <1>8, HearStays

\* A step that starts or ends a call of a thread that drains nothing.
LEMMA CallHears ==
    ASSUME SignalAssumption, HearInv, NEW t \in Callers, Set(t) \/ Complete(t) \/ (Enqueue(t) /\ terminal)
    PROVE  HearInv'
<1>1. SignalInv'
    BY SetKeeps, CompleteKeeps, EnqueueKeeps DEF HearInv
<1>2. task \in [Callers -> Task]
    BY TypesInParts DEF HearInv, SignalInv
<1>3. ~task[t].signalling
    <2>1. CASE task[t] = NoTask
        BY <2>1 DEF NoTask
    <2>2. CASE task[t].pc = "emit"
        BY <2>2 DEF HearInv, SignalInv, Roles, Draws
    <2>3. QED
        BY <2>1, <2>2 DEF Set, Complete, Enqueue
<1>4. /\ \A u \in Callers : u # t => task'[u] = task[u]
      /\ ~task'[t].signalling /\ task'[t].left = <<>>
    <2>1. CASE Set(t)
        BY <1>2, <2>1 DEF Set, NoTask
    <2>2. CASE Complete(t)
        BY <1>2, <2>2 DEF Complete, NoTask
    <2>3. CASE Enqueue(t) /\ terminal
        BY <1>2, <2>3 DEF Enqueue, Done, NoTask
    <2>4. QED
        BY <2>1, <2>2, <2>3
<1>5. UNCHANGED <<queue, emitted, terminal, listeners, since, heard, panicked, gone, draining, gate>>
    BY DEF Set, Complete, Enqueue, signal, remembered
<1>6. QED
    BY <1>1, <1>3, <1>4, <1>5, AsideHears

LEMMA DeliveredHears ==
    ASSUME SignalAssumption, HearInv, NEW t \in Callers, Delivered(t)
    PROVE  HearInv'
<1>1. SignalInv'
    BY DeliveredKeeps DEF HearInv
<1>2. task \in [Callers -> Task] /\ task[t].signalling /\ task[t].pc = "deliver"
    BY TypesInParts DEF HearInv, SignalInv, Roles, Draws, Delivered
<1>3. /\ \A u \in Callers : u # t => task'[u] = task[u]
      /\ task'[t].signalling /\ task'[t].pc = "drain" /\ task'[t].event = task[t].event
      /\ task'[t].left = task[t].left /\ task[t].left = <<>>
    BY <1>2 DEF Delivered, Continue, Task
<1>4. UNCHANGED <<queue, emitted, terminal, listeners, since, heard, panicked, gone, draining, gate>>
    BY DEF Delivered, signal, remembered
<1>5. QED
    BY <1>1, <1>2, <1>3, <1>4, AsideHears

LEMMA FinishReplayHears ==
    ASSUME SignalAssumption, HearInv, NEW t \in Callers, FinishReplay(t)
    PROVE  HearInv'
<1>1. SignalInv'
    BY FinishReplayKeeps DEF HearInv
<1>2. task \in [Callers -> Task] /\ ~task[t].signalling /\ task[t].pc = "finish"
      /\ gate \in [Observers -> {Nil} \cup Gate]
    BY TypesInParts DEF HearInv, SignalInv, Roles, Draws, FinishReplay
<1>3. /\ \A u \in Callers : u # t => task'[u] = task[u]
      /\ ~task'[t].signalling /\ task'[t].left = task[t].left
    BY <1>2 DEF FinishReplay, Continue, Task
<1>4. UNCHANGED <<queue, emitted, terminal, listeners, since, heard, panicked, gone, draining>>
    BY DEF FinishReplay, signal, remembered
<1> DEFINE o == task[t].obs
<1>5. o \in Observers /\ gate[o] \in Gate /\ gate[o] # Nil
    BY <1>2, AtGate DEF HearInv, Stages
<1>6. /\ \A p \in Observers : p # o => gate'[p] = gate[p]
      /\ gate'[o] \in Gate /\ gate'[o].pending = gate[o].pending /\ gate'[o].draining = TRUE
    BY <1>2, <1>5 DEF FinishReplay, Gate
<1>7. Nil \notin Gate
    BY DEF SignalAssumption, Gate, Events
<1>8. \A p \in Observers :
          IF gate[p] = Nil THEN gate'[p] = Nil
          ELSE /\ gate'[p] # Nil /\ gate'[p].pending = gate[p].pending
               /\ \/ gate'[p].replaying \/ gate'[p].draining \/ gate[p].pending = <<>>
                  \/ gate'[p] = gate[p]
    BY <1>5, <1>6, <1>7
<1>9. QED
    BY <1>1, <1>2, <1>3, <1>4, <1>8, AsideHears

\* A step at the gate of o that hides nothing: what was known of the events still is.
LEMMA GateHears ==
    ASSUME HearInv, SignalInv', NEW o \in Observers, gate[o] # Nil, gate'[o] # Nil,
           \A p \in Observers : p # o => gate'[p] = gate[p] /\ heard'[p] = heard[p],
           Known(o) \subseteq Known(o)',
           gate'[o].replaying \/ gate'[o].draining,
           UNCHANGED <<queue, emitted, terminal, listeners, since, draining, gone, panicked>>,
           \A u \in Callers : /\ task'[u].signalling <=> task[u].signalling
                              /\ task'[u].left = task[u].left
                              /\ task[u].signalling => task'[u] = task[u]
    PROVE  HearInv'
<1>1. Log'
    BY LogStays DEF HearInv
<1>2. since[o] # Nil
    BY DEF HearInv, SignalInv, Strangers
<1>3. Lists'
    BY <1>2 DEF HearInv, Lists
<1>4. Attended => Attended'
    BY DEF Attended
<1>5. \A p : Due(p)' <=> Due(p)
    BY DEF Due, Awaits
<1>6. ASSUME NEW p \in Observers, Place(p) PROVE Place(p)'
    <2>1. gate[p] # Nil => gate'[p] # Nil /\ Known(p) \subseteq Known(p)'
        BY DEF Known
    <2>2. gate[p] = Nil => gate'[p] = Nil /\ heard'[p] = heard[p]
        OBVIOUS
    <2>3. \A u \in Callers : p \in ToSet(task'[u].left) => \E v \in Callers : p \in ToSet(task[v].left)
        OBVIOUS
    <2>4. QED
        BY <1>5, <1>6, <2>1, <2>2, <2>3, PlaceStays DEF HearInv
<1>7. QED
    BY <1>1, <1>3, <1>4, <1>6, HearStays

LEMMA ReplayHears ==
    ASSUME SignalAssumption, HearInv, NEW t \in Callers, Replay(t)
    PROVE  HearInv'
<1>1. SignalInv'
    BY ReplayKeeps DEF HearInv
<1>2. /\ task \in [Callers -> Task] /\ ~task[t].signalling /\ task[t].pc = "replay"
      /\ gate \in [Observers -> {Nil} \cup Gate] /\ task[t].event \in Events
    BY TypesInParts DEF HearInv, SignalInv, Roles, Draws, Replay
<1>3. PICK o \in Observers :
          o = task[t].obs /\ gate[o] \in Gate /\ gate[o] # Nil /\ gate[o].replaying
    BY <1>2, AtGate DEF HearInv, Stages
<1>4. \A u \in Callers : /\ task'[u].signalling <=> task[u].signalling
                         /\ task'[u].left = task[u].left
                         /\ task[u].signalling => task'[u] = task[u]
    BY <1>2 DEF Replay, Continue, Task
<1>5. /\ \A p \in Observers : p # o => gate'[p] = gate[p]
      /\ gate'[o] \in Gate /\ gate'[o].replaying = gate[o].replaying
      /\ gate'[o].pending = Append(gate[o].pending, task[t].event)
    <2>1. gate[o].pending \in Seq(Events) /\ Append(gate[o].pending, task[t].event) \in Seq(Events)
        BY <1>2, <1>3 DEF Gate
    <2>2. QED
        BY <1>2, <1>3, <2>1 DEF Replay, Gate
<1>6. Nil \notin Gate
    BY DEF SignalAssumption, Gate, Events
<1>7. Known(o) \subseteq Known(o)'
    <2>1. gate[o].pending \in Seq(Events) /\ heard' = heard
        BY <1>3 DEF Gate, Replay
    <2>2. ToSet(gate'[o].pending) = ToSet(gate[o].pending) \cup {task[t].event}
        BY <1>2, <1>5, <2>1, MembersAppend
    <2>3. QED
        BY <2>1, <2>2 DEF Known
<1>8. UNCHANGED <<queue, emitted, terminal, listeners, since, draining, gone, panicked, heard>>
    BY DEF Replay, signal, remembered
<1>9. QED
    BY <1>1, <1>3, <1>4, <1>5, <1>6, <1>7, <1>8, GateHears

LEMMA DrainGateHears ==
    ASSUME SignalAssumption, HearInv, NEW t \in Callers, DrainGate(t)
    PROVE  HearInv'
<1>1. SignalInv'
    BY DrainGateKeeps DEF HearInv
<1>2. /\ task \in [Callers -> Task] /\ task[t].pc = "gate"
      /\ gate \in [Observers -> {Nil} \cup Gate] /\ heard \in [Observers -> Seq(Events)]
    BY TypesInParts DEF HearInv, SignalInv, ObserverTypes, DrainGate
<1>3. PICK o \in Observers :
          o = task[t].obs /\ gate[o] \in Gate /\ gate[o] # Nil /\ gate[o].draining
    BY <1>2, AtGate DEF HearInv, Stages
<1>4. Nil \notin Gate /\ gate[o].pending \in Seq(Events)
    BY <1>3 DEF SignalAssumption, Gate, Events
<1>5. UNCHANGED <<queue, emitted, terminal, listeners, since, draining, gone, panicked>>
    BY DEF DrainGate, signal, remembered
<1>6. CASE gate[o].pending = <<>>
    <2>1. /\ \A u \in Callers : u # t => task'[u] = task[u]
          /\ task[t].signalling => task'[t].signalling /\ task'[t].pc = "deliver"
                                   /\ task'[t].left = task[t].left /\ task'[t].event = task[t].event
          /\ ~task[t].signalling => ~task'[t].signalling /\ task'[t].left = <<>>
          /\ heard' = heard
        BY <1>2, <1>3, <1>6 DEF DrainGate, Continue, Done, NoTask, Task
    <2>2. /\ \A p \in Observers : p # o => gate'[p] = gate[p]
          /\ gate'[o] \in Gate /\ gate'[o].pending = gate[o].pending
        <3>1. gate' = [gate EXCEPT ![o] = [gate[o] EXCEPT !.draining = FALSE]]
            BY <1>3, <1>6, Zenon DEF DrainGate
        <3>2. [gate[o] EXCEPT !.draining = FALSE] \in Gate
            BY <1>3 DEF Gate
        <3>3. [gate[o] EXCEPT !.draining = FALSE].pending = gate[o].pending
            BY <1>3 DEF Gate
        <3>4. QED
            BY <1>2, <1>3, <3>1, <3>2, <3>3
    <2>3. \A p \in Observers :
              IF gate[p] = Nil THEN gate'[p] = Nil
              ELSE /\ gate'[p] # Nil /\ gate'[p].pending = gate[p].pending
                   /\ \/ gate'[p].replaying \/ gate'[p].draining \/ gate[p].pending = <<>>
                      \/ gate'[p] = gate[p]
        BY <1>3, <1>4, <1>6, <2>2
    <2>4. task[t].signalling \/ task'[t].signalling =>
              /\ task[t].signalling /\ task'[t].signalling /\ task'[t].event = task[t].event
              /\ task[t].pc = "gate" /\ task'[t].pc = "deliver"
        BY <1>2, <2>1
    <2>5. task'[t].left = task[t].left \/ (~task'[t].signalling /\ task'[t].left = <<>>)
        BY <2>1
    <2>6. QED
        BY <1>1, <1>5, <2>1, <2>3, <2>4, <2>5, AsideHears
<1>7. CASE gate[o].pending # <<>>
    <2>1. Head(gate[o].pending) \in Events /\ Tail(gate[o].pending) \in Seq(Events)
        BY <1>4, <1>7
    <2>2. /\ \A p \in Observers : p # o => gate'[p] = gate[p] /\ heard'[p] = heard[p]
          /\ gate'[o] \in Gate /\ gate'[o].draining = gate[o].draining
          /\ gate'[o].pending = Tail(gate[o].pending)
          /\ heard'[o] = Append(heard[o], Head(gate[o].pending)) /\ task' = task
        <3> DEFINE g == [gate[o] EXCEPT !.pending = Tail(gate[o].pending)]
        <3>1. gate' = [gate EXCEPT ![o] = g] /\ task' = task
            BY <1>3, <1>7, Zenon DEF DrainGate
        <3>2. heard' = [heard EXCEPT ![o] = Append(heard[o], Head(gate[o].pending))]
            BY <1>3, <1>7, Zenon DEF DrainGate, Hears
        <3>3. g \in Gate /\ g.draining = gate[o].draining /\ g.pending = Tail(gate[o].pending)
            BY <1>3, <2>1 DEF Gate
        <3> HIDE DEF g
        <3>4. QED
            BY <1>2, <1>3, <3>1, <3>2, <3>3
    <2>3. Known(o) \subseteq Known(o)'
        <3>1. ToSet(heard'[o]) = ToSet(heard[o]) \cup {Head(gate[o].pending)}
            BY <1>2, <1>3, <2>1, <2>2, MembersAppend
        <3>2. ToSet(gate[o].pending) \subseteq {Head(gate[o].pending)} \cup ToSet(Tail(gate[o].pending))
            BY <1>4, <1>7, MembersHeadTail
        <3>3. QED
            BY <2>2, <3>1, <3>2 DEF Known
    <2>4. QED
        BY <1>1, <1>3, <1>4, <1>5, <2>2, <2>3, GateHears
<1>8. QED
    BY <1>6, <1>7

\* The threads and lists that a delivery goes by.
LEMMA TaskFacts ==
    ASSUME SignalInv, NEW t \in Callers
    PROVE  /\ task \in [Callers -> Task] /\ task[t] \in Task
           /\ task[t].pc \in Draws => task[t].signalling
           /\ listeners \in Seq(Observers) /\ heard \in [Observers -> Seq(Events)]
           /\ gate \in [Observers -> {Nil} \cup Gate]
           /\ since \in [Observers -> Nat \cup {Nil}]
           /\ queue \in Seq(Events) /\ emitted \in Seq(Events)
BY TypesInParts DEF SignalInv, Roles, ValueTypes, ObserverTypes

LEMMA EnqueueHears ==
    ASSUME SignalAssumption, HearInv, NEW t \in Callers, Enqueue(t), ~terminal
    PROVE  HearInv'
<1> DEFINE e == task[t].event
<1>1. SignalInv'
    BY EnqueueKeeps DEF HearInv
<1>2. /\ task \in [Callers -> Task] /\ queue \in Seq(Events) /\ emitted \in Seq(Events)
      /\ task[t].pc = "emit" /\ e \in Events /\ ~task[t].signalling
    BY TaskFacts DEF HearInv, SignalInv, Roles, Enqueue, Draws
<1>3. /\ \A u \in Callers : u # t => task'[u] = task[u]
      /\ task'[t].pc \in {"idle", "drain"} /\ task'[t].left = <<>>
    <2> DEFINE r == IF draining THEN NoTask ELSE [NoTask EXCEPT !.pc = "drain", !.signalling = TRUE]
    <2>1. task' = [task EXCEPT ![t] = r]
        BY DEF Enqueue
    <2>2. r.pc \in {"idle", "drain"} /\ r.left = <<>>
        BY DEF NoTask
    <2> HIDE DEF r
    <2>3. QED
        BY <1>2, <2>1, <2>2
<1>4. /\ queue' = Append(queue, e) /\ emitted' = Append(emitted, e) /\ terminal' = (e = End)
      /\ draining' = TRUE
      /\ UNCHANGED <<gate, heard, panicked, listeners, since, gone>>
    BY DEF Enqueue
<1> HIDE DEF e
<1>5. /\ Len(queue) \in Nat /\ Len(emitted) \in Nat /\ Taken \in Nat
      /\ Taken = Len(emitted) - Len(queue) /\ Len(queue) <= Len(emitted)
    BY LogFacts DEF HearInv
<1>6. /\ Len(queue') = Len(queue) + 1 /\ Len(emitted') = Len(emitted) + 1
      /\ \A i \in 1 .. Len(emitted) : emitted'[i] = emitted[i]
      /\ \A i \in 1 .. Len(queue) : queue'[i] = queue[i]
      /\ emitted'[Len(emitted) + 1] = e /\ queue'[Len(queue) + 1] = e
    BY <1>2, <1>4
<1>7. Taken' = Taken
    BY <1>5, <1>6 DEF Taken
<1>8. Log'
    <2>1. \A i \in 1 .. Len(queue') : queue'[i] = emitted'[Taken + i]
        <3>1. SUFFICES ASSUME NEW i \in 1 .. Len(queue') PROVE queue'[i] = emitted'[Taken + i]
            OBVIOUS
        <3>2. CASE i = Len(queue) + 1
            <4>1. Taken + i = Len(emitted) + 1
                BY <1>5, <3>2
            <4>2. QED
                BY <1>6, <3>2, <4>1
        <3>3. CASE i \in 1 .. Len(queue)
            <4>1. Taken + i \in 1 .. Len(emitted)
                BY <1>5, <3>3
            <4>2. QED
                BY <1>6, <3>3, <4>1 DEF HearInv, Log
        <3>4. QED
            BY <1>5, <1>6, <3>2, <3>3
    <2>2. ASSUME NEW u \in Callers, task'[u].signalling, task'[u].pc # "drain"
          PROVE  Taken >= 1 /\ task'[u].event = emitted'[Taken]
        <3>1. task'[t].signalling => task'[t].pc = "drain"
            BY <1>1, <1>3 DEF SignalInv, Roles, Draws
        <3>2. u # t /\ task'[u] = task[u]
            BY <1>3, <2>2, <3>1
        <3>3. Taken >= 1 /\ task[u].event = emitted[Taken]
            BY <2>2, <3>2 DEF HearInv, Log
        <3>4. Taken \in 1 .. Len(emitted)
            BY <1>5, <3>3
        <3>5. QED
            BY <1>6, <3>2, <3>3, <3>4
    <2>3. \A i \in 1 .. Len(emitted') : emitted'[i] = End <=> (terminal' /\ i = Len(emitted'))
        <3>1. \A i \in 1 .. Len(emitted) : emitted[i] # End
            BY DEF HearInv, Log
        <3>2. \A i \in 1 .. Len(emitted') : i \in 1 .. Len(emitted) \/ i = Len(emitted) + 1
            BY <1>5, <1>6
        <3>3. \A i \in 1 .. Len(emitted) : i # Len(emitted')
            BY <1>5, <1>6
        <3>4. QED
            BY <1>4, <1>6, <3>1, <3>2, <3>3
    <2>4. Len(queue') <= Len(emitted') /\ Len(emitted') >= 1
        BY <1>5, <1>6
    <2>5. QED
        BY <1>7, <2>1, <2>2, <2>3, <2>4 DEF Log
<1>9. Lists'
    <2>1. \A u \in Callers : task'[u].left = task[u].left \/ task'[u].left = <<>>
        BY <1>3
    <2>2. QED
        BY <1>4, <2>1, MembersEmpty, ListsStay DEF HearInv, Lists
<1>10. Attended => Attended'
    BY <1>4 DEF Attended
<1>11. ASSUME NEW o \in Observers, Place(o) PROVE Place(o)'
    <2>1. SUFFICES ASSUME since[o] # Nil, o \notin gone PROVE InStep(o)'
        BY <1>4 DEF Place
    <2>2. InStep(o) /\ o \in ToSet(listeners)
        BY <1>11, <2>1 DEF Place, Late, InStep
    <2>3. Awaits(t, o)' <=> Awaits(t, o)
        BY <1>2, <1>3 DEF Awaits
    <2>4. Due(o)' <=> Due(o)
        BY <1>3, <1>4, <2>3, DueStays
    <2>5. Reached(o)' = Reached(o) /\ Reached(o) \in Int /\ Reached(o) <= Len(emitted)
        BY <1>5, <1>7, <2>4 DEF Reached
    <2>6. CASE gate[o] = Nil
        <3> DEFINE h == heard[o]
        <3>1. Len(h) \in Nat
            <4>1. heard[o] \in Seq(Events)
                BY TaskFacts DEF HearInv
            <4>2. QED
                BY <4>1
        <3>2. HeardPlain(o)
            BY <2>2, <2>6 DEF InStep
        <3>3. \A i \in 1 .. Len(h) : h[i] = emitted'[Reached(o) - Len(h) + i]
            <4>1. \A i \in 1 .. Len(h) : Reached(o) - Len(h) + i \in 1 .. Len(emitted)
                BY <1>5, <2>5, <3>1, <3>2 DEF HeardPlain
            <4>2. QED
                BY <1>6, <3>2, <4>1 DEF HeardPlain
        <3>4. HeardPlain(o)'
            BY <1>4, <2>5, <3>2, <3>3 DEF HeardPlain
        <3>5. QED
            BY <1>4, <1>5, <1>6, <2>2, <2>6, <3>4 DEF InStep
    <2>7. CASE gate[o] # Nil
        <3>1. HeardGated(o)
            BY <2>2, <2>7 DEF InStep
        <3>2. ASSUME NEW i \in 1 .. Len(emitted'), since[o] < i, i <= Reached(o)
              PROVE  emitted'[i] \in Known(o)
            <4>1. i \in 1 .. Len(emitted)
                BY <1>5, <1>6, <2>5, <3>2
            <4>2. QED
                BY <1>6, <3>1, <3>2, <4>1 DEF HeardGated
        <3>3. HeardGated(o)'
            BY <1>4, <2>5, <3>2 DEF HeardGated, Known
        <3>4. QED
            BY <1>4, <1>5, <1>6, <2>2, <2>7, <3>3 DEF InStep
    <2>8. QED
        BY <2>6, <2>7
<1>12. QED
    BY <1>1, <1>4, <1>8, <1>9, <1>10, <1>11, HearStays

LEMMA DrainHears ==
    ASSUME SignalAssumption, HearInv, NEW t \in Callers, Drain(t)
    PROVE  HearInv'
<1>1. SignalInv'
    BY DrainKeeps DEF HearInv
<1>2. /\ task \in [Callers -> Task] /\ queue \in Seq(Events) /\ emitted \in Seq(Events)
      /\ task[t].pc = "drain" /\ task[t].signalling
    BY TaskFacts DEF HearInv, Drain, Draws
<1>3. UNCHANGED <<emitted, terminal, listeners, since, heard, panicked, gone, gate>>
    BY DEF Drain, remembered
<1>4. /\ Len(queue) \in Nat /\ Len(emitted) \in Nat /\ Taken \in Nat
      /\ Taken = Len(emitted) - Len(queue) /\ Len(queue) <= Len(emitted)
    BY LogFacts DEF HearInv
<1>5. \A o : ~Due(o)
    BY <1>2, DueDrainer DEF HearInv, Awaits
<1>6. CASE queue = <<>>
    <2>1. /\ \A u \in Callers : u # t => task'[u] = task[u]
          /\ task'[t].left = <<>> /\ ~task'[t].signalling /\ queue' = queue
        BY <1>2, <1>6 DEF Drain, Done, NoTask
    <2>2. Log'
        BY <1>3, <2>1, LogStays DEF HearInv
    <2>3. Lists'
        <3>1. \A u \in Callers : task'[u].left = task[u].left \/ task'[u].left = <<>>
            BY <2>1
        <3>2. QED
            BY <1>3, <3>1, MembersEmpty, ListsStay DEF HearInv, Lists
    <2>4. Attended => Attended'
        BY <1>3, <1>6, <2>1 DEF Attended
    <2>5. ASSUME NEW o \in Observers, Place(o) PROVE Place(o)'
        <3>1. Awaits(t, o)' <=> Awaits(t, o)
            BY <1>2, <2>1 DEF Awaits
        <3>2. Due(o)' <=> Due(o)
            BY <1>3, <2>1, <3>1, DueStays
        <3>3. \A u \in Callers : o \in ToSet(task'[u].left) => \E v \in Callers : o \in ToSet(task[v].left)
            BY <2>1, MembersEmpty
        <3>4. QED
            BY <1>3, <2>1, <2>5, <3>2, <3>3, PlaceStays DEF HearInv, Known
    <2>6. QED
        BY <1>1, <1>3, <2>2, <2>3, <2>4, <2>5, HearStays
<1>7. CASE queue # <<>>
    <2>1. /\ \A u \in Callers : u # t => task'[u] = task[u]
          /\ task'[t].left = task[t].left /\ task'[t].signalling /\ task'[t].pc = "dispatch"
          /\ task'[t].event = Head(queue) /\ queue' = Tail(queue) /\ draining' = draining
        BY <1>2, <1>7 DEF Drain, Task
    <2>2. /\ Len(queue') = Len(queue) - 1 /\ Head(queue) = queue[1] /\ Len(queue) >= 1
          /\ \A i \in 1 .. Len(queue) - 1 : queue'[i] = queue[i + 1]
        BY <1>2, <1>7, <2>1, HeadTailProperties
    <2>3. Taken' = Taken + 1
        BY <1>3, <1>4, <2>2 DEF Taken
    <2>4. Head(queue) = emitted[Taken + 1]
        BY <1>4, <2>2 DEF HearInv, Log
    <2>5. Log'
        <3>1. ASSUME NEW i \in 1 .. Len(queue') PROVE queue'[i] = emitted[Taken + 1 + i]
            <4>0. i \in 1 .. Len(queue) - 1
                BY <2>2, <3>1
            <4>1. i \in 1 .. Len(queue) - 1 /\ i + 1 \in 1 .. Len(queue) /\ Taken + (i + 1) = Taken + 1 + i
                BY <1>4, <4>0
            <4>2. queue[i + 1] = emitted[Taken + (i + 1)]
                BY <4>1 DEF HearInv, Log
            <4>3. QED
                BY <2>2, <4>1, <4>2
        <3>2. ASSUME NEW u \in Callers, task'[u].signalling PROVE u = t
            BY <1>1, <2>1, <3>2 DEF SignalInv, OneDrainer
        <3>3. Len(queue') <= Len(emitted) /\ Taken + 1 >= 1
            BY <1>4, <2>2
        <3>4. \A u \in Callers : task'[u].signalling => task'[u].event = emitted[Taken + 1]
            BY <2>1, <2>4, <3>2
        <3>5. QED
            BY <1>3, <2>3, <3>1, <3>3, <3>4 DEF HearInv, Log
    <2>6. Lists'
        <3>1. \A u \in Callers : task'[u].left = task[u].left
            BY <2>1
        <3>2. QED
            BY <1>3, <3>1, ListsStay DEF HearInv, Lists
    <2>7. Attended => Attended'
        BY <1>2, <1>3, <2>1 DEF Attended, HearInv, SignalInv, OneDrainer
    <2>8. ASSUME NEW o \in Observers, Place(o) PROVE Place(o)'
        <3>1. SUFFICES ASSUME since[o] # Nil, o \notin gone PROVE Late(o)' \/ InStep(o)'
            BY <1>3 DEF Place
        <3>2. CASE Late(o)
            <4>1. \A u \in Callers : task'[u].left = task[u].left
                BY <2>1
            <4>2. QED
                BY <1>3, <3>2, <4>1 DEF Late
        <3>3. CASE InStep(o)
            <4>1. o \in ToSet(listeners)
                BY <1>7, <3>3 DEF InStep
            <4>2. Awaits(t, o)'
                BY <1>3, <2>1, <4>1 DEF Awaits
            <4>3. Reached(o)' = Reached(o)
                BY <1>4, <1>5, <2>3, <4>2 DEF Due, Reached
            <4>4. (HeardPlain(o) => HeardPlain(o)') /\ (HeardGated(o) => HeardGated(o)')
                BY <1>3, <4>3 DEF HeardPlain, HeardGated, Known
            <4>5. QED
                BY <1>3, <3>3, <4>1, <4>4 DEF InStep
        <3>4. QED
            BY <2>8, <3>1, <3>2, <3>3 DEF Place
    <2>9. QED
        BY <1>1, <1>3, <2>5, <2>6, <2>7, <2>8, HearStays
<1>8. QED
    BY <1>6, <1>7

LEMMA DispatchHears ==
    ASSUME SignalAssumption, HearInv, NEW t \in Callers, Dispatch(t)
    PROVE  HearInv'
<1>1. SignalInv'
    BY DispatchKeeps DEF HearInv
<1>2. /\ task \in [Callers -> Task] /\ task[t].pc = "dispatch" /\ task[t].signalling
      /\ listeners \in Seq(Observers)
    BY TaskFacts DEF HearInv, Dispatch, Draws
<1>3. UNCHANGED <<queue, draining, emitted, terminal, since, heard, panicked, gone, gate>>
    BY DEF Dispatch, remembered
<1>4. /\ \A u \in Callers : u # t => task'[u] = task[u]
      /\ task'[t].left = listeners /\ task'[t].signalling /\ task'[t].pc = "deliver"
      /\ task'[t].event = task[t].event
    BY <1>2 DEF Dispatch, Task
<1>5. listeners' = listeners \/ (task[t].event = End /\ listeners' = <<>>)
    BY DEF Dispatch
<1>6. Log'
    BY <1>2, <1>3, <1>4, LogStays DEF HearInv
<1>7. Lists'
    <2>1. Unrepeated(listeners') /\ ToSet(listeners') \subseteq ToSet(listeners)
        BY <1>5, MembersEmpty DEF HearInv, Lists
    <2>2. \A u \in Callers : task'[u].left = task[u].left \/ task'[u].left = listeners
        BY <1>4
    <2>3. QED
        BY <1>3, <2>1, <2>2, ListsStay DEF HearInv, Lists
<1>8. Attended => Attended'
    BY <1>3 DEF Attended
<1>9. \A o : Due(o)' <=> Due(o)
    <2>1. \A o : Awaits(t, o)' <=> Awaits(t, o)
        BY <1>2, <1>4 DEF Awaits
    <2>2. QED
        BY <1>1, <1>2, <1>4, <2>1, DueDrainer DEF HearInv
<1>10. task[t].event = End => terminal /\ queue = <<>>
    <2>1. SUFFICES ASSUME task[t].event = End PROVE terminal /\ queue = <<>>
        OBVIOUS
    <2>2. Taken >= 1 /\ emitted[Taken] = End
        BY <1>2, <2>1 DEF HearInv, Log
    <2>3. Taken \in 1 .. Len(emitted)
        BY <2>2, LogFacts DEF HearInv
    <2>4. terminal /\ Taken = Len(emitted)
        BY <2>2, <2>3 DEF HearInv, Log
    <2>5. Len(queue) = 0
        BY <2>4, LogFacts DEF HearInv
    <2>6. QED
        BY <2>4, <2>5, TaskFacts, EmptySeq DEF HearInv
<1>11. ASSUME NEW o \in Observers, Place(o) PROVE Place(o)'
    <2>1. SUFFICES ASSUME since[o] # Nil, o \notin gone PROVE Late(o)' \/ InStep(o)'
        BY <1>3 DEF Place
    <2>2. o \in ToSet(listeners') => o \in ToSet(listeners)
        BY <1>5, MembersEmpty
    <2>3. CASE Late(o)
        <3>1. \A u \in Callers : o \notin ToSet(task'[u].left)
            BY <1>4, <2>3 DEF Late
        <3>2. QED
            BY <1>3, <2>2, <2>3, <3>1 DEF Late
    <2>4. CASE InStep(o)
        <3>1. Reached(o)' = Reached(o)
            BY <1>3, <1>9 DEF Reached, Taken
        <3>2. (HeardPlain(o) => HeardPlain(o)') /\ (HeardGated(o) => HeardGated(o)')
            BY <1>3, <3>1 DEF HeardPlain, HeardGated, Known
        <3>3. o \notin ToSet(listeners') => terminal /\ queue = <<>>
            BY <1>5, <1>10, <2>4 DEF InStep
        <3>4. QED
            BY <1>3, <2>4, <3>2, <3>3 DEF InStep
    <2>5. QED
        BY <1>11, <2>1, <2>3, <2>4 DEF Place
<1>12. QED
    BY <1>1, <1>3, <1>6, <1>7, <1>8, <1>11, HearStays

\* The drainer delivers the event in its hand to o, the first of those left.
LEMMA DeliverHears ==
    ASSUME HearInv, SignalInv', NEW t \in Callers, NEW o \in Observers,
           task[t].pc = "deliver", task[t].left # <<>>, o = Head(task[t].left),
           \A u \in Callers : u # t => task'[u] = task[u],
           task'[t].left = Tail(task[t].left), task'[t].pc \in {"deliver", "gate"},
           task'[t].signalling = task[t].signalling, task'[t].event = task[t].event,
           UNCHANGED <<queue, emitted, terminal, listeners, since, draining, gone, panicked>>,
           \A p \in Observers : p # o => gate'[p] = gate[p] /\ heard'[p] = heard[p],
           gate[o] = Nil => gate'[o] = Nil /\ heard'[o] = Append(heard[o], task[t].event),
           gate[o] # Nil => /\ gate'[o] # Nil
                            /\ Known(o) \cup {task[t].event} \subseteq Known(o)'
                            /\ gate'[o].replaying \/ gate'[o].draining
    PROVE  HearInv'
<1>1. task[t].signalling
    BY DEF HearInv, SignalInv, Roles, Draws
<1>2. task[t].left \in Seq(Observers) /\ Unrepeated(task[t].left)
    BY ListFacts DEF HearInv
<1>3. /\ Unrepeated(task'[t].left) /\ ToSet(task'[t].left) = ToSet(task[t].left) \ {o}
      /\ o \in ToSet(task[t].left)
    BY <1>2, MembersTail
<1>4. Log'
    BY <1>1, LogStays DEF HearInv
<1>5. since[o] # Nil
    BY <1>3 DEF HearInv, Lists
<1>6. Lists'
    <2>1. \A u \in Callers : Unrepeated(task'[u].left)
        BY <1>3 DEF HearInv, Lists
    <2>2. \A u \in Callers : \A p : p \in ToSet(task'[u].left) => p \in ToSet(task[u].left)
        BY <1>3
    <2>3. QED
        BY <1>5, <2>1, <2>2, ListsStay DEF HearInv, Lists
<1>7. Attended => Attended'
    BY DEF Attended
<1>8. \A p \in Observers : Awaits(t, p)' <=> Awaits(t, p) /\ p # o
    BY <1>1, <1>3 DEF Awaits
<1>9. Due(o) /\ ~Due(o)'
    BY <1>1, <1>3, <1>8, DueDrainer DEF HearInv, Awaits
<1>10. ASSUME NEW p \in Observers, Place(p) PROVE Place(p)'
    <2>1. CASE p = o
        <3>1. \E v \in Callers : o \in ToSet(task[v].left)
            BY <1>3
        <3>2. task[t].pc # "drain"
            OBVIOUS
        <3>3. QED
            BY <1>1, <1>9, <1>10, <2>1, <3>1, <3>2, PlaceHears DEF HearInv
    <2>2. CASE p # o
        <3>1. Due(p)' <=> Due(p)
            BY <1>8, <2>2, DueStays
        <3>2. \A u \in Callers : p \in ToSet(task'[u].left) => \E v \in Callers : p \in ToSet(task[v].left)
            BY <1>3
        <3>3. gate'[p] = gate[p] /\ heard'[p] = heard[p]
            BY <2>2
        <3>4. gate[p] # Nil => Known(p) \subseteq Known(p)'
            BY <3>3 DEF Known
        <3>5. QED
            BY <1>10, <3>1, <3>2, <3>3, <3>4, PlaceStays DEF HearInv
    <2>3. QED
        BY <2>1, <2>2
<1>11. QED
    BY <1>4, <1>6, <1>7, <1>10, HearStays

LEMMA DeliverPlainHears ==
    ASSUME SignalAssumption, HearInv, NEW t \in Callers, DeliverPlain(t)
    PROVE  HearInv'
<1>1. SignalInv'
    BY DeliverPlainKeeps DEF HearInv
<1>2. /\ task \in [Callers -> Task] /\ task[t] \in Task /\ heard \in [Observers -> Seq(Events)]
      /\ task[t].pc = "deliver" /\ task[t].left # <<>>
    BY TaskFacts DEF HearInv, DeliverPlain
<1>3. PICK o \in Observers : o = Head(task[t].left)
    BY <1>2 DEF Task
<1>4. /\ \A u \in Callers : u # t => task'[u] = task[u]
      /\ task'[t].left = Tail(task[t].left) /\ task'[t].pc = "deliver"
      /\ task'[t].signalling = task[t].signalling /\ task'[t].event = task[t].event
    BY <1>2 DEF DeliverPlain, Task
<1>5. UNCHANGED <<queue, emitted, terminal, listeners, since, draining, gone, panicked, gate>>
    BY DEF DeliverPlain, signal, remembered
<1>6. gate[o] = Nil /\ heard' = [heard EXCEPT ![o] = Append(heard[o], task[t].event)]
    BY <1>3 DEF DeliverPlain, Hears
<1>7. /\ heard'[o] = Append(heard[o], task[t].event)
      /\ \A p \in Observers : p # o => heard'[p] = heard[p]
    BY <1>2, <1>6
<1>8. QED
    BY <1>1, <1>2, <1>3, <1>4, <1>5, <1>6, <1>7, DeliverHears

LEMMA DeliverGatedHears ==
    ASSUME SignalAssumption, HearInv, NEW t \in Callers, DeliverGated(t)
    PROVE  HearInv'
<1>1. SignalInv'
    BY DeliverGatedKeeps DEF HearInv
<1>2. /\ task \in [Callers -> Task] /\ task[t] \in Task
      /\ gate \in [Observers -> {Nil} \cup Gate]
      /\ task[t].pc = "deliver" /\ task[t].left # <<>> /\ task[t].event \in Events
    BY TaskFacts DEF HearInv, DeliverGated, SignalInv, Roles
<1>3. PICK o \in Observers : o = Head(task[t].left)
    BY <1>2 DEF Task
<1>4. gate[o] # Nil /\ gate[o] \in Gate /\ gate[o].pending \in Seq(Events)
    BY <1>2, <1>3 DEF DeliverGated, Gate
<1> DEFINE drains == ~(gate[o].replaying \/ gate[o].draining)
           r == [task[t] EXCEPT !.left = Tail(task[t].left), !.obs = o,
                                !.pc = IF drains THEN "gate" ELSE "deliver"]
           g == [gate[o] EXCEPT !.pending = Append(gate[o].pending, task[t].event),
                                !.draining = gate[o].draining \/ drains]
<1>5. task' = [task EXCEPT ![t] = r] /\ gate' = [gate EXCEPT ![o] = g]
    BY <1>2, <1>3, <1>4 DEF DeliverGated, Task, Gate
<1>6. /\ r.left = Tail(task[t].left) /\ r.pc \in {"deliver", "gate"}
      /\ r.signalling = task[t].signalling /\ r.event = task[t].event
    BY <1>2 DEF Task
<1>7. /\ g \in Gate /\ g.replaying = gate[o].replaying /\ g.draining = (gate[o].draining \/ drains)
      /\ g.pending = Append(gate[o].pending, task[t].event)
    <2>1. Append(gate[o].pending, task[t].event) \in Seq(Events) /\ (gate[o].draining \/ drains) \in BOOLEAN
        BY <1>2, <1>4 DEF Gate
    <2>2. QED
        BY <1>4, <2>1 DEF Gate
<1>8. g.replaying \/ g.draining
    BY <1>7
<1> HIDE DEF r, g, drains
<1>9. /\ \A u \in Callers : u # t => task'[u] = task[u]
      /\ task'[t] = r
      /\ \A p \in Observers : p # o => gate'[p] = gate[p]
      /\ gate'[o] = g
    BY <1>2, <1>5
<1>10. Nil \notin Gate
    BY DEF SignalAssumption, Gate, Events
<1>11. heard' = heard
    BY DEF DeliverGated
<1>12. Known(o) \cup {task[t].event} \subseteq Known(o)'
    <2>0. gate'[o].pending = Append(gate[o].pending, task[t].event)
        BY <1>7, <1>9
    <2>1. ToSet(Append(gate[o].pending, task[t].event)) = ToSet(gate[o].pending) \cup {task[t].event}
        BY <1>2, <1>4, MembersAppend
    <2>2. QED
        BY <1>11, <2>0, <2>1 DEF Known
<1>13. UNCHANGED <<queue, emitted, terminal, listeners, since, draining, gone, panicked>>
    BY DEF DeliverGated, signal, remembered
<1>14. /\ task'[t].left = Tail(task[t].left) /\ task'[t].pc \in {"deliver", "gate"}
       /\ task'[t].signalling = task[t].signalling /\ task'[t].event = task[t].event
    BY <1>6, <1>9
<1>15. gate'[o] # Nil /\ (gate'[o].replaying \/ gate'[o].draining)
    BY <1>7, <1>8, <1>9, <1>10
<1>16. QED
    BY <1>1, <1>2, <1>3, <1>4, <1>9, <1>11, <1>12, <1>13, <1>14, <1>15, DeliverHears

\* A callback panics: its thread leaves everything, and what was promised is lost.
LEMMA PanicHears ==
    ASSUME HearInv, SignalInv', NEW t \in Callers, panicked' = TRUE,
           \A u \in Callers : u # t => task'[u] = task[u],
           ~task'[t].signalling, task'[t].left = <<>>,
           UNCHANGED <<queue, emitted, terminal, since>>,
           listeners' = listeners \/ listeners' = Without(listeners, task[t].obs),
           \A p \in Observers : since[p] = Nil => heard'[p] = heard[p]
    PROVE  HearInv'
<1>1. Log'
    BY LogStays DEF HearInv
<1>2. Unrepeated(<<>>) /\ ToSet(<<>>) = {}
    BY MembersEmpty
<1>3. Unrepeated(listeners') /\ ToSet(listeners') \subseteq ToSet(listeners)
    <2>1. listeners \in Seq(Observers) /\ Unrepeated(listeners)
        BY ListFacts DEF HearInv
    <2>2. QED
        BY <2>1, WithoutFacts
<1>4. \A u \in Callers : task'[u].left = task[u].left \/ task'[u].left = <<>>
    OBVIOUS
<1>5. Lists'
    BY <1>2, <1>3, <1>4, ListsStay DEF HearInv, Lists
<1>6. QED
    BY <1>1, <1>5 DEF HearInv

LEMMA PanicPlainHears ==
    ASSUME SignalAssumption, HearInv, NEW t \in Callers, PanicPlain(t)
    PROVE  HearInv'
<1>1. SignalInv'
    BY PanicPlainKeeps DEF HearInv
<1>2. /\ task \in [Callers -> Task] /\ heard \in [Observers -> Seq(Events)]
      /\ task[t].left \in Seq(Observers) /\ task[t].left # <<>> /\ Unrepeated(task[t].left)
    BY TaskFacts, ListFacts DEF HearInv, PanicPlain
<1>3. PICK o \in Observers : o = Head(task[t].left) /\ o \in ToSet(task[t].left)
    BY <1>2, MembersTail
<1>4. since[o] # Nil
    BY <1>3 DEF HearInv, Lists
<1>5. \A p \in Observers : since[p] = Nil => heard'[p] = heard[p]
    <2>1. heard' = [heard EXCEPT ![o] = Append(heard[o], task[t].event)]
        BY <1>3 DEF PanicPlain, Hears
    <2>2. QED
        BY <1>2, <1>4, <2>1
<1>6. /\ \A u \in Callers : u # t => task'[u] = task[u]
      /\ ~task'[t].signalling /\ task'[t].left = <<>>
    BY <1>2 DEF PanicPlain, Done, NoTask
<1>7. UNCHANGED <<queue, emitted, terminal, since>> /\ panicked' = TRUE
      /\ (listeners' = listeners \/ listeners' = Without(listeners, task[t].obs))
    BY DEF PanicPlain, Unwind, remembered
<1>8. QED
    BY <1>1, <1>5, <1>6, <1>7, PanicHears

LEMMA PanicGatedHears ==
    ASSUME SignalAssumption, HearInv, NEW t \in Callers, PanicGated(t)
    PROVE  HearInv'
<1>1. SignalInv'
    BY PanicGatedKeeps DEF HearInv
<1>2. /\ task \in [Callers -> Task] /\ heard \in [Observers -> Seq(Events)] /\ task[t].pc = "gate"
    BY TaskFacts DEF HearInv, PanicGated
<1>3. PICK o \in Observers : o = task[t].obs /\ since[o] # Nil
    BY <1>2, AtGate DEF HearInv, Stages
<1>4. \A p \in Observers : since[p] = Nil => heard'[p] = heard[p]
    <2>1. heard' = [heard EXCEPT ![o] = Append(heard[o], Head(gate[o].pending))]
        BY <1>3 DEF PanicGated, Hears
    <2>2. QED
        BY <1>2, <1>3, <2>1
<1>5. /\ \A u \in Callers : u # t => task'[u] = task[u]
      /\ ~task'[t].signalling /\ task'[t].left = <<>>
    BY <1>2 DEF PanicGated, Done, NoTask
<1>6. UNCHANGED <<queue, emitted, terminal, since>> /\ panicked' = TRUE
      /\ (listeners' = listeners \/ listeners' = Without(listeners, task[t].obs))
    BY DEF PanicGated, Unwind, remembered
<1>7. QED
    BY <1>1, <1>4, <1>5, <1>6, PanicHears

LEMMA PanicReachesHears ==
    ASSUME SignalAssumption, HearInv, NEW t \in Callers, PanicReaches(t)
    PROVE  HearInv'
<1>1. SignalInv'
    BY PanicReachesKeeps DEF HearInv
<1>2. task \in [Callers -> Task]
    BY TaskFacts DEF HearInv
<1>3. /\ \A u \in Callers : u # t => task'[u] = task[u]
      /\ ~task'[t].signalling /\ task'[t].left = <<>>
    BY <1>2 DEF PanicReaches, Done, NoTask
<1>4. UNCHANGED <<queue, emitted, terminal, since, heard>> /\ panicked' = panicked
      /\ (listeners' = listeners \/ listeners' = Without(listeners, task[t].obs))
    BY DEF PanicReaches, Unwind, remembered
<1>5. panicked' = TRUE
    BY <1>4, TypesInParts, Zenon DEF PanicReaches, HearInv, SignalInv, ValueTypes
<1>6. QED
    BY <1>1, <1>3, <1>4, <1>5, PanicHears

\* An observer joins: to the others nothing happens.
LEMMA OthersStay ==
    ASSUME SignalInv, Log, NEW o \in Observers, NEW p \in Observers, p # o, Place(p),
           UNCHANGED <<queue, emitted, terminal, gone>>, since'[p] = since[p],
           gate'[p] = gate[p], heard'[p] = heard[p],
           p \in ToSet(listeners') <=> p \in ToSet(listeners),
           \A u \in Callers : /\ task'[u].signalling <=> task[u].signalling
                              /\ task'[u].left = task[u].left
                              /\ task[u].signalling => task'[u] = task[u]
    PROVE  Place(p)'
<1>1. Due(p)' <=> Due(p)
    BY DEF Due, Awaits
<1>2. gate[p] # Nil => Known(p) \subseteq Known(p)'
    BY DEF Known
<1>3. \A u \in Callers : p \in ToSet(task'[u].left) => \E v \in Callers : p \in ToSet(task[v].left)
    OBVIOUS
<1>4. QED
    BY <1>1, <1>2, <1>3, PlaceStays

\* Where an observer stands that has just joined: behind what a drainer is at.
LEMMA JoinerReached ==
    ASSUME SignalInv, Log, Log', Taken' = Taken, NEW o
    PROVE  Reached(o)' \in Nat /\ Reached(o)' <= Len(emitted)
<1>1. Taken \in Nat /\ Taken <= Len(emitted)
    BY LogFacts DEF Taken
<1>2. Due(o)' => Taken >= 1
    BY DEF Due, Awaits, Log
<1>3. QED
    BY <1>1, <1>2, LogFacts DEF Reached

LEMMA SubscribePlainHears ==
    ASSUME SignalAssumption, HearInv, NEW t \in Callers, NEW o \in Observers,
           task[t] = NoTask, since[o] = Nil, SubscribePlain(o)
    PROVE  HearInv'
<1>1. SignalInv'
    BY SubscribePlainKeeps DEF HearInv
<1>2. /\ heard \in [Observers -> Seq(Events)] /\ listeners \in Seq(Observers)
      /\ since \in [Observers -> Nat \cup {Nil}] /\ emitted \in Seq(Events)
      /\ Len(emitted) \in Nat /\ Nil \notin Nat
    BY TaskFacts DEF HearInv, SignalAssumption
<1>3. UNCHANGED <<queue, draining, terminal, gate, task, emitted, gone, panicked>>
    BY DEF SubscribePlain
<1>4. /\ since'[o] = Len(emitted) /\ since'[o] # Nil
      /\ \A p \in Observers : p # o => since'[p] = since[p]
    BY <1>2 DEF SubscribePlain, Joins
<1>5. /\ o \notin ToSet(listeners) /\ heard[o] = <<>> /\ gate[o] = Nil
      /\ \A u \in Callers : o \notin ToSet(task[u].left)
      /\ Unrepeated(listeners)
    BY DEF HearInv, SignalInv, Strangers, Lists
<1>6. \/ terminal /\ heard'[o] = <<End>> /\ listeners' = listeners
      \/ ~terminal /\ heard'[o] = <<>> /\ listeners' = Append(listeners, o)
    BY <1>2, <1>5 DEF SubscribePlain, Hears
<1>7. \A p \in Observers : p # o => heard'[p] = heard[p]
    BY <1>2 DEF SubscribePlain, Hears
<1>8. Unrepeated(listeners') /\ ToSet(listeners') \subseteq ToSet(listeners) \cup {o}
      /\ ToSet(listeners) \subseteq ToSet(listeners')
      /\ (~terminal => o \in ToSet(listeners'))
    <2>1. /\ ToSet(Append(listeners, o)) = ToSet(listeners) \cup {o}
          /\ Unrepeated(Append(listeners, o))
        BY <1>2, <1>5, MembersAppend
    <2>2. QED
        BY <1>5, <1>6, <2>1
<1>9. Log' /\ Taken' = Taken
    BY <1>3, LogStays DEF HearInv
<1>10. Lists'
    <2>1. \A u \in Callers : Unrepeated(task'[u].left)
        BY <1>3 DEF HearInv, Lists
    <2>2. QED
        BY <1>3, <1>4, <1>7, <1>8, <2>1, ListsStay DEF HearInv
<1>11. Attended => Attended'
    BY <1>3 DEF Attended
<1>12. ASSUME NEW p \in Observers, Place(p) PROVE Place(p)'
    <2>1. CASE p # o
        BY <1>3, <1>4, <1>7, <1>8, <1>12, <2>1, OthersStay DEF HearInv
    <2>2. CASE p = o /\ terminal
        <3>1. o \notin ToSet(listeners') /\ heard'[o] = <<End>>
            BY <1>5, <1>6, <2>2
        <3>2. Late(o)'
            BY <1>3, <1>4, <1>5, <2>2, <3>1 DEF Late
        <3>3. QED
            BY <2>2, <3>2 DEF Place
    <2>3. CASE p = o /\ ~terminal
        <3>1. Len(heard'[o]) = 0
            BY <1>6, <2>3
        <3>2. Reached(o)' \in Nat /\ Reached(o)' <= Len(emitted)
            BY <1>9, JoinerReached DEF HearInv
        <3>3. HeardPlain(o)'
            BY <1>2, <1>4, <3>1, <3>2 DEF HeardPlain
        <3>4. InStep(o)'
            BY <1>2, <1>3, <1>4, <1>5, <1>8, <2>3, <3>3 DEF InStep
        <3>5. QED
            BY <2>3, <3>4 DEF Place
    <2>4. QED
        BY <2>1, <2>2, <2>3
<1>13. QED
    BY <1>1, <1>3, <1>9, <1>10, <1>11, <1>12, HearStays

LEMMA SubscribeGatedHears ==
    ASSUME SignalAssumption, HearInv, NEW t \in Callers, NEW o \in Observers,
           task[t] = NoTask, since[o] = Nil, SubscribeGated(t, o)
    PROVE  HearInv'
<1>1. SignalInv'
    BY SubscribeGatedKeeps DEF HearInv
<1>2. /\ task \in [Callers -> Task] /\ gate \in [Observers -> {Nil} \cup Gate]
      /\ listeners \in Seq(Observers)
      /\ since \in [Observers -> Nat \cup {Nil}] /\ emitted \in Seq(Events)
      /\ Len(emitted) \in Nat /\ Nil \notin Nat
    BY TaskFacts DEF HearInv, SignalAssumption
<1>3. UNCHANGED <<queue, draining, terminal, heard, emitted, gone, panicked>>
    BY DEF SubscribeGated
<1>4. /\ since'[o] = Len(emitted) /\ since'[o] # Nil
      /\ \A p \in Observers : p # o => since'[p] = since[p]
    BY <1>2 DEF SubscribeGated, Joins
<1>5. /\ o \notin ToSet(listeners) /\ gate[o] = Nil /\ Unrepeated(listeners)
    BY DEF HearInv, SignalInv, Strangers, Lists
<1>6. /\ gate'[o] # Nil /\ gate'[o].replaying
      /\ \A p \in Observers : p # o => gate'[p] = gate[p]
    <2> DEFINE g == [NoGate EXCEPT !.replaying = TRUE]
    <2>1. gate' = [gate EXCEPT ![o] = g]
        BY DEF SubscribeGated
    <2>2. g \in Gate /\ g.replaying = TRUE
        BY EmptySeq DEF NoGate, Gate
    <2>3. Nil \notin Gate
        BY DEF SignalAssumption, Gate, Events
    <2> HIDE DEF g
    <2>4. QED
        BY <1>2, <2>1, <2>2, <2>3
<1>7. \A u \in Callers : /\ task'[u].signalling <=> task[u].signalling
                         /\ task'[u].left = task[u].left
                         /\ task[u].signalling => task'[u] = task[u]
    <2>1. /\ \A u \in Callers : u # t => task'[u] = task[u]
          /\ task'[t].signalling = FALSE /\ task'[t].left = <<>>
        BY <1>2 DEF SubscribeGated, NoTask
    <2>2. task[t].signalling = FALSE /\ task[t].left = <<>>
        BY DEF NoTask
    <2>3. QED
        BY <2>1, <2>2
<1>8. Unrepeated(listeners') /\ ToSet(listeners') = ToSet(listeners) \cup {o}
    <2>1. listeners' = Append(listeners, o)
        BY DEF SubscribeGated
    <2>2. QED
        BY <1>2, <1>5, <2>1, MembersAppend
<1>9. Log' /\ Taken' = Taken
    BY <1>3, <1>7, LogStays DEF HearInv
<1>10. Lists'
    <2>1. \A u \in Callers : Unrepeated(task'[u].left)
        BY <1>7 DEF HearInv, Lists
    <2>2. QED
        BY <1>3, <1>4, <1>7, <1>8, <2>1, ListsStay DEF HearInv
<1>11. Attended => Attended'
    BY <1>3, <1>6 DEF Attended
<1>12. ASSUME NEW p \in Observers, Place(p) PROVE Place(p)'
    <2>1. CASE p # o
        BY <1>3, <1>4, <1>6, <1>7, <1>8, <1>12, <2>1, OthersStay DEF HearInv
    <2>2. CASE p = o
        <3>1. Reached(o)' <= Len(emitted) /\ Reached(o)' \in Nat
            BY <1>9, JoinerReached DEF HearInv
        <3>2. HeardGated(o)'
            BY <1>2, <1>3, <1>4, <3>1 DEF HeardGated
        <3>3. InStep(o)'
            BY <1>2, <1>3, <1>4, <1>6, <1>8, <3>2 DEF InStep
        <3>4. QED
            BY <2>2, <3>3 DEF Place
    <2>3. QED
        BY <2>1, <2>2
<1>13. QED
    BY <1>1, <1>3, <1>9, <1>10, <1>11, <1>12, HearStays

LEMMA UnsubscribeHears ==
    ASSUME SignalAssumption, HearInv, NEW t \in Callers, NEW o \in Observers, Unsubscribe(t, o)
    PROVE  HearInv'
<1>1. SignalInv'
    BY UnsubscribeKeeps DEF HearInv
<1>2. UNCHANGED <<queue, draining, terminal, gate, task, heard, emitted, since, panicked>>
    BY DEF Unsubscribe
<1>3. /\ Unrepeated(listeners') /\ ToSet(listeners') = ToSet(listeners) \ {o}
      /\ gone' = gone \cup {o}
    <2>1. listeners \in Seq(Observers) /\ Unrepeated(listeners)
        BY ListFacts DEF HearInv
    <2>2. QED
        BY <2>1, WithoutFacts DEF Unsubscribe
<1>4. Log'
    BY <1>2, LogStays DEF HearInv
<1>5. Lists'
    <2>1. \A u \in Callers : Unrepeated(task'[u].left)
        BY <1>2 DEF HearInv, Lists
    <2>2. QED
        BY <1>2, <1>3, <2>1, ListsStay DEF HearInv
<1>6. Attended => Attended'
    BY <1>2 DEF Attended
<1>7. ASSUME NEW p \in Observers, Place(p) PROVE Place(p)'
    <2>1. CASE p = o
        BY <1>3, <2>1 DEF Place
    <2>2. CASE p # o
        <3>1. p \in ToSet(listeners') <=> p \in ToSet(listeners)
            BY <1>3, <2>2
        <3>2. Due(p)' <=> Due(p)
            BY <1>2, <3>1 DEF Due, Awaits
        <3>3. Known(p) \subseteq Known(p)' /\ gone \subseteq gone'
            BY <1>2, <1>3 DEF Known
        <3>4. \A u \in Callers : p \in ToSet(task'[u].left) => \E v \in Callers : p \in ToSet(task[v].left)
            BY <1>2
        <3>5. QED
            BY <1>2, <1>7, <3>1, <3>2, <3>3, <3>4, PlaceStays DEF HearInv
    <2>3. QED
        BY <2>1, <2>2
<1>8. QED
    BY <1>1, <1>2, <1>4, <1>5, <1>6, <1>7, HearStays

LEMMA HearStep ==
    ASSUME SignalAssumption, HearInv, [SignalNext]_signalVars
    PROVE  HearInv'
<1>1. ASSUME UNCHANGED signalVars PROVE HearInv'
    <2>1. SignalInv'
        BY SignalStep DEF HearInv
    <2>2. UNCHANGED <<queue, draining, terminal, listeners, gate, task, heard, emitted, since, gone, panicked>>
        BY <1>1 DEF signalVars, signal, remembered
    <2>3. Log' /\ Lists'
        BY <2>2, LogStays DEF HearInv, Lists
    <2>4. Attended => Attended'
        BY <2>2 DEF Attended
    <2>5. ASSUME NEW p \in Observers, Place(p) PROVE Place(p)'
        <3>1. (Due(p)' <=> Due(p)) /\ Known(p) \subseteq Known(p)'
            BY <2>2 DEF Due, Awaits, Known
        <3>2. \A u \in Callers : p \in ToSet(task'[u].left) => \E v \in Callers : p \in ToSet(task[v].left)
            BY <2>2
        <3>3. QED
            BY <2>2, <2>5, <3>1, <3>2, PlaceStays DEF HearInv
    <2>6. QED
        BY <2>1, <2>2, <2>3, <2>4, <2>5, HearStays
<1>2. ASSUME NEW t \in Callers, NEW o \in Observers, Subscribe(t, o) PROVE HearInv'
    BY <1>2, SubscribePlainHears, SubscribeGatedHears DEF Subscribe
<1>3. ASSUME NEW t \in Callers, Set(t) \/ Complete(t) \/ Enqueue(t) PROVE HearInv'
    BY <1>3, CallHears, EnqueueHears
<1>4. QED
    BY <1>1, <1>2, <1>3, DrainHears, DispatchHears, DeliveredHears, DeliverPlainHears,
       DeliverGatedHears, DrainGateHears, PanicPlainHears, PanicGatedHears, PanicReachesHears,
       ReplayHears, FinishReplayHears, UnsubscribeHears DEF SignalNext

\* The whole invariant holds in every behaviour.
THEOREM HearInvariant ==
    ASSUME SignalAssumption
    PROVE  SignalSpec => []HearInv
<1>1. SignalInit => HearInv
    BY HearInitial
<1>2. HearInv /\ [SignalNext]_signalVars => HearInv'
    BY HearStep
<1>3. QED
    BY <1>1, <1>2, PTL DEF SignalSpec

-----------------------------------------------------------------------------
(* What it says once everybody has returned *)

\* Nothing is queued and nobody is waited for: an observer stands at the end.
LEMMA QuietEnd ==
    ASSUME HearInv, Quiet
    PROVE  /\ queue = <<>>
           /\ \A o \in Observers : /\ Reached(o) = Len(emitted) /\ Place(o)
                                   /\ gate[o] # Nil => gate[o].pending = <<>>
<1>1. \A t \in Callers : task[t].signalling = FALSE /\ task[t].pc = "idle"
    BY DEF Quiet, NoTask
<1>2. ~panicked /\ Attended /\ \A o \in Observers : Place(o)
    BY DEF HearInv, Quiet
<1>3. queue = <<>>
    BY <1>1, <1>2 DEF Attended, HearInv, SignalInv, OneDrainer
<1>4. ASSUME NEW o \in Observers PROVE Reached(o) = Len(emitted)
    <2>1. ~Due(o)
        BY <1>1 DEF Due, Awaits
    <2>2. Len(queue) = 0
        BY <1>3
    <2>3. QED
        BY <2>1, <2>2, LogFacts DEF Reached, HearInv
<1>5. ASSUME NEW o \in Observers, gate[o] # Nil PROVE gate[o].pending = <<>>
    <2>1. ~gate[o].replaying /\ ~gate[o].draining
        BY <1>1, <1>5 DEF HearInv, SignalInv, OneDrainer, Gates, At, Stages
    <2>2. QED
        BY <1>2, <1>5, <2>1 DEF Attended
<1>6. QED
    BY <1>2, <1>3, <1>4, <1>5

LEMMA QuietHears ==
    ASSUME SignalAssumption, HearInv, Quiet, NEW o \in Observers, since[o] # Nil, o \notin gone
    PROVE  IF gate[o] = Nil THEN IsSuffix(Promised(o), heard[o]) /\ IsSuffix(heard[o], emitted)
           ELSE ToSet(Promised(o)) \subseteq ToSet(heard[o])
<1>1. /\ emitted \in Seq(Events) /\ heard[o] \in Seq(Events)
      /\ Len(emitted) \in Nat /\ Len(heard[o]) \in Nat
      /\ Reached(o) = Len(emitted) /\ (Late(o) \/ InStep(o))
    <2>1. emitted \in Seq(Events) /\ heard[o] \in Seq(Events)
        BY TypesInParts DEF HearInv, SignalInv, ObserverTypes, ValueTypes
    <2>2. QED
        BY <2>1, QuietEnd DEF Place
<1>2. since[o] \in Nat /\ since[o] <= Len(emitted)
    BY <1>1 DEF Late, InStep
<1> DEFINE p == Promised(o)
           n == since[o]
           m == Len(emitted)
<1>3. /\ p \in Seq(Events) /\ Len(p) = m - n
      /\ \A i \in 1 .. Len(p) : p[i] = emitted[n + i]
      /\ ToSet(p) = {emitted[i] : i \in n + 1 .. m}
    <2>1. n + 1 \in Nat \ {0} /\ m \in Int /\ m <= Len(emitted) /\ n \in Nat /\ m \in Nat /\ n <= m
        BY <1>1, <1>2
    <2>0. p = SubSeq(emitted, n + 1, m)
        BY DEF Promised
    <2> HIDE DEF p, n, m
    <2>2. /\ p \in Seq(Events) /\ Len(p) = IF n + 1 <= m THEN m - (n + 1) + 1 ELSE 0
          /\ \A i \in 1 .. Len(p) : p[i] = emitted[(n + 1) + i - 1]
          /\ ToSet(p) = {emitted[i] : i \in n + 1 .. m}
        BY <1>1, <2>0, <2>1, MembersSubSeq
    <2>3. Len(p) = m - n /\ \A i \in 1 .. Len(p) : (n + 1) + i - 1 = n + i
        BY <2>1, <2>2
    <2>4. QED
        BY <2>2, <2>3
<1>4. CASE Late(o)
    <2>1. gate[o] = Nil /\ heard[o] = <<End>> /\ n = m /\ m >= 1 /\ emitted[m] = End
        BY <1>1, <1>4 DEF Late, HearInv, Log
    <2> HIDE DEF p, n, m
    <2>2. Len(p) = 0 /\ Len(heard[o]) = 1 /\ heard[o][1] = End
        BY <1>1, <1>3, <2>1 DEF m
    <2>3. IsSuffix(p, heard[o])
        <3>1. Len(p) <= Len(heard[o]) /\ 1 .. Len(p) = {}
            BY <2>2
        <3>2. \A i \in 1 .. Len(p) : p[i] = heard[o][Len(heard[o]) - Len(p) + i]
            BY <3>1
        <3>3. QED
            BY <1>1, <1>3, <3>1, <3>2, SuffixAt
    <2>4. IsSuffix(heard[o], emitted)
        <3>1. Len(heard[o]) <= Len(emitted)
            BY <1>1, <2>1, <2>2 DEF m
        <3>2. \A i \in 1 .. Len(heard[o]) : heard[o][i] = emitted[Len(emitted) - Len(heard[o]) + i]
            BY <1>1, <2>1, <2>2 DEF m
        <3>3. QED
            BY <1>1, <3>1, <3>2, SuffixAt
    <2>5. QED
        BY <2>1, <2>3, <2>4 DEF p
<1>5. CASE InStep(o) /\ gate[o] = Nil
    <2>1. /\ Len(heard[o]) <= m /\ m - n <= Len(heard[o])
          /\ \A i \in 1 .. Len(heard[o]) : heard[o][i] = emitted[m - Len(heard[o]) + i]
        BY <1>1, <1>5 DEF InStep, HeardPlain
    <2>2. IsSuffix(heard[o], emitted)
        BY <1>1, <2>1, SuffixAt
    <2> HIDE DEF p, n, m
    <2>3. ASSUME NEW i \in 1 .. Len(p) PROVE p[i] = heard[o][Len(heard[o]) - Len(p) + i]
        <3> DEFINE j == Len(heard[o]) - Len(p) + i
        <3>0. /\ Len(heard[o]) \in Nat /\ m \in Nat /\ n \in Nat /\ n <= m /\ Len(p) = m - n
              /\ m - n <= Len(heard[o]) /\ i \in 1 .. m - n
            BY <1>1, <1>2, <1>3, <2>1, <2>3 DEF m, n
        <3>1. j \in 1 .. Len(heard[o]) /\ m - Len(heard[o]) + j = n + i
            <4>1. PICK h \in Nat, b \in Nat, c \in Nat : h = Len(heard[o]) /\ b = m /\ c = n
                BY <3>0
            <4>2. c <= b /\ b - c <= h /\ i \in 1 .. b - c /\ j = h - (b - c) + i
                BY <3>0, <4>1
            <4> HIDE DEF j
            <4>3. j \in 1 .. h /\ b - h + j = c + i
                BY <4>2
            <4>4. QED
                BY <4>1, <4>3
        <3>2. heard[o][j] = emitted[m - Len(heard[o]) + j]
            BY <2>1, <3>1
        <3>3. QED
            BY <1>3, <2>3, <3>1, <3>2
    <2>4. IsSuffix(p, heard[o])
        BY <1>1, <1>3, <2>1, <2>3, SuffixAt
    <2>5. QED
        BY <1>5, <2>2, <2>4 DEF p
<1>6. CASE InStep(o) /\ gate[o] # Nil
    <2>1. \A i \in 1 .. m : n < i => emitted[i] \in Known(o)
        BY <1>1, <1>6 DEF InStep, HeardGated
    <2>2. Known(o) = ToSet(heard[o])
        BY <1>6, QuietEnd, MembersEmpty DEF Known
    <2>3. \A i \in n + 1 .. m : i \in 1 .. m /\ n < i
        BY <1>1, <1>2
    <2>4. ToSet(p) \subseteq ToSet(heard[o])
        BY <1>3, <2>1, <2>2, <2>3
    <2>5. QED
        BY <1>6, <2>4
<1>7. QED
    BY <1>1, <1>4, <1>5, <1>6

\* Once everybody has returned, an observer that stayed has heard everything enqueued since it
\* subscribed: a plain one in that order, a gated one every bit of it, whoever drained.
THEOREM SignalHearsAllSince ==
    ASSUME SignalAssumption
    PROVE  SignalSpec => []HearsAllSince
<1>1. HearInv => HearsAllSince
    BY QuietHears DEF HearsAllSince
<1>2. QED
    BY <1>1, HearInvariant, PTL

=============================================================================
