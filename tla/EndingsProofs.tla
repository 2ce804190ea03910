---------------------------- MODULE EndingsProofs ----------------------------
(***************************************************************************)
(* TLAPS proofs about the three components MCEndings runs: HookHost,       *)
(* BackgroundJobs and SessionTitles with its OneShot, each for any threads *)
(* and any limits.                                                         *)
(*                                                                         *)
(* HookHost: StoppedForGood is not inductive.  A thread that has read "not *)
(* stopping" and is about to start the process would break it, were it not *)
(* that such a thread holds the connection mutex that stop waits for; and  *)
(* the first start of a generation holds no mutex, but nobody can stop a   *)
(* generation that has not been handed out.  HookInv says who is where,    *)
(* and its parts are needed together.                                      *)
(*                                                                         *)
(* BackgroundJobs: AliveIsAttended is inductive with Fresh, which says     *)
(* what the entry and the reaper of a process are at each stage of the     *)
(* call that starts it.                                                    *)
(*                                                                         *)
(* SessionTitles: ServiceInv accounts for the slots of the service, whose  *)
(* sum holds because a step of a worker changes at most its own membership *)
(* in Holding; and ChosenStands is inductive with what is said of a        *)
(* session without a process, which has no reports to come (Quiet), and of *)
(* one whose name the user chose: no title under way can be taken          *)
(* (Unopposed), and the store has the name or will have it with the last   *)
(* report of Pi (Reported).                                                *)
(***************************************************************************)
EXTENDS HookHost, BackgroundJobs, SessionTitles, SequenceLemmas

\* Where x is, or where it goes on to when it has reported.
Stage(x) == IF call[x].pc = "report" THEN call[x].then ELSE call[x].pc

\* restart_locked, start_connection and the request run under the connection mutex.
Holds(x) == Stage(x) \in {"restart", "start", "request", "leave"}

\* open_scope on its way: the scope is built and not handed out.
Opens(x) == Stage(x) \in {"initial", "publish"}

\* stop on its way to the connection.
Stops(x) == Stage(x) \in {"silence", "take"}

\* Who is at work has a generation, and a worker its own.
AtWork ==
    /\ \A x \in Actors : Stage(x) # "idle" => call[x].gen \in Generations
    /\ \A g \in Generations : Stage(g) # "idle" => worker[g] = "working" /\ call[g].gen = g

\* The connection belongs to one actor, and a generation that is being opened to its opener.
Owners ==
    /\ \A x \in Actors : Holds(x) => connection[call[x].gen] = x
    /\ \A x \in Actors : Opens(x) => worker[call[x].gen] = "new"
    /\ \A x, y \in Actors : Opens(x) /\ Opens(y) /\ call[x].gen = call[y].gen => x = y

\* After its stop nobody is past restart_locked's look at the flag.
Stopped ==
    /\ halted \subseteq stopping
    /\ \A g \in stopping : Opened(g)
    /\ \A x \in Actors : Stops(x) => call[x].gen \in stopping
    /\ \A x \in Actors : Holds(x) /\ call[x].gen \in halted => Stage(x) \in {"restart", "leave"}

HookInv == TypeOK /\ AtWork /\ Owners /\ Stopped /\ StoppedForGood

LEMMA HookInitInv ==
    ASSUME HookAssumption, Init
    PROVE  HookInv
<1> USE DEF Init, Idle, Actors
<1>1. TypeOK
    BY DEF HookAssumption, TypeOK, Statuses, Pcs
<1>2. \A x \in Actors : Stage(x) = "idle"
    BY DEF Stage
<1>3. AtWork /\ Owners /\ Stopped
    BY <1>2 DEF AtWork, Owners, Stopped, Holds, Opens, Stops
<1>4. StoppedForGood
    BY DEF StoppedForGood
<1>5. QED
    BY <1>1, <1>3, <1>4 DEF HookInv

-----------------------------------------------------------------------------
(* What a step does to the calls: x is now at stage s with generation g, and nobody else moves. *)

CallState == [pc: Pcs, gen: Generations \cup {None}, asked: BOOLEAN,
              health: Statuses \cup {None}, then: Pcs]
MovesTo(x, s, g) ==
    /\ call' \in [Actors -> CallState]
    /\ \A y \in Actors : y # x => call'[y] = call[y]
    /\ \A y \in Actors : y # x => Stage(y)' = Stage(y)
    /\ Stage(x)' = s
    /\ call'[x].gen = g

\* The call x makes now is c.
LEMMA CallMoves ==
    ASSUME TypeOK, NEW x \in Actors, NEW c \in CallState, call' = [call EXCEPT ![x] = c]
    PROVE  MovesTo(x, IF c.pc = "report" THEN c.then ELSE c.pc, c.gen)
BY DEF TypeOK, CallState, MovesTo, Stage

LEMMA GotoMoves ==
    ASSUME TypeOK, NEW x \in Actors, NEW pc \in Pcs \ {"report"}, Goto(x, pc)
    PROVE  MovesTo(x, pc, call[x].gen)
<1> DEFINE c == [call[x] EXCEPT !.pc = pc]
<1>1. c \in CallState /\ c.pc = pc /\ c.gen = call[x].gen
    BY DEF TypeOK, CallState
<1>2. call' = [call EXCEPT ![x] = c]
    BY DEF Goto
<1> HIDE DEF c
<1>3. QED
    BY <1>1, <1>2, CallMoves

LEMMA HealthMoves ==
    ASSUME TypeOK, NEW x \in Actors, NEW h \in Statuses, NEW q \in Pcs, SetHealth(x, h, q)
    PROVE  MovesTo(x, q, call[x].gen)
<1> DEFINE c == [call[x] EXCEPT !.pc = "report", !.health = h, !.then = q]
<1>1. "report" \in Pcs
    BY DEF Pcs
<1>2. c \in CallState /\ c.pc = "report" /\ c.gen = call[x].gen /\ c.then = q
    BY <1>1, ZenonT(60) DEF TypeOK, CallState
<1>3. call' = [call EXCEPT ![x] = c]
    BY DEF SetHealth
<1> HIDE DEF c
<1>4. QED
    BY <1>2, <1>3, CallMoves

LEMMA BeginMoves ==
    ASSUME TypeOK, NEW x \in Actors, NEW pc \in Pcs \ {"report"}, NEW g \in Generations,
           call' = [call EXCEPT ![x] = At(pc, g)]
    PROVE  MovesTo(x, pc, g)
<1>1. At(pc, g) \in CallState /\ At(pc, g).pc = pc /\ At(pc, g).gen = g
    BY DEF At, Idle, CallState, Pcs
<1>2. QED
    BY <1>1, CallMoves

LEMMA IdleMoves ==
    ASSUME TypeOK, NEW x \in Actors, call' = [call EXCEPT ![x] = Idle]
    PROVE  MovesTo(x, "idle", None)
<1>1. Idle \in CallState /\ Idle.pc = "idle" /\ Idle.gen = None
    BY DEF Idle, CallState, Pcs
<1>2. QED
    BY <1>1, CallMoves

-----------------------------------------------------------------------------
(* Most steps change nobody's role: they leave the mutexes, the stops and the openings alone. *)

\* Everyone but x stays where they are.
OthersStay(x) == \A y \in Actors : y # x =>
    /\ call'[y].gen = call[y].gen
    /\ Stage(y)' = Stage(y)
    /\ Holds(y)' <=> Holds(y)
    /\ Opens(y)' <=> Opens(y)
    /\ Stops(y)' <=> Stops(y)

\* No worker comes to be new or unopened, or ceases to be new.
WorkersStay == \A g \in Generations :
    /\ worker[g] = "new" => worker'[g] = "new"
    /\ Opened(g) => Opened(g)'

\* x takes no role that it did not have.
RoleStays(x) ==
    /\ OthersStay(x)
    /\ Holds(x)' => Holds(x)
    /\ Opens(x)' => Opens(x)
    /\ Stops(x)' => Stops(x)
    /\ Holds(x)' \/ Opens(x)' \/ Stops(x)' => call'[x].gen = call[x].gen

LEMMA MovesRoles ==
    ASSUME NEW x \in Actors, NEW s, NEW g, MovesTo(x, s, g)
    PROVE  /\ OthersStay(x)
           /\ Stage(x)' = s /\ call'[x].gen = g
           /\ Holds(x)' <=> s \in {"restart", "start", "request", "leave"}
           /\ Opens(x)' <=> s \in {"initial", "publish"}
           /\ Stops(x)' <=> s \in {"silence", "take"}
BY DEF MovesTo, OthersStay, Holds, Opens, Stops

LEMMA OwnersStay ==
    ASSUME AtWork, Owners, NEW x \in Actors, RoleStays(x), WorkersStay, connection' = connection
    PROVE  Owners'
<1>1. ASSUME NEW y \in Actors, Holds(y)' PROVE connection'[call'[y].gen] = y
    BY <1>1 DEF Owners, RoleStays, OthersStay
<1>2. ASSUME NEW y \in Actors, Opens(y)'
      PROVE  Opens(y) /\ call'[y].gen = call[y].gen /\ worker'[call'[y].gen] = "new"
    <2>1. Opens(y) /\ call'[y].gen = call[y].gen
        BY <1>2 DEF RoleStays, OthersStay
    <2>2. call[y].gen \in Generations
        BY <2>1 DEF AtWork, Opens
    <2>3. QED
        BY <2>1, <2>2 DEF Owners, WorkersStay
<1>3. QED
    BY <1>1, <1>2 DEF Owners

LEMMA StoppedStay ==
    ASSUME Stopped, stopping \subseteq Generations, NEW x \in Actors, RoleStays(x), WorkersStay,
           halted' = halted, stopping' = stopping,
           Holds(x)' /\ call'[x].gen \in halted => Stage(x)' \in {"restart", "leave"}
    PROVE  Stopped'
<1>1. \A g \in stopping' : Opened(g)'
    BY DEF Stopped, WorkersStay
<1>2. ASSUME NEW y \in Actors, Stops(y)' PROVE call'[y].gen \in stopping'
    BY <1>2 DEF Stopped, RoleStays, OthersStay
<1>3. ASSUME NEW y \in Actors, Holds(y)', call'[y].gen \in halted'
      PROVE  Stage(y)' \in {"restart", "leave"}
    BY <1>3 DEF Stopped, RoleStays, OthersStay
<1>4. QED
    BY <1>1, <1>2, <1>3 DEF Stopped

-----------------------------------------------------------------------------
(* Every action keeps the invariant *)

LEMMA TryControlKeeps ==
    ASSUME HookAssumption, HookInv, NEW x \in Actors, TryControl(x)
    PROVE  HookInv'
<1> USE DEF HookInv, Actors, hookState
<1>1. Stage(x) = "try" /\ call[x].gen \in Generations
    BY DEF TryControl, Stage, AtWork
<1>2. \/ MovesTo(x, "lock", call[x].gen) /\ UNCHANGED worker
      \/ MovesTo(x, "idle", None) /\ BackTo(x)
    BY GotoMoves, IdleMoves DEF TryControl, Pcs
<1>3. TypeOK'
    <2>1. control' \in [Generations -> Actors \cup {None}]
        BY <1>1 DEF TypeOK, TryControl
    <2>2. worker' \in [Generations -> {"none", "new", "waiting", "working", "ended", "dropped"}]
        BY <1>2 DEF TypeOK, BackTo
    <2>3. QED
        BY <1>2, <2>1, <2>2 DEF TypeOK, CallState, MovesTo, TryControl
<1>4. AtWork'
    <2>1. ASSUME NEW y \in Actors, Stage(y)' # "idle" PROVE call'[y].gen \in Generations
        BY <1>1, <1>2, <2>1 DEF AtWork, MovesTo
    <2>2. ASSUME NEW g \in Generations, Stage(g)' # "idle"
          PROVE  worker'[g] = "working" /\ call'[g].gen = g
        BY <1>1, <1>2, <2>2 DEF AtWork, MovesTo, BackTo, TypeOK
    <2>3. QED
        BY <2>1, <2>2 DEF AtWork
<1>5. RoleStays(x)
    BY <1>1, <1>2, MovesRoles DEF RoleStays, Holds, Opens, Stops
<1>6. WorkersStay /\ UNCHANGED <<connection, halted, stopping>>
    BY <1>1, <1>2 DEF HookAssumption, TypeOK, AtWork, WorkersStay, Opened, TryControl, BackTo
<1>7. Owners'
    BY <1>5, <1>6, OwnersStay
<1>8. Stopped'
    <2>1. Holds(x)' /\ call'[x].gen \in halted => Stage(x)' \in {"restart", "leave"}
        BY <1>1, <1>2, MovesRoles DEF Stopped, Holds
    <2>2. QED
        BY <1>5, <1>6, <2>1, StoppedStay DEF TypeOK
<1>9. StoppedForGood'
    BY <1>1, <1>2 DEF TypeOK, Owners, Stopped, StoppedForGood, Opened, Holds, Opens, TryControl
<1>10. QED
    BY <1>3, <1>4, <1>7, <1>8, <1>9

LEMMA LockConnectionKeeps ==
    ASSUME HookAssumption, HookInv, NEW x \in Actors, LockConnection(x)
    PROVE  HookInv'
<1> USE DEF HookInv, Actors, hookState
<1>1. Stage(x) = "lock" /\ call[x].gen \in Generations
    BY DEF LockConnection, Stage, AtWork
<1>2. \/ MovesTo(x, "restart", call[x].gen)
      \/ MovesTo(x, "request", call[x].gen) /\ process[call[x].gen] # "none"
    BY GotoMoves DEF LockConnection, Pcs
<1>3. TypeOK'
    BY <1>1, <1>2 DEF HookAssumption, TypeOK, CallState, MovesTo, LockConnection
<1>4. AtWork'
    BY <1>1, <1>2 DEF HookAssumption, TypeOK, AtWork, MovesTo, LockConnection
<1>5. Owners'
    <2>1. OthersStay(x) /\ call'[x].gen = call[x].gen /\ ~Opens(x)'
        BY <1>2, MovesRoles
    <2>2. connection[call[x].gen] = None /\ worker' = worker
        BY DEF LockConnection
    <2>3. connection' = [connection EXCEPT ![call[x].gen] = x]
        BY DEF LockConnection
    <2>4. ASSUME NEW y \in Actors, Holds(y)' PROVE connection'[call'[y].gen] = y
        <3>1. CASE y = x
            BY <1>1, <2>1, <2>3, <3>1 DEF TypeOK
        <3>2. CASE y # x
            <4>1. Holds(y) /\ call'[y].gen = call[y].gen
                BY <2>1, <2>4, <3>2 DEF OthersStay, Holds
            <4>2. connection[call[y].gen] = y /\ y # None
                BY <4>1 DEF Owners, HookAssumption
            <4>3. call[y].gen # call[x].gen
                BY <2>2, <4>2
            <4>4. QED
                BY <1>1, <2>3, <4>1, <4>2, <4>3 DEF TypeOK
        <3>3. QED
            BY <3>1, <3>2
    <2>5. ASSUME NEW y \in Actors, Opens(y)' PROVE Opens(y) /\ call'[y].gen = call[y].gen
        BY <2>1, <2>5 DEF OthersStay, Opens
    <2>6. QED
        BY <2>2, <2>4, <2>5 DEF Owners
<1>6. Stopped'
    <2>1. ASSUME NEW y \in Actors, Holds(y)', call'[y].gen \in halted
          PROVE  Stage(y)' \in {"restart", "leave"}
        BY <1>1, <1>2, <2>1, MovesRoles DEF Stopped, StoppedForGood, OthersStay
    <2>2. ASSUME NEW y \in Actors, Stops(y)' PROVE call'[y].gen \in stopping
        BY <1>1, <1>2, <2>2, MovesRoles DEF Stopped, OthersStay
    <2>3. QED
        BY <2>1, <2>2 DEF Stopped, Opened, LockConnection
<1>7. StoppedForGood'
    BY <1>1, <1>2 DEF TypeOK, Owners, Stopped, StoppedForGood, Opened, Holds, Opens, LockConnection
<1>8. QED
    BY <1>3, <1>4, <1>5, <1>6, <1>7

LEMMA RestartKeeps ==
    ASSUME HookAssumption, HookInv, NEW x \in Actors, Restart(x)
    PROVE  HookInv'
<1> USE DEF HookInv, Actors, hookState
<1>1. Stage(x) = "restart" /\ call[x].gen \in Generations
    BY DEF Restart, Stage, AtWork
<1>2. \/ MovesTo(x, "leave", call[x].gen) /\ UNCHANGED <<status, restarts>>
      \/ /\ call[x].gen \notin stopping
         /\ \E q \in {"leave", "start"} : MovesTo(x, q, call[x].gen)
         /\ \E h \in Statuses : status' = [status EXCEPT ![call[x].gen] = h]
    BY GotoMoves, HealthMoves DEF Restart, SetHealth, Pcs, Statuses
<1>3. TypeOK'
    <2>1. restarts' \in [Generations -> 0 .. MaxRestarts]
        <3>1. restarts[call[x].gen] \in 0 .. MaxRestarts
            BY <1>1 DEF TypeOK
        <3>2. restarts[call[x].gen] < MaxRestarts => restarts[call[x].gen] + 1 \in 0 .. MaxRestarts
            BY <3>1 DEF HookAssumption
        <3>3. QED
            BY <1>1, <3>1, <3>2 DEF TypeOK, HookAssumption, Restart
    <2>2. QED
        BY <1>2, <2>1 DEF TypeOK, CallState, MovesTo, Restart
<1>4. AtWork'
    BY <1>1, <1>2 DEF HookAssumption, TypeOK, AtWork, MovesTo, Restart
<1>5. RoleStays(x)
    BY <1>1, <1>2, MovesRoles DEF RoleStays, Holds, Opens, Stops
<1>6. WorkersStay /\ UNCHANGED <<connection, halted, stopping>>
    BY <1>1, <1>2 DEF HookAssumption, TypeOK, AtWork, WorkersStay, Opened, Restart
<1>7. Owners'
    BY <1>5, <1>6, OwnersStay
<1>8. Stopped'
    <2>1. Holds(x)' /\ call'[x].gen \in halted => Stage(x)' \in {"restart", "leave"}
        BY <1>1, <1>2, MovesRoles DEF Stopped, Holds
    <2>2. QED
        BY <1>5, <1>6, <2>1, StoppedStay DEF TypeOK
<1>9. StoppedForGood'
    BY <1>1, <1>2 DEF TypeOK, Owners, Stopped, StoppedForGood, Opened, Holds, Opens, Restart
<1>10. QED
    BY <1>3, <1>4, <1>7, <1>8, <1>9

LEMMA StartKeeps ==
    ASSUME HookAssumption, HookInv, NEW x \in Actors, Start(x)
    PROVE  HookInv'
<1> USE DEF HookInv, Actors, hookState
<1>1. Stage(x) = "start" /\ call[x].gen \in Generations
    BY DEF Start, Stage, AtWork
<1>2. /\ \E q \in {"leave", "request"} : MovesTo(x, q, call[x].gen)
      /\ \E h \in Statuses : status' = [status EXCEPT ![call[x].gen] = h]
    BY HealthMoves DEF Start, SetHealth, Pcs, Statuses
<1>3. TypeOK'
    BY <1>1, <1>2 DEF HookAssumption, TypeOK, CallState, MovesTo, Start
<1>4. AtWork'
    BY <1>1, <1>2 DEF HookAssumption, TypeOK, AtWork, MovesTo, Start
<1>5. RoleStays(x)
    BY <1>1, <1>2, MovesRoles DEF RoleStays, Holds, Opens, Stops
<1>6. WorkersStay /\ UNCHANGED <<connection, halted, stopping>>
    BY <1>1, <1>2 DEF HookAssumption, TypeOK, AtWork, WorkersStay, Opened, Start
<1>7. Owners'
    BY <1>5, <1>6, OwnersStay
<1>8. Stopped'
    <2>1. Holds(x)' /\ call'[x].gen \in halted => Stage(x)' \in {"restart", "leave"}
        BY <1>1, <1>2, MovesRoles DEF Stopped, Holds
    <2>2. QED
        BY <1>5, <1>6, <2>1, StoppedStay DEF TypeOK
<1>9. StoppedForGood'
    BY <1>1, <1>2 DEF TypeOK, Owners, Stopped, StoppedForGood, Opened, Holds, Opens, Start
<1>10. QED
    BY <1>3, <1>4, <1>7, <1>8, <1>9

LEMMA RequestKeeps ==
    ASSUME HookAssumption, HookInv, NEW x \in Actors, Request(x)
    PROVE  HookInv'
<1> USE DEF HookInv, Actors, hookState
<1>1. Stage(x) = "request" /\ call[x].gen \in Generations
    BY DEF Request, Stage, AtWork
<1>2. MovesTo(x, "leave", call[x].gen) \/ MovesTo(x, "restart", call[x].gen)
    <2>1. CASE Goto(x, "leave")
        BY <2>1, GotoMoves DEF Pcs
    <2>2. CASE ~Goto(x, "leave")
        <3> DEFINE c == [call[x] EXCEPT !.pc = "report", !.health = "Unhealthy", !.then = "restart",
                                        !.asked = TRUE]
        <3>1. c \in CallState /\ c.pc = "report" /\ c.gen = call[x].gen /\ c.then = "restart"
            <4>1. {"report", "restart"} \subseteq Pcs /\ "Unhealthy" \in Statuses
                BY DEF Pcs, Statuses
            <4>2. QED
                BY <4>1, ZenonT(60) DEF TypeOK, CallState
        <3>2. call' = [call EXCEPT ![x] = c]
            BY <2>2 DEF Request
        <3> HIDE DEF c
        <3>3. QED
            BY <3>1, <3>2, CallMoves
    <2>3. QED
        BY <2>1, <2>2
<1>3. TypeOK'
    BY <1>1, <1>2 DEF HookAssumption, TypeOK, CallState, Statuses, MovesTo, Request
<1>4. AtWork'
    BY <1>1, <1>2 DEF HookAssumption, TypeOK, AtWork, MovesTo, Request
<1>5. RoleStays(x)
    BY <1>1, <1>2, MovesRoles DEF RoleStays, Holds, Opens, Stops
<1>6. WorkersStay /\ UNCHANGED <<connection, halted, stopping>>
    BY <1>1, <1>2 DEF HookAssumption, TypeOK, AtWork, WorkersStay, Opened, Request
<1>7. Owners'
    BY <1>5, <1>6, OwnersStay
<1>8. Stopped'
    <2>1. Holds(x)' /\ call'[x].gen \in halted => Stage(x)' \in {"restart", "leave"}
        BY <1>1, <1>2, MovesRoles DEF Stopped, Holds
    <2>2. QED
        BY <1>5, <1>6, <2>1, StoppedStay DEF TypeOK
<1>9. StoppedForGood'
    BY <1>1, <1>2 DEF TypeOK, Owners, Stopped, StoppedForGood, Opened, Holds, Opens, Request
<1>10. QED
    BY <1>3, <1>4, <1>7, <1>8, <1>9

LEMMA LeaveKeeps ==
    ASSUME HookAssumption, HookInv, NEW x \in Actors, Leave(x)
    PROVE  HookInv'
<1> USE DEF HookInv, Actors, hookState
<1>1. Stage(x) = "leave" /\ call[x].gen \in Generations
    BY DEF Leave, Stage, AtWork
<1>2. MovesTo(x, "idle", None)
    BY IdleMoves DEF Leave
<1>3. TypeOK'
    BY <1>1, <1>2 DEF HookAssumption, TypeOK, CallState, MovesTo, Leave, BackTo
<1>4. AtWork'
    BY <1>1, <1>2 DEF HookAssumption, TypeOK, AtWork, MovesTo, Leave, BackTo
<1>5. Owners'
    <2>1. ASSUME NEW y \in Actors, Holds(y)' PROVE connection'[call'[y].gen] = y
        <3>1. y # x /\ Holds(y) /\ call'[y].gen = call[y].gen /\ call[y].gen \in Generations
            BY <1>2, <2>1, MovesRoles DEF OthersStay, AtWork, Holds
        <3>2. connection[call[y].gen] = y /\ connection[call[x].gen] = x
            BY <1>1, <3>1 DEF Owners, Holds
        <3>3. QED
            BY <3>1, <3>2 DEF Leave, TypeOK
    <2>2. ASSUME NEW y \in Actors, Opens(y)'
          PROVE  Opens(y) /\ call'[y].gen = call[y].gen /\ worker'[call'[y].gen] = "new"
        <3>1. y # x /\ Opens(y) /\ call'[y].gen = call[y].gen /\ call[y].gen \in Generations
            BY <1>2, <2>2, MovesRoles DEF OthersStay, AtWork, Opens
        <3>2. worker[call[y].gen] = "new" /\ call[y].gen # x
            BY <1>1, <3>1 DEF Owners, AtWork
        <3>3. QED
            BY <3>1, <3>2 DEF Leave, BackTo, TypeOK
    <2>3. QED
        BY <2>1, <2>2 DEF Owners
<1>6. Stopped'
    <2>1. \A g \in stopping : Opened(g)'
        BY DEF Stopped, Opened, Leave, BackTo, TypeOK
    <2>2. ASSUME NEW y \in Actors, Holds(y)', call'[y].gen \in halted
          PROVE  Stage(y)' \in {"restart", "leave"}
        BY <1>2, <2>2, MovesRoles DEF Stopped, OthersStay
    <2>3. ASSUME NEW y \in Actors, Stops(y)' PROVE call'[y].gen \in stopping
        BY <1>2, <2>3, MovesRoles DEF Stopped, OthersStay
    <2>4. QED
        BY <2>1, <2>2, <2>3 DEF Stopped, Leave
<1>7. StoppedForGood'
    BY <1>1, <1>2 DEF TypeOK, Owners, Stopped, StoppedForGood, Opened, Holds, Opens, Leave
<1>8. QED
    BY <1>3, <1>4, <1>5, <1>6, <1>7

LEMMA ReportKeeps ==
    ASSUME HookAssumption, HookInv, NEW x \in Actors, Report(x)
    PROVE  HookInv'
<1> USE DEF HookInv, Actors, hookState
<1>1. Stage(x) # "idle" => call[x].gen \in Generations
    BY DEF AtWork
<1>2. MovesTo(x, "idle", None) \/ MovesTo(x, Stage(x), call[x].gen)
    <2>1. CASE call[x].then = "idle"
        BY <2>1, IdleMoves DEF Report
    <2>2. CASE call[x].then # "idle"
        <3> DEFINE c == [call[x] EXCEPT !.pc = call[x].then, !.health = None]
        <3>1. /\ c \in CallState /\ c.pc = call[x].then
              /\ c.gen = call[x].gen /\ c.then = call[x].then
            BY ZenonT(60) DEF TypeOK, CallState
        <3>2. call' = [call EXCEPT ![x] = c]
            BY <2>2 DEF Report
        <3>3. Stage(x) = call[x].then
            BY DEF Stage, Report
        <3> HIDE DEF c
        <3>4. QED
            BY <3>1, <3>2, <3>3, CallMoves
    <2>3. QED
        BY <2>1, <2>2
<1>3. TypeOK'
    BY <1>1, <1>2 DEF HookAssumption, TypeOK, CallState, MovesTo, Report
<1>4. AtWork'
    BY <1>1, <1>2 DEF HookAssumption, TypeOK, AtWork, MovesTo, Report
<1>5. RoleStays(x)
    BY <1>1, <1>2, MovesRoles DEF RoleStays, Holds, Opens, Stops
<1>6. WorkersStay /\ UNCHANGED <<connection, halted, stopping>>
    BY <1>1, <1>2 DEF HookAssumption, TypeOK, AtWork, WorkersStay, Opened, Report
<1>7. Owners'
    BY <1>5, <1>6, OwnersStay
<1>8. Stopped'
    <2>1. Holds(x)' /\ call'[x].gen \in halted => Stage(x)' \in {"restart", "leave"}
        BY <1>1, <1>2, MovesRoles DEF Stopped, Holds
    <2>2. QED
        BY <1>5, <1>6, <2>1, StoppedStay DEF TypeOK
<1>9. StoppedForGood'
    BY <1>1, <1>2 DEF TypeOK, Owners, Stopped, StoppedForGood, Opened, Holds, Opens, Report
<1>10. QED
    BY <1>3, <1>4, <1>7, <1>8, <1>9

LEMMA PushKeeps ==
    ASSUME HookAssumption, HookInv, NEW t \in Threads, Push(t)
    PROVE  HookInv'
<1> USE DEF HookInv, Actors, hookState
<1>1. Stage(t) = "push" /\ call[t].gen \in Generations
    BY DEF Push, Stage, AtWork
<1>2. MovesTo(t, "idle", None) \/ MovesTo(t, "idle", call[t].gen)
    <2> DEFINE c == [At("report", call[t].gen) EXCEPT !.health = status[call[t].gen]]
    <2>1. call' = [call EXCEPT ![t] = c] \/ call' = [call EXCEPT ![t] = Idle]
        BY DEF Push
    <2>2. status[call[t].gen] \in Statuses
        BY <1>1 DEF TypeOK
    <2>3. c \in CallState /\ c.pc = "report" /\ c.then = "idle" /\ c.gen = call[t].gen
        BY <1>1, <2>2 DEF At, Idle, CallState, Pcs
    <2> HIDE DEF c
    <2>4. QED
        BY <2>1, <2>3, CallMoves, IdleMoves
<1>3. TypeOK'
    BY <1>1, <1>2 DEF HookAssumption, TypeOK, CallState, MovesTo, Push
<1>4. AtWork'
    BY <1>1, <1>2 DEF HookAssumption, TypeOK, AtWork, MovesTo, Push
<1>5. RoleStays(t)
    BY <1>1, <1>2, MovesRoles DEF RoleStays, Holds, Opens, Stops
<1>6. WorkersStay /\ UNCHANGED <<connection, halted, stopping>>
    BY <1>1, <1>2 DEF HookAssumption, TypeOK, AtWork, WorkersStay, Opened, Push
<1>7. Owners'
    BY <1>5, <1>6, OwnersStay
<1>8. Stopped'
    <2>1. Holds(t)' /\ call'[t].gen \in halted => Stage(t)' \in {"restart", "leave"}
        BY <1>1, <1>2, MovesRoles DEF Stopped, Holds
    <2>2. QED
        BY <1>5, <1>6, <2>1, StoppedStay DEF TypeOK
<1>9. StoppedForGood'
    BY <1>1, <1>2 DEF TypeOK, Owners, Stopped, StoppedForGood, Opened, Holds, Opens, Push
<1>10. QED
    BY <1>3, <1>4, <1>7, <1>8, <1>9

LEMMA SilenceKeeps ==
    ASSUME HookAssumption, HookInv, NEW t \in Threads, Silence(t)
    PROVE  HookInv'
<1> USE DEF HookInv, Actors, hookState
<1>1. Stage(t) = "silence" /\ call[t].gen \in Generations
    BY DEF Silence, Stage, AtWork
<1>2. MovesTo(t, "take", call[t].gen)
    BY GotoMoves DEF Silence, Pcs
<1>3. TypeOK'
    <2>1. 0 \in 0 .. Capacity
        BY DEF HookAssumption
    <2>2. QED
        BY <1>1, <1>2, <2>1, ZenonT(60) DEF TypeOK, CallState, MovesTo, Silence
<1>4. AtWork'
    BY <1>1, <1>2 DEF HookAssumption, TypeOK, AtWork, MovesTo, Silence
<1>5. RoleStays(t)
    BY <1>1, <1>2, MovesRoles DEF RoleStays, Holds, Opens, Stops
<1>6. WorkersStay /\ UNCHANGED <<connection, halted, stopping>>
    BY <1>1, <1>2 DEF HookAssumption, TypeOK, AtWork, WorkersStay, Opened, Silence
<1>7. Owners'
    BY <1>5, <1>6, OwnersStay
<1>8. Stopped'
    <2>1. Holds(t)' /\ call'[t].gen \in halted => Stage(t)' \in {"restart", "leave"}
        BY <1>1, <1>2, MovesRoles DEF Stopped, Holds
    <2>2. QED
        BY <1>5, <1>6, <2>1, StoppedStay DEF TypeOK
<1>9. StoppedForGood'
    BY <1>1, <1>2 DEF TypeOK, Owners, Stopped, StoppedForGood, Opened, Holds, Opens, Silence
<1>10. QED
    BY <1>3, <1>4, <1>7, <1>8, <1>9

LEMMA TakeConnectionKeeps ==
    ASSUME HookAssumption, HookInv, NEW t \in Threads, TakeConnection(t)
    PROVE  HookInv'
<1> USE DEF HookInv, Actors, hookState
<1>1. Stage(t) = "take" /\ call[t].gen \in Generations
    BY DEF TakeConnection, Stage, AtWork
<1>2. /\ MovesTo(t, "mark", call[t].gen)
      /\ status' = [status EXCEPT ![call[t].gen] = "Stopped"]
    BY HealthMoves DEF TakeConnection, SetHealth, Pcs, Statuses
<1>3. TypeOK'
    BY <1>1, <1>2 DEF HookAssumption, TypeOK, CallState, Statuses, MovesTo, TakeConnection
<1>4. AtWork'
    BY <1>1, <1>2, ZenonT(60) DEF HookAssumption, TypeOK, AtWork, MovesTo, TakeConnection
<1>5. Owners'
    <2>1. RoleStays(t) /\ WorkersStay
        BY <1>1, <1>2, MovesRoles DEF RoleStays, WorkersStay, Opened, Holds, Opens, Stops, TakeConnection
    <2>2. QED
        BY <2>1, OwnersStay DEF TakeConnection
<1>6. Stopped'
    <2>1. call[t].gen \in stopping
        BY <1>1 DEF Stopped, Stops
    <2>2. ASSUME NEW y \in Actors, Holds(y)', call'[y].gen \in halted'
          PROVE  Stage(y)' \in {"restart", "leave"}
        <3>1. y # t /\ Holds(y) /\ call'[y].gen = call[y].gen /\ Stage(y)' = Stage(y)
            BY <1>2, <2>2, MovesRoles DEF OthersStay
        <3>2. call[y].gen # call[t].gen
            BY <3>1 DEF Owners, TakeConnection, HookAssumption
        <3>3. QED
            BY <2>2, <3>1, <3>2 DEF Stopped, TakeConnection
    <2>3. ASSUME NEW y \in Actors, Stops(y)' PROVE call'[y].gen \in stopping
        BY <1>2, <2>3, MovesRoles DEF Stopped, OthersStay
    <2>4. QED
        BY <2>1, <2>2, <2>3 DEF Stopped, Opened, TakeConnection
<1>7. StoppedForGood'
    BY <1>1, <1>2 DEF TypeOK, Owners, Stopped, StoppedForGood, Opened, Holds, Opens, TakeConnection
<1>8. QED
    BY <1>3, <1>4, <1>5, <1>6, <1>7

LEMMA MarkStoppedKeeps ==
    ASSUME HookAssumption, HookInv, NEW t \in Threads, MarkStopped(t)
    PROVE  HookInv'
<1> USE DEF HookInv, Actors, hookState
<1>1. Stage(t) = "mark" /\ call[t].gen \in Generations
    BY DEF MarkStopped, Stage, AtWork
<1>2. MovesTo(t, "idle", None)
    BY IdleMoves DEF MarkStopped
<1>3. TypeOK'
    BY <1>1, <1>2 DEF HookAssumption, TypeOK, CallState, Statuses, MovesTo, MarkStopped
<1>4. AtWork'
    BY <1>1, <1>2 DEF HookAssumption, TypeOK, AtWork, MovesTo, MarkStopped
<1>5. RoleStays(t)
    BY <1>1, <1>2, MovesRoles DEF RoleStays, Holds, Opens, Stops
<1>6. WorkersStay /\ UNCHANGED <<connection, halted, stopping>>
    BY <1>1, <1>2 DEF HookAssumption, TypeOK, AtWork, WorkersStay, Opened, MarkStopped
<1>7. Owners'
    BY <1>5, <1>6, OwnersStay
<1>8. Stopped'
    <2>1. Holds(t)' /\ call'[t].gen \in halted => Stage(t)' \in {"restart", "leave"}
        BY <1>1, <1>2, MovesRoles DEF Stopped, Holds
    <2>2. QED
        BY <1>5, <1>6, <2>1, StoppedStay DEF TypeOK
<1>9. StoppedForGood'
    BY <1>1, <1>2 DEF TypeOK, Owners, Stopped, StoppedForGood, Opened, Holds, Opens, MarkStopped
<1>10. QED
    BY <1>3, <1>4, <1>7, <1>8, <1>9

LEMMA StartInitialKeeps ==
    ASSUME HookAssumption, HookInv, NEW t \in Threads, StartInitial(t)
    PROVE  HookInv'
<1> USE DEF HookInv, Actors, hookState
<1>1. Stage(t) = "initial" /\ call[t].gen \in Generations
    BY DEF StartInitial, Stage, AtWork
<1>2. /\ MovesTo(t, "publish", call[t].gen)
      /\ \E h \in Statuses : status' = [status EXCEPT ![call[t].gen] = h]
    BY HealthMoves DEF StartInitial, SetHealth, Pcs, Statuses
<1>3. TypeOK'
    BY <1>1, <1>2 DEF HookAssumption, TypeOK, CallState, MovesTo, StartInitial
<1>4. AtWork'
    BY <1>1, <1>2 DEF HookAssumption, TypeOK, AtWork, MovesTo, StartInitial
<1>5. RoleStays(t)
    BY <1>1, <1>2, MovesRoles DEF RoleStays, Holds, Opens, Stops
<1>6. WorkersStay /\ UNCHANGED <<connection, halted, stopping>>
    BY <1>1, <1>2 DEF HookAssumption, TypeOK, AtWork, WorkersStay, Opened, StartInitial
<1>7. Owners'
    BY <1>5, <1>6, OwnersStay
<1>8. Stopped'
    <2>1. Holds(t)' /\ call'[t].gen \in halted => Stage(t)' \in {"restart", "leave"}
        BY <1>1, <1>2, MovesRoles DEF Stopped, Holds
    <2>2. QED
        BY <1>5, <1>6, <2>1, StoppedStay DEF TypeOK
<1>9. StoppedForGood'
    BY <1>1, <1>2 DEF TypeOK, Owners, Stopped, StoppedForGood, Opened, Holds, Opens, StartInitial
<1>10. QED
    BY <1>3, <1>4, <1>7, <1>8, <1>9

LEMMA PublishKeeps ==
    ASSUME HookAssumption, HookInv, NEW t \in Threads, Publish(t)
    PROVE  HookInv'
<1> USE DEF HookInv, Actors, hookState
<1>1. Stage(t) = "publish" /\ call[t].gen \in Generations
    BY DEF Publish, Stage, AtWork
<1>2. MovesTo(t, "idle", None)
    BY IdleMoves DEF Publish
<1>3. TypeOK'
    BY <1>1, <1>2 DEF HookAssumption, TypeOK, CallState, MovesTo, Publish
<1>4. AtWork'
    <2>1. call[t].gen # t /\ Stage(call[t].gen) = "idle"
        BY <1>1 DEF HookAssumption, AtWork, Owners, Opens
    <2>2. QED
        BY <1>1, <1>2, <2>1 DEF HookAssumption, TypeOK, AtWork, MovesTo, Publish
<1>5. Owners'
    BY <1>1, <1>2, MovesRoles DEF HookAssumption, TypeOK, AtWork, Owners, OthersStay, Holds, Opens, Publish
<1>6. Stopped'
    <2>1. \A g \in stopping' : Opened(g)'
        BY <1>1 DEF TypeOK, Stopped, Opened, Publish
    <2>2. QED
        BY <1>2, <2>1, MovesRoles DEF Stopped, OthersStay, Publish
<1>7. StoppedForGood'
    BY <1>1, <1>2 DEF TypeOK, Owners, Stopped, StoppedForGood, Opened, Holds, Opens, Publish
<1>8. QED
    BY <1>3, <1>4, <1>5, <1>6, <1>7

LEMMA FailOpenKeeps ==
    ASSUME HookAssumption, HookInv, NEW t \in Threads, FailOpen(t)
    PROVE  HookInv'
<1> USE DEF HookInv, Actors, hookState
<1>1. Stage(t) = "publish" /\ call[t].gen \in Generations
    BY DEF FailOpen, Stage, AtWork
<1>2. MovesTo(t, "idle", None)
    BY IdleMoves DEF FailOpen
<1>3. TypeOK'
    <2>1. process' \in [Generations -> {"none", "up"}]
        BY <1>1 DEF TypeOK, FailOpen
    <2>2. worker' \in [Generations -> {"none", "new", "waiting", "working", "ended", "dropped"}]
        BY <1>1 DEF TypeOK, FailOpen
    <2>3. QED
        BY <1>2, <2>1, <2>2 DEF TypeOK, CallState, MovesTo, FailOpen
<1>4. AtWork'
    <2>1. call[t].gen # t /\ Stage(call[t].gen) = "idle"
        BY <1>1 DEF HookAssumption, AtWork, Owners, Opens
    <2>2. QED
        BY <1>1, <1>2, <2>1 DEF HookAssumption, TypeOK, AtWork, MovesTo, FailOpen
<1>5. Owners'
    BY <1>1, <1>2, MovesRoles DEF HookAssumption, TypeOK, AtWork, Owners, OthersStay, Holds, Opens, FailOpen
<1>6. Stopped'
    <2>1. \A g \in stopping' : Opened(g)'
        <3>1. ~Opened(call[t].gen)
            BY <1>1 DEF Owners, Opens, Opened
        <3>2. QED
            BY <3>1 DEF TypeOK, Stopped, Opened, FailOpen
    <2>2. QED
        BY <1>2, <2>1, MovesRoles DEF Stopped, OthersStay, FailOpen
<1>7. StoppedForGood'
    BY <1>1, <1>2 DEF TypeOK, Owners, Stopped, StoppedForGood, Opened, Holds, Opens, FailOpen
<1>8. QED
    BY <1>3, <1>4, <1>5, <1>6, <1>7

LEMMA CallKeeps ==
    ASSUME HookAssumption, HookInv, NEW t \in Threads, NEW g \in Generations, Call(t, g)
    PROVE  HookInv'
<1> USE DEF HookInv, Actors, hookState
<1>1. Stage(t) = "idle" /\ Opened(g)
    BY DEF Call, Stage, Idle
<1>2. MovesTo(t, "try", g)
    BY BeginMoves DEF Call, Pcs
<1>3. TypeOK'
    BY <1>1, <1>2 DEF HookAssumption, TypeOK, CallState, MovesTo, Call
<1>4. AtWork'
    BY <1>1, <1>2 DEF HookAssumption, TypeOK, AtWork, MovesTo, Call
<1>5. RoleStays(t)
    BY <1>1, <1>2, MovesRoles DEF RoleStays, Holds, Opens, Stops
<1>6. WorkersStay /\ UNCHANGED <<connection, halted, stopping>>
    BY <1>1, <1>2 DEF HookAssumption, TypeOK, AtWork, WorkersStay, Opened, Call
<1>7. Owners'
    BY <1>5, <1>6, OwnersStay
<1>8. Stopped'
    <2>1. Holds(t)' /\ call'[t].gen \in halted => Stage(t)' \in {"restart", "leave"}
        BY <1>1, <1>2, MovesRoles DEF Stopped, Holds
    <2>2. QED
        BY <1>5, <1>6, <2>1, StoppedStay DEF TypeOK
<1>9. StoppedForGood'
    BY <1>1, <1>2 DEF TypeOK, Owners, Stopped, StoppedForGood, Opened, Holds, Opens, Call
<1>10. QED
    BY <1>3, <1>4, <1>7, <1>8, <1>9

LEMMA SubmitKeeps ==
    ASSUME HookAssumption, HookInv, NEW t \in Threads, NEW g \in Generations, Submit(t, g)
    PROVE  HookInv'
<1> USE DEF HookInv, Actors, hookState
<1>1. Stage(t) = "idle" /\ Opened(g)
    BY DEF Submit, Stage, Idle
<1>2. MovesTo(t, "push", g)
    BY BeginMoves DEF Submit, Pcs
<1>3. TypeOK'
    BY <1>1, <1>2 DEF HookAssumption, TypeOK, CallState, MovesTo, Submit
<1>4. AtWork'
    BY <1>1, <1>2 DEF HookAssumption, TypeOK, AtWork, MovesTo, Submit
<1>5. RoleStays(t)
    BY <1>1, <1>2, MovesRoles DEF RoleStays, Holds, Opens, Stops
<1>6. WorkersStay /\ UNCHANGED <<connection, halted, stopping>>
    BY <1>1, <1>2 DEF HookAssumption, TypeOK, AtWork, WorkersStay, Opened, Submit
<1>7. Owners'
    BY <1>5, <1>6, OwnersStay
<1>8. Stopped'
    <2>1. Holds(t)' /\ call'[t].gen \in halted => Stage(t)' \in {"restart", "leave"}
        BY <1>1, <1>2, MovesRoles DEF Stopped, Holds
    <2>2. QED
        BY <1>5, <1>6, <2>1, StoppedStay DEF TypeOK
<1>9. StoppedForGood'
    BY <1>1, <1>2 DEF TypeOK, Owners, Stopped, StoppedForGood, Opened, Holds, Opens, Submit
<1>10. QED
    BY <1>3, <1>4, <1>7, <1>8, <1>9

LEMMA RevokeKeeps ==
    ASSUME HookAssumption, HookInv, NEW t \in Threads, NEW g \in Generations, Revoke(t, g)
    PROVE  HookInv'
<1> USE DEF HookInv, Actors, hookState
<1>1. Stage(t) = "idle" /\ Opened(g)
    BY DEF Revoke, Stage, Idle
<1>2. MovesTo(t, "silence", g)
    BY BeginMoves DEF Revoke, Pcs
<1>3. TypeOK'
    BY <1>1, <1>2 DEF HookAssumption, TypeOK, CallState, MovesTo, Revoke
<1>4. AtWork'
    BY <1>1, <1>2 DEF HookAssumption, TypeOK, AtWork, MovesTo, Revoke
<1>5. Owners'
    BY <1>1, <1>2, MovesRoles DEF HookAssumption, TypeOK, AtWork, Owners, OthersStay, Holds, Opens, Revoke
<1>6. Stopped'
    <2>1. \A h \in stopping' : Opened(h)'
        BY <1>1 DEF TypeOK, Stopped, Opened, Revoke
    <2>2. QED
        BY <1>2, <2>1, MovesRoles DEF Stopped, OthersStay, Revoke
<1>7. StoppedForGood'
    BY <1>1, <1>2 DEF TypeOK, Owners, Stopped, StoppedForGood, Opened, Holds, Opens, Revoke
<1>8. QED
    BY <1>3, <1>4, <1>5, <1>6, <1>7

LEMMA OpenKeeps ==
    ASSUME HookAssumption, HookInv, NEW t \in Threads, NEW g \in Generations, Open(t, g)
    PROVE  HookInv'
<1> USE DEF HookInv, Actors, hookState
<1>1. Stage(t) = "idle"
    BY DEF Open, Stage, Idle
<1>2. MovesTo(t, "initial", g)
    BY BeginMoves DEF Open, Pcs
<1>3. TypeOK'
    BY <1>1, <1>2 DEF HookAssumption, TypeOK, CallState, MovesTo, Open
<1>4. AtWork'
    BY <1>1, <1>2 DEF HookAssumption, TypeOK, AtWork, MovesTo, Open
<1>5. Owners'
    BY <1>1, <1>2, MovesRoles DEF HookAssumption, TypeOK, AtWork, Owners, OthersStay, Holds, Opens, Open
<1>6. Stopped'
    <2>1. \A h \in stopping' : Opened(h)'
        <3>1. ~Opened(g)
            BY DEF Open, Opened
        <3>2. QED
            BY <3>1 DEF TypeOK, Stopped, Opened, Open
    <2>2. QED
        BY <1>2, <2>1, MovesRoles DEF Stopped, OthersStay, Open
<1>7. StoppedForGood'
    BY <1>1, <1>2 DEF TypeOK, Owners, Stopped, StoppedForGood, Opened, Holds, Opens, Open
<1>8. QED
    BY <1>3, <1>4, <1>5, <1>6, <1>7

LEMMA PopObserveKeeps ==
    ASSUME HookAssumption, HookInv, NEW g \in Generations, PopObserve(g)
    PROVE  HookInv'
<1> USE DEF HookInv, Actors, hookState
<1>1. Stage(g) = "idle"
    BY DEF PopObserve, AtWork, TypeOK
<1>2. \/ call' = call /\ worker' = [worker EXCEPT ![g] = "ended"]
      \/ MovesTo(g, "try", g) /\ worker' = [worker EXCEPT ![g] = "working"]
    BY BeginMoves DEF PopObserve, Pcs
<1>3. TypeOK'
    <2>1. queued[g] - 1 \in 0 .. Capacity
        BY DEF HookAssumption, TypeOK, PopObserve
    <2>2. call' \in [Actors -> CallState]
        BY <1>2 DEF MovesTo, TypeOK, CallState
    <2>3. QED
        BY <1>2, <2>1, <2>2 DEF TypeOK, CallState, PopObserve
<1>4. AtWork'
    <2>1. CASE call' = call /\ worker' = [worker EXCEPT ![g] = "ended"]
        BY <1>1, <2>1 DEF AtWork, TypeOK, Stage
    <2>2. CASE MovesTo(g, "try", g) /\ worker' = [worker EXCEPT ![g] = "working"]
        BY <2>2 DEF AtWork, TypeOK, MovesTo
    <2>3. QED
        BY <1>2, <2>1, <2>2
<1>5. RoleStays(g)
    BY <1>1, <1>2, MovesRoles DEF RoleStays, OthersStay, Stage, Holds, Opens, Stops
<1>6. WorkersStay /\ UNCHANGED <<connection, halted, stopping>>
    BY <1>1, <1>2 DEF HookAssumption, TypeOK, AtWork, WorkersStay, Opened, PopObserve
<1>7. Owners'
    BY <1>5, <1>6, OwnersStay
<1>8. Stopped'
    <2>1. Holds(g)' /\ call'[g].gen \in halted => Stage(g)' \in {"restart", "leave"}
        BY <1>1, <1>2, MovesRoles DEF Stopped, Holds, Stage
    <2>2. QED
        BY <1>5, <1>6, <2>1, StoppedStay DEF TypeOK
<1>9. StoppedForGood'
    BY <1>1, <1>2 DEF TypeOK, Owners, Stopped, StoppedForGood, Opened, Holds, Opens, PopObserve
<1>10. QED
    BY <1>3, <1>4, <1>7, <1>8, <1>9

LEMMA WorkerStopsKeeps ==
    ASSUME HookAssumption, HookInv, NEW g \in Generations, WorkerStops(g)
    PROVE  HookInv'
<1> USE DEF HookInv, Actors, hookState
<1>1. Stage(g) = "idle"
    BY DEF WorkerStops, AtWork, TypeOK
<1>2. call' = call
    BY DEF WorkerStops
<1>3. TypeOK'
    BY <1>1, <1>2 DEF HookAssumption, TypeOK, CallState, MovesTo, Stage, WorkerStops
<1>4. AtWork'
    BY <1>1, <1>2 DEF HookAssumption, TypeOK, AtWork, MovesTo, Stage, WorkerStops
<1>5. RoleStays(g)
    BY <1>1, <1>2, MovesRoles DEF RoleStays, OthersStay, Stage, Holds, Opens, Stops
<1>6. WorkersStay /\ UNCHANGED <<connection, halted, stopping>>
    BY <1>1, <1>2 DEF HookAssumption, TypeOK, AtWork, WorkersStay, Opened, WorkerStops
<1>7. Owners'
    BY <1>5, <1>6, OwnersStay
<1>8. Stopped'
    <2>1. Holds(g)' /\ call'[g].gen \in halted => Stage(g)' \in {"restart", "leave"}
        BY <1>1, <1>2, MovesRoles DEF Stopped, Holds, Stage
    <2>2. QED
        BY <1>5, <1>6, <2>1, StoppedStay DEF TypeOK
<1>9. StoppedForGood'
    BY <1>1, <1>2 DEF TypeOK, Owners, Stopped, StoppedForGood, Opened, Holds, Opens, WorkerStops
<1>10. QED
    BY <1>3, <1>4, <1>7, <1>8, <1>9

-----------------------------------------------------------------------------
LEMMA HookStepInv ==
    ASSUME HookAssumption, HookInv, [Next]_vars
    PROVE  HookInv'
<1> USE DEF Actors
<1>1. ASSUME NEW x \in Actors, WorkOf(x) PROVE HookInv'
    BY <1>1, TryControlKeeps, LockConnectionKeeps, RestartKeeps, StartKeeps, RequestKeeps, LeaveKeeps,
       ReportKeeps DEF WorkOf
<1>2. ASSUME NEW t \in Threads, StopSteps(t) \/ OpenSteps(t) \/ Push(t) PROVE HookInv'
    BY <1>2, SilenceKeeps, TakeConnectionKeeps, MarkStoppedKeeps, StartInitialKeeps, PublishKeeps,
       FailOpenKeeps, PushKeeps DEF StopSteps, OpenSteps
<1>3. ASSUME NEW t \in Threads, NEW g \in Generations,
             Call(t, g) \/ Submit(t, g) \/ Revoke(t, g) \/ Open(t, g)
      PROVE  HookInv'
    BY <1>3, CallKeeps, SubmitKeeps, RevokeKeeps, OpenKeeps
<1>4. ASSUME NEW g \in Generations, PopObserve(g) \/ WorkerStops(g) PROVE HookInv'
    BY <1>4, PopObserveKeeps, WorkerStopsKeeps
<1>5. CASE UNCHANGED vars
    <2>1. \A x : Stage(x)' = Stage(x) /\ Opened(x)' = Opened(x)
        BY <1>5 DEF vars, hookState, Stage, Opened
    <2>2. QED
        BY <1>5, <2>1 DEF vars, hookState, HookInv, TypeOK, AtWork, Owners, Stopped, StoppedForGood, Holds,
           Opens, Stops
<1>6. QED
    BY <1>1, <1>2, <1>3, <1>4, <1>5 DEF Next, ThreadSteps, WorkerSteps

\* Who is where in the calls of the hooks: the inductive invariant.
THEOREM HookInvariant ==
    ASSUME HookAssumption
    PROVE  Spec => []HookInv
<1>1. Init => HookInv
    BY HookInitInv
<1>2. HookInv /\ [Next]_vars => HookInv'
    BY HookStepInv
<1>3. QED
    BY <1>1, <1>2, PTL DEF Spec

\* A scope's state is of the kind HookHost says: nobody looks at the lock, the queue or the
\* health of a generation that is not there, and neither the restart budget nor the queue is
\* exceeded.
THEOREM HookTypes ==
    ASSUME HookAssumption
    PROVE  Spec => []TypeOK
BY HookInvariant, PTL DEF HookInv

\* A hook that has been stopped stays without a process, for any number of callers, observations
\* and reopenings of its scope (PersistentHook::stop against restart_locked).
THEOREM HookStoppedForGood ==
    ASSUME HookAssumption
    PROVE  Spec => []StoppedForGood
BY HookInvariant, PTL DEF HookInv

-----------------------------------------------------------------------------
(* BackgroundJobs *)

\* What has not been entered has no entry, and a reaper is there when the call has returned.
Fresh == \A j \in Jobs :
    /\ bash[j] \in {"none", "admitted", "started"} => entry[j] = "absent"
    /\ bash[j] # "returned" => reaper[j] = "none"

JobsInv == JobsTypeOK /\ Fresh /\ AliveIsAttended

Entry == Final \cup {"absent", "running"}

\* Pruning takes away entries of ended processes.
LEMMA PrunedFacts ==
    ASSUME NEW st \in Pruned(entry), entry \in [Jobs -> Entry]
    PROVE  /\ st \in [Jobs -> Entry]
           /\ \A j \in Jobs : st[j] = entry[j] \/ (st[j] = "absent" /\ entry[j] \in Final)
<1>1. PICK X \in SUBSET {j \in Jobs : entry[j] \in Final} :
          st = [j \in Jobs |-> IF j \in X THEN "absent" ELSE entry[j]]
    BY DEF Pruned
<1>2. QED
    BY <1>1 DEF Entry

\* Where there are processes, there is a set of them.
LEMMA RunningFacts == \A j \in Jobs : j \in Running <=> entry[j] = "running"
BY DEF Running

LEMMA JobsInitInv == JobsAssumption /\ JobsInit => JobsInv
BY DEF JobsAssumption, JobsInit, JobsInv, JobsTypeOK, People, Final, Fresh, AliveIsAttended

\* The call that starts a process.
LEMMA BashKeeps ==
    ASSUME JobsAssumption, JobsInv, NEW j \in Jobs,
           (\E a \in People : Bash(j, a)) \/ CallSteps(j)
    PROVE  JobsInv'
<1>1. CASE \E a \in People : Bash(j, a)
    <2>1. PICK a \in People : Bash(j, a)
        BY <1>1
    <2>2. /\ entry' \in [Jobs -> Entry]
          /\ \A i \in Jobs : entry'[i] = entry[i] \/ (entry'[i] = "absent" /\ entry[i] \in Final)
        BY <2>1, PrunedFacts DEF Bash, JobsInv, JobsTypeOK, Entry
    <2>3. JobsTypeOK'
        BY <2>1, <2>2 DEF Bash, JobsInv, JobsTypeOK, Entry, team
    <2>4. Fresh' /\ AliveIsAttended'
        BY <2>1, <2>2 DEF Bash, JobsInv, JobsTypeOK, Fresh, AliveIsAttended, Final
    <2>5. QED
        BY <2>3, <2>4 DEF JobsInv
<1>2. CASE Spawn(j)
    BY <1>2 DEF Spawn, JobsInv, JobsTypeOK, Fresh, AliveIsAttended, team
<1>3. CASE Enter(j)
    <2>1. PICK st \in Pruned(entry) : entry' = [st EXCEPT ![j] = "running"]
        BY <1>3 DEF Enter
    <2>2. /\ st \in [Jobs -> Entry]
          /\ \A i \in Jobs : st[i] = entry[i] \/ (st[i] = "absent" /\ entry[i] \in Final)
        BY PrunedFacts DEF JobsInv, JobsTypeOK, Entry
    <2>3. JobsTypeOK'
        BY <1>3, <2>1, <2>2 DEF Enter, JobsInv, JobsTypeOK, Entry, team
    <2>4. Fresh' /\ AliveIsAttended'
        BY <1>3, <2>1, <2>2 DEF Enter, JobsInv, JobsTypeOK, Fresh, AliveIsAttended, Final
    <2>5. QED
        BY <2>3, <2>4 DEF JobsInv
<1>4. CASE Watch(j)
    BY <1>4 DEF Watch, JobsInv, JobsTypeOK, Fresh, AliveIsAttended, team
<1>5. QED
    BY <1>1, <1>2, <1>3, <1>4 DEF CallSteps

\* The process, its reaper, and whoever ends it.
LEMMA ReaperKeeps ==
    ASSUME JobsAssumption, JobsInv, NEW j \in Jobs,
           ChildExits(j) \/ ReaperSteps(j) \/ TimesOut(j) \/ Terminate(j)
    PROVE  JobsInv'
<1>1. CASE ChildExits(j)
    BY <1>1 DEF ChildExits, JobsInv, JobsTypeOK, Fresh, AliveIsAttended, team
<1>2. CASE ReaperLeaves(j)
    BY <1>2 DEF ReaperLeaves, JobsInv, JobsTypeOK, Fresh, AliveIsAttended, team
<1>3. CASE ReaperLooks(j)
    BY <1>3 DEF ReaperLooks, JobsInv, JobsTypeOK, Fresh, AliveIsAttended, team
<1>4. CASE ReaperTerminates(j)
    BY <1>4 DEF ReaperTerminates, JobsInv, JobsTypeOK, Fresh, AliveIsAttended, team
<1>5. CASE ReaperReports(j)
    <2>1. /\ entry' \in [Jobs -> Entry]
          /\ \A i \in Jobs : entry'[i] = entry[i] \/ (i = j /\ entry[i] = "running")
        BY <1>5 DEF ReaperReports, Outcomes, JobsInv, JobsTypeOK, Entry, Final
    <2>2. JobsTypeOK'
        BY <1>5, <2>1 DEF ReaperReports, JobsInv, JobsTypeOK, Entry, team
    <2>3. Fresh'
        BY <1>5, <2>1 DEF ReaperReports, JobsInv, JobsTypeOK, Fresh
    <2>4. AliveIsAttended'
        <3>1. /\ reaper[j] \notin {"none", "watching", "terminating"}
              /\ \A i \in Jobs \ {j} : reaper'[i] = reaper[i] /\ entry'[i] = entry[i]
              /\ UNCHANGED <<bash, child, killing, cleared>>
            BY <1>5, <2>1 DEF ReaperReports, JobsInv, JobsTypeOK
        <3>2. bash[j] = "returned"
            BY <3>1 DEF JobsInv, Fresh
        <3>3. child[j] = "alive" /\ j \notin cleared => j \in killing
            BY <3>1, <3>2 DEF JobsInv, AliveIsAttended
        <3>4. QED
            BY <3>1, <3>3 DEF JobsInv, AliveIsAttended
    <2>5. QED
        BY <2>2, <2>3, <2>4 DEF JobsInv
<1>6. CASE TimesOut(j)
    BY <1>6 DEF TimesOut, JobsInv, JobsTypeOK, Fresh, AliveIsAttended, team
<1>7. CASE Terminate(j)
    BY <1>7 DEF Terminate, JobsInv, JobsTypeOK, Fresh, AliveIsAttended, team
<1>8. QED
    BY <1>1, <1>2, <1>3, <1>4, <1>5, <1>6, <1>7 DEF ReaperSteps

\* Those who stop processes or look at them.
LEMMA StopProcessKeeps ==
    ASSUME JobsAssumption, JobsInv, NEW j \in Jobs, NEW a \in People, StopProcess(j, a)
    PROVE  JobsInv'
<1>1. /\ entry' \in [Jobs -> Entry] /\ entry[j] # "absent"
      /\ \A i \in Jobs : entry'[i] = IF i = j THEN "stopped" ELSE entry[i]
    BY DEF StopProcess, JobsInv, JobsTypeOK, Entry, Final
<1>2. /\ killing \subseteq killing' /\ (entry[j] = "running" => j \in killing')
      /\ killing' \subseteq Jobs
      /\ UNCHANGED <<team, owner, bash, child, reaper, reset, cleared>>
    BY DEF StopProcess, JobsInv, JobsTypeOK
<1>3. JobsTypeOK'
    BY <1>1, <1>2 DEF JobsInv, JobsTypeOK, Entry, team
<1>4. Fresh' /\ AliveIsAttended'
    BY <1>1, <1>2 DEF JobsInv, Fresh, AliveIsAttended
<1>5. QED
    BY <1>3, <1>4 DEF JobsInv

LEMMA LookKeeps == ASSUME JobsAssumption, JobsInv, Look PROVE JobsInv'
<1>1. /\ entry' \in [Jobs -> Entry]
      /\ \A i \in Jobs : entry'[i] = entry[i] \/ (entry'[i] = "absent" /\ entry[i] \in Final)
    BY PrunedFacts DEF Look, JobsInv, JobsTypeOK, Entry
<1>2. JobsTypeOK'
    BY <1>1 DEF Look, JobsInv, JobsTypeOK, Entry, team
<1>3. Fresh' /\ AliveIsAttended'
    BY <1>1 DEF Look, JobsInv, JobsTypeOK, Fresh, AliveIsAttended, Final
<1>4. QED
    BY <1>2, <1>3 DEF JobsInv

LEMMA AgentEndKeeps ==
    ASSUME JobsAssumption, JobsInv, NEW a \in Agents, Transfer(a) \/ FinishEnd(a)
    PROVE  JobsInv'
<1>1. UNCHANGED <<entry, bash, child, reaper, killing, cleared>>
    BY DEF Transfer, FinishEnd
<1>2. Fresh' /\ AliveIsAttended'
    BY <1>1 DEF JobsInv, Fresh, AliveIsAttended
<1>3. JobsTypeOK'
    <2>1. CASE Transfer(a)
        BY <2>1 DEF Transfer, JobsInv, JobsTypeOK, People, JobsAssumption
    <2>2. CASE FinishEnd(a)
        BY <2>2 DEF FinishEnd, JobsInv, JobsTypeOK, People, JobsAssumption
    <2>3. QED
        BY <2>1, <2>2
<1>4. QED
    BY <1>2, <1>3 DEF JobsInv

\* terminate_all.
LEMMA StopAllKeeps ==
    ASSUME JobsInv, StopAll, UNCHANGED <<bash, child, reaper, cleared>>
    PROVE  /\ Fresh' /\ AliveIsAttended'
           /\ entry' \in [Jobs -> Entry] /\ killing' \subseteq Jobs
<1>1. /\ entry' \in [Jobs -> Entry]
      /\ \A i \in Jobs : entry'[i] = IF entry[i] = "running" THEN "stopped" ELSE entry[i]
    BY RunningFacts DEF StopAll, JobsInv, JobsTypeOK, Entry, Final
<1>2. /\ killing' \subseteq Jobs /\ killing \subseteq killing'
      /\ \A i \in Jobs : entry[i] = "running" => i \in killing'
    BY RunningFacts DEF StopAll, Running, JobsInv, JobsTypeOK
<1>3. Fresh' /\ AliveIsAttended'
    BY <1>1, <1>2 DEF JobsInv, Fresh, AliveIsAttended
<1>4. QED
    BY <1>1, <1>2, <1>3

LEMMA TeamEndKeeps ==
    ASSUME JobsAssumption, JobsInv, BeginReset \/ ClearAll \/ ResetTeam \/ Stop
    PROVE  JobsInv'
<1>1. CASE BeginReset
    <2>1. Fresh' /\ AliveIsAttended' /\ entry' \in [Jobs -> Entry] /\ killing' \subseteq Jobs
        BY <1>1, StopAllKeeps DEF BeginReset
    <2>2. resets' \in 0 .. ResetBound
        BY <1>1 DEF BeginReset, JobsInv, JobsTypeOK, JobsAssumption
    <2>3. QED
        BY <1>1, <2>1, <2>2 DEF BeginReset, JobsInv, JobsTypeOK, Entry
<1>2. CASE ClearAll
    <2>1. /\ \A i \in Jobs : entry'[i] = "absent" /\ (i \in cleared' <=> i \in cleared \/ entry[i] = "running")
          /\ cleared' \subseteq Jobs /\ killing = {}
          /\ UNCHANGED <<team, owner, bash, child, reaper, killing>>
        BY <1>2, RunningFacts DEF ClearAll, Running, JobsInv, JobsTypeOK
    <2>2. Fresh' /\ AliveIsAttended'
        BY <2>1 DEF JobsInv, Fresh, AliveIsAttended
    <2>3. JobsTypeOK'
        BY <1>2, <2>1 DEF ClearAll, JobsInv, JobsTypeOK, team
    <2>4. QED
        BY <2>2, <2>3 DEF JobsInv
<1>3. CASE ResetTeam
    BY <1>3 DEF ResetTeam, JobsInv, JobsTypeOK, Fresh, AliveIsAttended, People
<1>4. CASE Stop
    <2>1. Fresh' /\ AliveIsAttended' /\ entry' \in [Jobs -> Entry] /\ killing' \subseteq Jobs
        BY <1>4, StopAllKeeps DEF Stop
    <2>2. QED
        BY <1>4, <2>1 DEF Stop, JobsInv, JobsTypeOK, Entry
<1>5. QED
    BY <1>1, <1>2, <1>3, <1>4

LEMMA JobsStepInv == JobsAssumption /\ JobsInv /\ [JobsNext]_jobsVars => JobsInv'
<1> SUFFICES ASSUME JobsAssumption, JobsInv, [JobsNext]_jobsVars PROVE JobsInv'
    OBVIOUS
<1>1. CASE UNCHANGED jobsVars
    BY <1>1 DEF jobsVars, JobsInv, JobsTypeOK, Fresh, AliveIsAttended
<1>2. ASSUME NEW j \in Jobs, (\E a \in People : Bash(j, a)) \/ CallSteps(j) PROVE JobsInv'
    BY <1>2, BashKeeps
<1>3. ASSUME NEW j \in Jobs, ChildExits(j) \/ ReaperSteps(j) \/ TimesOut(j) \/ Terminate(j)
      PROVE  JobsInv'
    BY <1>3, ReaperKeeps
<1>4. ASSUME NEW j \in Jobs, NEW a \in People, StopProcess(j, a) PROVE JobsInv'
    BY <1>4, StopProcessKeeps
<1>5. CASE Look
    BY <1>5, LookKeeps
<1>6. ASSUME NEW a \in Agents, Transfer(a) \/ FinishEnd(a) PROVE JobsInv'
    BY <1>6, AgentEndKeeps
<1>7. CASE BeginReset \/ ClearAll \/ ResetTeam \/ Stop
    BY <1>7, TeamEndKeeps
<1>8. QED
    BY <1>1, <1>2, <1>3, <1>4, <1>5, <1>6, <1>7 DEF JobsNext

\* What has not been entered has no entry, and a process that is alive is somebody's task.
THEOREM JobsInvariant ==
    ASSUME JobsAssumption
    PROVE  JobsSpec => []JobsInv
<1>1. JobsInit => JobsInv
    BY JobsInitInv
<1>2. JobsInv /\ [JobsNext]_jobsVars => JobsInv'
    BY JobsStepInv
<1>3. QED
    BY <1>1, <1>2, PTL DEF JobsSpec

\* Entries, owners, calls, processes and reapers are of their kinds, and the root stays active.
THEOREM JobsTypes ==
    ASSUME JobsAssumption
    PROVE  JobsSpec => []JobsTypeOK
<1>1. JobsInv => JobsTypeOK
    BY DEF JobsInv
<1>2. QED
    BY <1>1, JobsInvariant, PTL

\* No stop, timeout, transfer, pruning or reset drops a background process that lives: it is
\* about to be entered, shown as running and watched, or being ended, but for those clear_all
\* drops between its two locks.
THEOREM JobsAttended ==
    ASSUME JobsAssumption
    PROVE  JobsSpec => []AliveIsAttended
<1>1. JobsInv => AliveIsAttended
    BY DEF JobsInv
<1>2. QED
    BY <1>1, JobsInvariant, PTL

\* One step: no entry of an ended process is shown as anything else but stopped.
EndStep == \A j \in Jobs : entry[j] \in Final => entry'[j] \in {entry[j], "stopped", "absent"}

LEMMA EndStays == JobsInv /\ [JobsNext]_jobsVars => EndStep
<1> SUFFICES ASSUME JobsInv, [JobsNext]_jobsVars PROVE EndStep
    OBVIOUS
<1>0. entry \in [Jobs -> Entry] /\ "running" \notin Final /\ "absent" \notin Final
    BY DEF JobsInv, JobsTypeOK, Entry, Final
<1>1. CASE UNCHANGED entry
    BY <1>1 DEF EndStep
<1>2. ASSUME NEW j \in Jobs, NEW a \in People, Bash(j, a) \/ StopProcess(j, a) PROVE EndStep
    BY <1>0, <1>2, PrunedFacts DEF Bash, StopProcess, EndStep
<1>3. ASSUME NEW j \in Jobs, Enter(j) PROVE EndStep
    <2>1. PICK st \in Pruned(entry) : entry' = [st EXCEPT ![j] = "running"]
        BY <1>3 DEF Enter
    <2>2. /\ st \in [Jobs -> Entry]
          /\ \A i \in Jobs : st[i] = entry[i] \/ (st[i] = "absent" /\ entry[i] \in Final)
        BY <1>0, PrunedFacts
    <2>3. entry[j] = "absent"
        BY <1>3 DEF Enter, JobsInv, Fresh
    <2>4. QED
        BY <1>0, <2>1, <2>2, <2>3 DEF EndStep
<1>4. ASSUME NEW j \in Jobs, ReaperReports(j) PROVE EndStep
    BY <1>0, <1>4 DEF ReaperReports, EndStep
<1>5. CASE Look
    BY <1>0, <1>5, PrunedFacts DEF Look, EndStep
<1>6. CASE StopAll
    BY <1>0, <1>6, RunningFacts DEF StopAll, EndStep
<1>7. CASE ClearAll
    BY <1>7 DEF ClearAll, EndStep
<1>8. ASSUME NEW j \in Jobs, CallSteps(j) PROVE Enter(j) \/ UNCHANGED entry
    BY <1>8 DEF CallSteps, Spawn, Watch
<1>9. ASSUME NEW j \in Jobs, ChildExits(j) \/ ReaperSteps(j) \/ TimesOut(j) \/ Terminate(j)
      PROVE  ReaperReports(j) \/ UNCHANGED entry
    BY <1>9 DEF ChildExits, ReaperSteps, ReaperLeaves, ReaperLooks, ReaperTerminates, TimesOut,
                Terminate
<1>10. ASSUME NEW a \in Agents, Transfer(a) \/ FinishEnd(a) PROVE UNCHANGED entry
    BY <1>10 DEF Transfer, FinishEnd
<1>11. /\ UNCHANGED jobsVars => UNCHANGED entry
       /\ BeginReset => StopAll
       /\ Stop => StopAll
       /\ ResetTeam => UNCHANGED entry
    BY DEF jobsVars, BeginReset, Stop, ResetTeam
<1>12. QED
    BY <1>1, <1>2, <1>3, <1>4, <1>5, <1>6, <1>7, <1>8, <1>9, <1>10, <1>11 DEF JobsNext

\* The way a background process ended is kept: a reaper that reports late, another call or a
\* team's end does not rewrite it; only stop_process may call it stopped.
THEOREM JobsEndIsFinal ==
    ASSUME JobsAssumption
    PROVE  JobsSpec => EndIsFinal
<1>1. JobsInv /\ [JobsNext]_jobsVars => [EndStep]_jobsVars
    BY EndStays
<1>2. QED
    BY <1>1, JobsInvariant, PTL DEF JobsSpec, EndIsFinal, EndStep

-----------------------------------------------------------------------------
(* SessionTitles: the service *)

\* A worker that has a request knows which, and what came of it.
Busy(g, w) == work[g][w].pc # "free"
BusyOK == \A g \in Services, w \in Workers : Busy(g, w) =>
    work[g][w].request \in Requests /\ work[g][w].result \in Generated \cup {Failed}

Result == Generated \cup {Failed, Nil}
Pc == {"free", "check", "release", "forget", "answer"}
WorkState == [pc : Pc, request : Requests \cup {Nil}, result : Result]
Answers == [request : Requests, generation : Services, result : Generated \cup {Failed}]

\* Without the slots, whose sum is a matter of cardinalities.
ServiceParts ==
    /\ slots \in [Services -> Int]
    /\ queue \in [Services -> Seq(Requests)]
    /\ admitted \in [Services -> SUBSET Requests]
    /\ cancelled \in [Services -> SUBSET Requests]
    /\ work \in [Services -> [Workers -> WorkState]]
    /\ cancelling \subseteq Requests
    /\ answers \in Seq(Answers)

ServiceInv == ServiceTypeOK /\ BusyOK

LEMMA HoldingFinite ==
    ASSUME OneShotAssumption, NEW g
    PROVE  /\ IsFiniteSet(Holding(g)) /\ Cardinality(Holding(g)) \in Nat
           /\ IsFiniteSet(Holding(g)') /\ Cardinality(Holding(g)') \in Nat
           /\ Cardinality(Workers) \in Nat /\ Admissible \in Nat
<1>1. IsFiniteSet(Workers) /\ Holding(g) \subseteq Workers /\ Holding(g)' \subseteq Workers
    BY DEF OneShotAssumption, Holding
<1>2. Cardinality(Workers) \in Nat /\ Admissible \in Nat
    BY <1>1, FS_CardinalityType DEF Admissible, OneShotAssumption
<1>3. QED
    BY <1>1, <1>2, FS_Subset, FS_CardinalityType

\* After a step: no slot is negative, and the sum says how many there are at most.
LEMMA SlotsInRange ==
    ASSUME OneShotAssumption, ServiceParts', SlotsExact', \A g \in Services : slots'[g] \in Nat
    PROVE  ServiceTypeOK'
<1>1. ASSUME NEW g \in Services PROVE slots'[g] \in 0 .. Admissible
    <2>1. Len(queue'[g]) \in Nat /\ slots'[g] \in Nat
        BY DEF ServiceParts
    <2>2. slots'[g] + Len(queue'[g]) + Cardinality(Holding(g)') = Admissible
        BY DEF SlotsExact
    <2>3. Cardinality(Holding(g)') \in Nat /\ Admissible \in Nat
        BY HoldingFinite
    <2>4. QED
        BY <2>1, <2>2, <2>3
<1>2. QED
    BY <1>1 DEF ServiceParts, ServiceTypeOK, WorkState, Pc, Result, Answers

\* A step of a worker moves its own record, and the count of slots held with it.
LEMMA HoldingMoves ==
    ASSUME OneShotAssumption, NEW g \in Services, NEW w \in Workers,
           \A h \in Services, v \in Workers : <<h, v>> # <<g, w>> => work'[h][v].pc = work[h][v].pc
    PROVE  LET holds == {"check", "release"}
               n == Cardinality(Holding(g))
               m == Cardinality(Holding(g)')
           IN  /\ \A h \in Services \ {g} : Holding(h)' = Holding(h)
               /\ work[g][w].pc \in holds /\ work'[g][w].pc \in holds => m = n
               /\ work[g][w].pc \notin holds /\ work'[g][w].pc \notin holds => m = n
               /\ work[g][w].pc \notin holds /\ work'[g][w].pc \in holds => m = n + 1
               /\ work[g][w].pc \in holds /\ work'[g][w].pc \notin holds => m = n - 1
<1> DEFINE holds == {"check", "release"}
<1>1. \A h \in Services \ {g} : Holding(h)' = Holding(h)
    BY DEF Holding
<1>2. \A v \in Workers \ {w} : work'[g][v].pc = work[g][v].pc
    OBVIOUS
<1>3. IsFiniteSet(Holding(g))
    BY HoldingFinite
<1>4. CASE work[g][w].pc \in holds /\ work'[g][w].pc \in holds
    <2>1. Holding(g)' = Holding(g)
        BY <1>2, <1>4 DEF Holding
    <2>2. QED
        BY <1>1, <1>4, <2>1
<1>5. CASE work[g][w].pc \notin holds /\ work'[g][w].pc \notin holds
    <2>1. Holding(g)' = Holding(g)
        BY <1>2, <1>5 DEF Holding
    <2>2. QED
        BY <1>1, <1>5, <2>1
<1>6. CASE work[g][w].pc \notin holds /\ work'[g][w].pc \in holds
    <2>1. Holding(g)' = Holding(g) \cup {w} /\ w \notin Holding(g)
        BY <1>2, <1>6 DEF Holding
    <2>2. Cardinality(Holding(g)') = Cardinality(Holding(g)) + 1
        BY <1>3, <2>1, FS_AddElement
    <2>3. QED
        BY <1>1, <1>6, <2>2
<1>7. CASE work[g][w].pc \in holds /\ work'[g][w].pc \notin holds
    <2>1. Holding(g)' = Holding(g) \ {w} /\ w \in Holding(g)
        BY <1>2, <1>7 DEF Holding
    <2>2. Cardinality(Holding(g)') = Cardinality(Holding(g)) - 1
        BY <1>3, <2>1, FS_RemoveElement
    <2>3. QED
        BY <1>1, <1>7, <2>2
<1>8. QED
    BY <1>4, <1>5, <1>6, <1>7

\* What a worker has in hand moves on, or is taken from the channel.
LEMMA PoolKeeps ==
    ASSUME OneShotAssumption, ServiceInv, NEW g \in Services, NEW w \in Workers, PoolSteps(g, w)
    PROVE  ServiceInv'
<1> USE DEF ServiceInv
<1>0. /\ ServiceParts /\ SlotsExact /\ \A h \in Services : slots[h] \in Nat
      /\ BusyOK
      /\ work[g][w] \in WorkState
      /\ \A h \in Services : Len(queue[h]) \in Nat
    <2>1. ServiceParts
        BY DEF ServiceTypeOK, ServiceParts, WorkState, Pc, Result, Answers
    <2>2. QED
        BY <2>1, HoldingFinite DEF ServiceTypeOK, ServiceParts
<1>1. CASE GiveUp(g, w) \/ Execute(g, w)
    <2>1. PICK pc \in {"check", "release"}, out \in Generated \cup {Failed} :
              work' = [work EXCEPT ![g][w] = Task(pc, Head(queue[g]), out)]
        BY <1>1 DEF GiveUp, Execute
    <2>2. /\ queue[g] \in Seq(Requests) /\ queue[g] # <<>> /\ work[g][w].pc = "free"
          /\ queue' = [queue EXCEPT ![g] = Tail(@)]
          /\ UNCHANGED <<slots, admitted, cancelled, cancelling, answers>>
        BY <1>0, <1>1 DEF GiveUp, Execute, Take, ServiceParts
    <2>3. /\ Head(queue[g]) \in Requests /\ Tail(queue[g]) \in Seq(Requests)
          /\ Len(queue[g]) \in Nat /\ Len(Tail(queue[g])) = Len(queue[g]) - 1
        BY <2>2
    <2>4. /\ work' \in [Services -> [Workers -> WorkState]]
          /\ work'[g][w] = Task(pc, Head(queue[g]), out)
          /\ \A h \in Services, v \in Workers : <<h, v>> # <<g, w>> => work'[h][v] = work[h][v]
        BY <1>0, <2>1, <2>3 DEF ServiceParts, WorkState, Task, Pc, Result
    <2>5. ServiceParts'
        BY <1>0, <2>2, <2>3, <2>4 DEF ServiceParts
    <2>6. BusyOK'
        BY <1>0, <2>3, <2>4 DEF BusyOK, Busy, Task
    <2>7. /\ \A h \in Services \ {g} : Holding(h)' = Holding(h)
          /\ Cardinality(Holding(g)') = Cardinality(Holding(g)) + 1
        <3>1. work'[g][w].pc \in {"check", "release"}
            BY <2>4 DEF Task
        <3>2. QED
            BY <2>2, <2>4, <3>1, HoldingMoves
    <2>8. SlotsExact'
        <3>1. \A h \in Services : queue'[h] = IF h = g THEN Tail(queue[g]) ELSE queue[h]
            BY <1>0, <2>2 DEF ServiceParts
        <3>2. ASSUME NEW h \in Services
              PROVE  slots'[h] + Len(queue'[h]) + Cardinality(Holding(h)') = Admissible
            <4> DEFINE a == slots[h]
                       b == Len(queue[h])
                       c == Cardinality(Holding(h))
                       x == slots'[h]
                       y == Len(queue'[h])
                       z == Cardinality(Holding(h)')
            <4>1. a \in Int /\ a + b + c = Admissible
                BY <1>0 DEF SlotsExact, ServiceParts
            <4>2. b \in Int /\ c \in Int
                BY <1>0, HoldingFinite
            <4>3. x = a
                BY <2>2
            <4>4. (y = b - 1 /\ z = c + 1) \/ (y = b /\ z = c)
                <5>1. CASE h = g
                    <6>1. y = b - 1
                        BY <2>3, <3>1, <5>1
                    <6>2. z = c + 1
                        BY <2>7, <5>1, Zenon
                    <6>3. QED
                        BY <6>1, <6>2
                <5>2. CASE h # g
                    BY <2>7, <3>1, <5>2
                <5>3. QED
                    BY <5>1, <5>2
            <4> HIDE DEF a, b, c, x, y, z
            <4>5. x + y + z = Admissible
                <5>1. a + (b - 1) + (c + 1) = a + b + c
                    BY <4>1, <4>2
                <5>2. QED
                    BY <4>1, <4>3, <4>4, <5>1
            <4>6. QED
                BY <4>5 DEF x, y, z
        <3>3. QED
            BY <3>2 DEF SlotsExact, Admissible
    <2>9. QED
        BY <1>0, <2>2, <2>5, <2>6, <2>8, SlotsInRange
<1>2. CASE Check(g, w)
    <2>1. PICK out \in {work[g][w].result, Failed} :
              work' = [work EXCEPT ![g][w].pc = "release", ![g][w].result = out]
        BY <1>2 DEF Check
    <2>2. work[g][w].pc = "check" /\ UNCHANGED <<slots, queue, admitted, cancelled, cancelling, answers>>
        BY <1>2 DEF Check
    <2>3. work[g][w].request \in Requests /\ out \in Generated \cup {Failed}
        BY <1>0, <2>2 DEF BusyOK, Busy
    <2>4. /\ work'[g][w] = [pc |-> "release", request |-> work[g][w].request, result |-> out]
          /\ work' \in [Services -> [Workers -> WorkState]]
          /\ \A h \in Services, v \in Workers : <<h, v>> # <<g, w>> => work'[h][v] = work[h][v]
        BY <1>0, <2>1, <2>3 DEF ServiceParts, WorkState, Pc, Result
    <2>5. ServiceParts'
        BY <1>0, <2>2, <2>4 DEF ServiceParts
    <2>6. BusyOK'
        BY <1>0, <2>3, <2>4 DEF BusyOK, Busy
    <2>7. \A h \in Services : Cardinality(Holding(h)') = Cardinality(Holding(h))
        BY <2>2, <2>4, HoldingMoves
    <2>8. SlotsExact'
        BY <1>0, <2>2, <2>7 DEF SlotsExact, Admissible
    <2>9. QED
        BY <1>0, <2>2, <2>5, <2>6, <2>8, SlotsInRange
<1>3. CASE Release(g, w)
    <2>1. /\ work[g][w].pc = "release" /\ work' = [work EXCEPT ![g][w].pc = "forget"]
          /\ slots' = [slots EXCEPT ![g] = @ + 1]
          /\ UNCHANGED <<queue, admitted, cancelled, cancelling, answers>>
        BY <1>3 DEF Release, Step
    <2>2. /\ work'[g][w] = [work[g][w] EXCEPT !.pc = "forget"]
          /\ work' \in [Services -> [Workers -> WorkState]]
          /\ \A h \in Services, v \in Workers : <<h, v>> # <<g, w>> => work'[h][v] = work[h][v]
        BY <1>0, <2>1 DEF ServiceParts, WorkState, Pc
    <2>3. ServiceParts' /\ \A h \in Services : slots'[h] = IF h = g THEN slots[g] + 1 ELSE slots[h]
        BY <1>0, <2>1, <2>2 DEF ServiceParts
    <2>4. BusyOK'
        BY <1>0, <2>1, <2>2 DEF BusyOK, Busy
    <2>5. /\ \A h \in Services \ {g} : Holding(h)' = Holding(h)
          /\ Cardinality(Holding(g)') = Cardinality(Holding(g)) - 1
        <3>1. work'[g][w].pc = "forget"
            BY <1>0, <2>2 DEF WorkState
        <3>2. QED
            BY <2>1, <2>2, <3>1, HoldingMoves
    <2>6. SlotsExact'
        <3>1. ASSUME NEW h \in Services
              PROVE  slots'[h] + Len(queue'[h]) + Cardinality(Holding(h)') = Admissible
            <4> DEFINE a == slots[h]
                       b == Len(queue[h])
                       c == Cardinality(Holding(h))
                       x == slots'[h]
                       y == Len(queue'[h])
                       z == Cardinality(Holding(h)')
            <4>1. a \in Int /\ a + b + c = Admissible
                BY <1>0 DEF SlotsExact, ServiceParts
            <4>2. b \in Int /\ c \in Int
                BY <1>0, HoldingFinite
            <4>3. y = b
                BY <2>1
            <4>4. (x = a + 1 /\ z = c - 1) \/ (x = a /\ z = c)
                <5>1. CASE h = g
                    BY <2>3, <2>5, <5>1
                <5>2. CASE h # g
                    BY <2>3, <2>5, <5>2
                <5>3. QED
                    BY <5>1, <5>2
            <4> HIDE DEF a, b, c, x, y, z
            <4>5. x + y + z = Admissible
                BY <4>1, <4>2, <4>3, <4>4
            <4>6. QED
                BY <4>5 DEF x, y, z
        <3>2. QED
            BY <3>1 DEF SlotsExact, Admissible
    <2>7. \A h \in Services : slots'[h] \in Nat
        BY <1>0, <2>3
    <2>8. QED
        BY <2>3, <2>4, <2>6, <2>7, SlotsInRange
<1>4. CASE Forget(g, w)
    <2>1. /\ work[g][w].pc = "forget" /\ work' = [work EXCEPT ![g][w].pc = "answer"]
          /\ admitted' = [admitted EXCEPT ![g] = @ \ {work[g][w].request}]
          /\ UNCHANGED <<slots, queue, cancelled, cancelling, answers>>
        BY <1>4 DEF Forget, Step
    <2>2. /\ work'[g][w] = [work[g][w] EXCEPT !.pc = "answer"]
          /\ work' \in [Services -> [Workers -> WorkState]]
          /\ \A h \in Services, v \in Workers : <<h, v>> # <<g, w>> => work'[h][v] = work[h][v]
        BY <1>0, <2>1 DEF ServiceParts, WorkState, Pc
    <2>3. ServiceParts'
        BY <1>0, <2>1, <2>2 DEF ServiceParts
    <2>4. BusyOK'
        BY <1>0, <2>1, <2>2 DEF BusyOK, Busy
    <2>5. \A h \in Services : Cardinality(Holding(h)') = Cardinality(Holding(h))
        <3>1. work'[g][w].pc = "answer"
            BY <1>0, <2>2 DEF WorkState
        <3>2. QED
            BY <2>1, <2>2, <3>1, HoldingMoves
    <2>6. SlotsExact'
        BY <1>0, <2>1, <2>5 DEF SlotsExact, Admissible
    <2>7. QED
        BY <1>0, <2>1, <2>3, <2>4, <2>6, SlotsInRange
<1>5. CASE Answer(g, w)
    <2>1. /\ work[g][w].pc = "answer" /\ work' = [work EXCEPT ![g][w] = Free]
          /\ cancelled' = [cancelled EXCEPT ![g] = @ \ {work[g][w].request}]
          /\ answers' = Append(answers, [request |-> work[g][w].request, generation |-> g,
                                         result |-> work[g][w].result])
          /\ UNCHANGED <<slots, queue, admitted, cancelling>>
        BY <1>5 DEF Answer
    <2>2. work[g][w].request \in Requests /\ work[g][w].result \in Generated \cup {Failed}
        BY <1>0, <2>1 DEF BusyOK, Busy
    <2>3. /\ work'[g][w] = Free /\ Free \in WorkState /\ Free.pc = "free"
          /\ work' \in [Services -> [Workers -> WorkState]]
          /\ \A h \in Services, v \in Workers : <<h, v>> # <<g, w>> => work'[h][v] = work[h][v]
        BY <1>0, <2>1 DEF ServiceParts, WorkState, Pc, Result, Free, Task
    <2>4. answers' \in Seq(Answers)
        BY <1>0, <2>1, <2>2 DEF ServiceParts, Answers
    <2>5. ServiceParts'
        BY <1>0, <2>1, <2>3, <2>4 DEF ServiceParts
    <2>6. BusyOK'
        BY <1>0, <2>3 DEF BusyOK, Busy
    <2>7. \A h \in Services : Cardinality(Holding(h)') = Cardinality(Holding(h))
        BY <2>1, <2>3, HoldingMoves
    <2>8. SlotsExact'
        BY <1>0, <2>1, <2>7 DEF SlotsExact, Admissible
    <2>9. QED
        BY <1>0, <2>1, <2>5, <2>6, <2>8, SlotsInRange
<1>6. QED
    BY <1>1, <1>2, <1>3, <1>4, <1>5 DEF PoolSteps

\* A request is accepted while there is a slot; other steps of the application move no slot.
LEMMA AcceptKeeps ==
    ASSUME OneShotAssumption, ServiceInv, NEW g \in Services, NEW r \in Requests, Admits(g),
           Accept(g, r), UNCHANGED <<cancelled, work, answers>>, cancelling' \subseteq Requests
    PROVE  ServiceInv'
<1> USE DEF ServiceInv
<1>0. /\ ServiceParts /\ SlotsExact /\ \A h \in Services : slots[h] \in Nat
      /\ BusyOK /\ \A h \in Services : Len(queue[h]) \in Nat
    <2>1. ServiceParts
        BY DEF ServiceTypeOK, ServiceParts, WorkState, Pc, Result, Answers
    <2>2. QED
        BY <2>1, HoldingFinite DEF ServiceTypeOK, ServiceParts
<1>1. /\ \A h \in Services : /\ slots'[h] = IF h = g THEN slots[g] - 1 ELSE slots[h]
                             /\ queue'[h] = IF h = g THEN Append(queue[g], r) ELSE queue[h]
      /\ Append(queue[g], r) \in Seq(Requests) /\ Len(Append(queue[g], r)) = Len(queue[g]) + 1
      /\ ServiceParts'
    BY <1>0 DEF Accept, ServiceParts
<1>2. \A h \in Services : Holding(h)' = Holding(h)
    BY DEF Holding
<1>3. SlotsExact'
    <2>1. ASSUME NEW h \in Services
          PROVE  slots'[h] + Len(queue'[h]) + Cardinality(Holding(h)') = Admissible
        <3> DEFINE a == slots[h]
                   b == Len(queue[h])
                   c == Cardinality(Holding(h))
                   x == slots'[h]
                   y == Len(queue'[h])
                   z == Cardinality(Holding(h)')
        <3>1. a \in Int /\ a + b + c = Admissible
            BY <1>0 DEF SlotsExact, ServiceParts
        <3>2. b \in Int /\ c \in Int
            BY <1>0, HoldingFinite
        <3>3. z = c
            BY <1>2
        <3>4. (x = a - 1 /\ y = b + 1) \/ (x = a /\ y = b)
            <4>1. CASE h = g
                BY <1>1, <4>1
            <4>2. CASE h # g
                BY <1>1, <4>2
            <4>3. QED
                BY <4>1, <4>2
        <3> HIDE DEF a, b, c, x, y, z
        <3>5. x + y + z = Admissible
            BY <3>1, <3>2, <3>3, <3>4
        <3>6. QED
            BY <3>5 DEF x, y, z
    <2>2. QED
        BY <2>1 DEF SlotsExact, Admissible
<1>4. \A h \in Services : slots'[h] \in Nat
    BY <1>0, <1>1 DEF Admits, ServiceParts
<1>5. BusyOK'
    BY <1>0 DEF BusyOK, Busy
<1>6. QED
    BY <1>1, <1>3, <1>4, <1>5, SlotsInRange

LEMMA OthersKeep ==
    ASSUME OneShotAssumption, ServiceInv, UNCHANGED <<slots, queue, admitted, work>>,
           cancelled' \in [Services -> SUBSET Requests], cancelling' \subseteq Requests,
           answers' \in Seq(Answers)
    PROVE  ServiceInv'
BY DEF ServiceInv, ServiceTypeOK, SlotsExact, Holding, BusyOK, Busy, Answers, Admissible

-----------------------------------------------------------------------------
(* SessionTitles: the application *)

\* A session without a process has no reports to come.
Quiet == live = Nil => echoes = <<>> /\ expected = <<>>

\* No title that is waited for, deferred or being set can replace the name the user gave last.
Unopposed == chosen # Nil =>
    /\ name = chosen
    /\ applying = Nil
    /\ deferred # Nil => deferred # live
    /\ \A r \in Requests : pending[r] # Nil =>
         pending[r].target # Stored /\ pending[r].target # live

\* The store has the name the user gave last, or will have it with the last report of Pi: then the
\* name is new to it, unless nobody but Pi has named the session there.
Reported == chosen # Nil =>
    /\ echoes # <<>> => echoes[Len(echoes)] = chosen
    /\ row # Nil /\ ~unheard =>
         \/ row.manual = chosen
         \/ row.manual = Nil /\ row.ai = Nil /\ (row.title = chosen \/ echoes # <<>>)
         \/ /\ row.manual # Nil /\ echoes # <<>>
            /\ chosen \notin ToSet(expected) /\ sidebar = row.manual

AppParts ==
    /\ submitted \in 0 .. MaxRequests
    /\ generation \in Services
    /\ service \in {"resolving", "open", "none"}
    /\ started \in 0 .. MaxTokens /\ live \in (1 .. started) \cup {Nil}
    /\ prompted \in BOOLEAN /\ written \in BOOLEAN /\ unheard \in BOOLEAN
    /\ name \in Names \cup {Nil} /\ sidebar \in Names \cup {Nil}
    /\ row \in Rows \cup {Nil}
    /\ echoes \in Seq(Names)
    /\ expected \in Seq(Names) /\ Len(expected) <= MaxExpected
    /\ deferred \in (1 .. started) \cup {Nil}
    /\ pending \in [Requests -> Asks \cup {Nil}]
    /\ \A r \in Requests : pending[r] # Nil =>
         pending[r].target <= started /\ pending[r].generation = generation /\ r <= submitted
    /\ applying \in Titles \cup {Nil} /\ (applying # Nil => live # Nil)
    /\ reading \in Names \cup {Nil}
    /\ changes \in 0 .. MaxChanges
    /\ chosen \in UserNames \cup {Nil}

TitlesInv == ServiceInv /\ AppParts /\ Quiet /\ WaitedIsUnderWay /\ Unopposed /\ Reported

\* Nil is none of the values it stands beside.
LEMMA NilApart ==
    ASSUME TitlesAssumption
    PROVE  /\ Nil \notin Nat /\ Nil \notin Names /\ Nil \notin Rows /\ Nil \notin Asks
           /\ Nil \notin Titles /\ Nil \notin UserNames /\ Nil \notin Generated
           /\ MaxTokens \in Nat \ {0} /\ MaxExpected \in Nat \ {0}
           /\ MaxChanges \in Nat /\ MaxRequests \in Nat /\ MaxGeneration \in Nat \ {0}
           /\ UserNames \subseteq Names /\ Generated \subseteq Names
           /\ Fallback \in Names /\ Preview \in Names /\ OneShotAssumption
BY DEF TitlesAssumption, OneShotAssumption, Names

LEMMA ExpectingFacts ==
    ASSUME TitlesAssumption, NEW s \in Seq(Names), Len(s) <= MaxExpected, NEW n \in Names
    PROVE  Expecting(s, n) \in Seq(Names) /\ Len(Expecting(s, n)) <= MaxExpected
<1>1. Len(s) \in Nat /\ MaxExpected \in Nat \ {0}
    BY NilApart
<1>2. CASE Len(s) < MaxExpected
    BY <1>1, <1>2 DEF Expecting
<1>3. CASE ~(Len(s) < MaxExpected)
    <2>1. s # <<>>
        BY <1>1, <1>3
    <2>2. Tail(s) \in Seq(Names) /\ Len(Tail(s)) = Len(s) - 1
        BY <2>1
    <2>3. Append(Tail(s), n) \in Seq(Names) /\ Len(Append(Tail(s), n)) = Len(s)
        BY <1>1, <2>2
    <2>4. Expecting(s, n) = Append(Tail(s), n)
        BY <1>3 DEF Expecting
    <2>5. QED
        BY <2>3, <2>4
<1>4. QED
    BY <1>2, <1>3

\* A set of numbers that is not empty has a least one.
LEMMA LeastOf ==
    ASSUME NEW S \in SUBSET Nat, S # {}
    PROVE  Min(S) \in S
<1>1. PICK m \in S : \A n \in S : <<n, m>> \notin OpToRel(<, Nat)
    BY NatLessThanWellFounded, WFMin
<1>2. \A n \in S : ~(n < m)
    BY <1>1, Zenon DEF OpToRel
<1>3. \A n \in S : m =< n
    BY <1>2
<1>4. QED
    BY <1>3 DEF Min

LEMMA RemoveFacts ==
    ASSUME NEW T, NEW s \in Seq(T), NEW n
    PROVE  /\ RemoveFirst(s, n) \in Seq(T) /\ Len(RemoveFirst(s, n)) <= Len(s)
           /\ ToSet(RemoveFirst(s, n)) \subseteq ToSet(s)
<1> DEFINE I == {i \in 1 .. Len(s) : s[i] = n}
<1>1. CASE ~\E i \in 1 .. Len(s) : s[i] = n
    BY <1>1 DEF RemoveFirst
<1>2. CASE \E i \in 1 .. Len(s) : s[i] = n
    <2>1. I # {} /\ I \in SUBSET Nat /\ Len(s) \in Nat
        BY <1>2
    <2> DEFINE m == Min(I)
    <2>2. m \in 1 .. Len(s)
        BY <2>1, LeastOf
    <2>3. SelectInSeq(s, LAMBDA v : v = n) = m
        BY <2>1 DEF SelectInSeq
    <2>4. RemoveFirst(s, n) = RemoveAt(s, m)
        BY <1>2, <2>3 DEF RemoveFirst
    <2> DEFINE a == SubSeq(s, 1, m - 1)
               b == SubSeq(s, m + 1, Len(s))
    <2> HIDE DEF m
    <2>5. RemoveFirst(s, n) = a \o b
        BY <2>4 DEF RemoveAt
    <2>6. /\ a \in Seq(T) /\ Len(a) <= m - 1
          /\ ToSet(a) = {s[i] : i \in 1 .. m - 1}
        BY <2>1, <2>2, MembersSubSeq
    <2>7. /\ b \in Seq(T) /\ Len(b) <= Len(s) - m
          /\ ToSet(b) = {s[i] : i \in m + 1 .. Len(s)}
        BY <2>1, <2>2, MembersSubSeq
    <2> HIDE DEF a, b
    <2>8. a \o b \in Seq(T) /\ Len(a \o b) = Len(a) + Len(b) /\ ToSet(a \o b) = ToSet(a) \cup ToSet(b)
        BY <2>6, <2>7, MembersConcat
    <2>9. {s[i] : i \in 1 .. m - 1} \cup {s[i] : i \in m + 1 .. Len(s)} \subseteq ToSet(s)
        BY <2>2, MembersOf
    <2>10. Len(a \o b) <= Len(s)
        <3>1. Len(a) \in Nat /\ Len(b) \in Nat
            BY <2>6, <2>7
        <3>2. QED
            BY <2>1, <2>2, <2>6, <2>7, <2>8, <3>1
    <2>11. QED
        BY <2>5, <2>6, <2>7, <2>8, <2>9, <2>10
<1>3. QED
    BY <1>1, <1>2

\* What the index makes of a row.
LEMMA IndexFacts ==
    ASSUME TitlesAssumption, NEW w \in Rows \cup {Nil}, NEW n \in Names, NEW f \in BOOLEAN
    PROVE  /\ Saved(w, n, f) \in Rows \cup {Nil}
           /\ WithManual(w, n) \in Rows \cup {Nil} /\ WithAi(w, n) \in Rows \cup {Nil}
           /\ Shown(w) \in Names \cup {Nil}
           /\ Saved(w, n, f) # Nil =>
                /\ Saved(w, n, f).title = n
                /\ w # Nil => Saved(w, n, f).manual = w.manual /\ Saved(w, n, f).ai = w.ai
                /\ w = Nil => Saved(w, n, f).manual = Nil /\ Saved(w, n, f).ai = Nil
           /\ WithManual(w, n) = Nil <=> w = Nil
           /\ w # Nil => WithManual(w, n).manual = n /\ WithManual(w, n).ai = w.ai
BY NilApart DEF Rows, Saved, WithManual, WithAi, Shown

LEMMA TitlesInitInv == TitlesAssumption /\ TitlesInit => TitlesInv
<1> SUFFICES ASSUME TitlesAssumption, TitlesInit PROVE TitlesInv
    OBVIOUS
<1>1. ServiceInv
    <2>1. \A g \in Services : Holding(g) = {}
        BY DEF TitlesInit, ServiceInit, Holding, Free, Task
    <2>2. Admissible \in Nat
        BY HoldingFinite, NilApart
    <2>3. SlotsExact
        <3>1. ASSUME NEW g \in Services
              PROVE  slots[g] + Len(queue[g]) + Cardinality(Holding(g)) = Admissible
            <4>1. slots[g] = Admissible /\ Len(queue[g]) = 0
                BY DEF TitlesInit, ServiceInit
            <4>2. Cardinality(Holding(g)) = 0
                BY <2>1, FS_EmptySet
            <4>3. QED
                BY <2>2, <4>1, <4>2
        <3>2. QED
            BY <3>1 DEF SlotsExact
    <2>4. BusyOK
        BY DEF TitlesInit, ServiceInit, BusyOK, Busy, Free, Task
    <2>5. QED
        BY <2>2, <2>3, <2>4 DEF TitlesInit, ServiceInit, ServiceInv, ServiceTypeOK, Free, Task
<1>2. AppParts
    <2>1. started \in 0 .. MaxTokens /\ live \in (1 .. started) \cup {Nil}
        BY NilApart DEF TitlesInit
    <2>2. row \in Rows \cup {Nil} /\ sidebar \in Names \cup {Nil}
        BY NilApart DEF TitlesInit, Rows
    <2>3. echoes \in Seq(Names) /\ expected \in Seq(Names) /\ Len(expected) = 0
        BY DEF TitlesInit
    <2>4. generation \in Services /\ submitted \in 0 .. MaxRequests /\ changes \in 0 .. MaxChanges
        BY NilApart DEF TitlesInit, Services
    <2>5. pending \in [Requests -> Asks \cup {Nil}] /\ \A r \in Requests : pending[r] = Nil
        BY DEF TitlesInit
    <2>6. Len(expected) <= MaxExpected
        BY <2>3, NilApart
    <2>7. QED
        BY <2>1, <2>2, <2>3, <2>4, <2>5, <2>6 DEF TitlesInit, AppParts
<1>3. QED
    BY <1>1, <1>2 DEF TitlesInit, TitlesInv, Quiet, WaitedIsUnderWay, Unopposed, Reported

\* A title is waited for and made.  Where it is:
InChannel(r) == r \in ToSet(queue[generation])
AtWorker(r) == \E w \in Workers : Busy(generation, w) /\ work[generation][w].request = r
InAnswers(r) == \E i \in 1 .. Len(answers) :
    answers[i].request = r /\ answers[i].generation = generation

\* A worker's step takes a request from one of these places to the next.
LEMMA PoolUnderWay ==
    ASSUME TitlesAssumption, ServiceInv, AppParts, WaitedIsUnderWay,
           NEW g \in Services, NEW w \in Workers, PoolSteps(g, w), UNCHANGED appVars
    PROVE  WaitedIsUnderWay'
<1> SUFFICES ASSUME NEW r \in Requests, InChannel(r) \/ AtWorker(r) \/ InAnswers(r)
             PROVE  InChannel(r)' \/ AtWorker(r)' \/ InAnswers(r)'
    BY DEF WaitedIsUnderWay, InChannel, AtWorker, InAnswers, Busy, appVars
<1>0. /\ generation' = generation /\ generation \in Services
      /\ queue \in [Services -> Seq(Requests)] /\ answers \in Seq(Answers)
      /\ work \in [Services -> [Workers -> WorkState]]
    BY DEF appVars, AppParts, ServiceInv, ServiceTypeOK, Answers, WorkState, Pc, Result
<1>1. CASE GiveUp(g, w) \/ Execute(g, w)
    <2>1. PICK pc \in {"check", "release"}, out \in Generated \cup {Failed} :
              work' = [work EXCEPT ![g][w] = Task(pc, Head(queue[g]), out)]
        BY <1>1 DEF GiveUp, Execute
    <2>2. /\ queue[g] # <<>> /\ work[g][w].pc = "free"
          /\ queue' = [queue EXCEPT ![g] = Tail(@)] /\ answers' = answers
        BY <1>1 DEF GiveUp, Execute, Take
    <2>3. /\ work'[g][w] = Task(pc, Head(queue[g]), out)
          /\ \A h \in Services, v \in Workers : <<h, v>> # <<g, w>> => work'[h][v] = work[h][v]
        BY <1>0, <2>1
    <2>4. CASE InChannel(r)
        <3>1. CASE generation = g
            <4>1. r = Head(queue[g]) \/ r \in ToSet(Tail(queue[g]))
                BY <1>0, <2>2, <2>4, <3>1, MembersHeadTail DEF InChannel
            <4>2. CASE r = Head(queue[g])
                BY <1>0, <2>3, <3>1, <4>2 DEF AtWorker, Busy, Task
            <4>3. CASE r \in ToSet(Tail(queue[g]))
                BY <1>0, <2>2, <3>1, <4>3 DEF InChannel
            <4>4. QED
                BY <4>1, <4>2, <4>3
        <3>2. CASE generation # g
            BY <1>0, <2>2, <2>4, <3>2 DEF InChannel
        <3>3. QED
            BY <3>1, <3>2
    <2>5. CASE AtWorker(r)
        BY <1>0, <2>2, <2>3, <2>5 DEF AtWorker, Busy
    <2>6. CASE InAnswers(r)
        BY <1>0, <2>2, <2>6 DEF InAnswers
    <2>7. QED
        BY <2>4, <2>5, <2>6
<1>2. CASE Check(g, w) \/ Release(g, w) \/ Forget(g, w)
    <2>1. queue' = queue /\ answers' = answers
        BY <1>2 DEF Check, Release, Forget
    <2>2. ASSUME NEW h \in Services, NEW v \in Workers, Busy(h, v)
          PROVE  Busy(h, v)' /\ work'[h][v].request = work[h][v].request
        <3>1. CASE Check(g, w)
            BY <1>0, <2>2, <3>1 DEF Check, Busy, WorkState
        <3>2. CASE Release(g, w)
            BY <1>0, <2>2, <3>2 DEF Release, Step, Busy, WorkState
        <3>3. CASE Forget(g, w)
            BY <1>0, <2>2, <3>3 DEF Forget, Step, Busy, WorkState
        <3>4. QED
            BY <1>2, <3>1, <3>2, <3>3
    <2>3. AtWorker(r) => AtWorker(r)'
        BY <1>0, <2>2 DEF AtWorker, Busy
    <2>4. QED
        BY <1>0, <2>1, <2>3 DEF InChannel, InAnswers
<1>3. CASE Answer(g, w)
    <2> DEFINE a == [request |-> work[g][w].request, generation |-> g, result |-> work[g][w].result]
    <2>1. /\ queue' = queue /\ answers' = Append(answers, a)
          /\ work' = [work EXCEPT ![g][w] = Free]
        BY <1>3 DEF Answer
    <2>2. /\ Len(answers') = Len(answers) + 1 /\ Len(answers) \in Nat
          /\ answers'[Len(answers) + 1] = a
          /\ \A i \in 1 .. Len(answers) : answers'[i] = answers[i]
        BY <1>0, <2>1
    <2>3. ASSUME InAnswers(r) PROVE InAnswers(r)'
        <3>1. PICK i \in 1 .. Len(answers) : answers[i].request = r /\ answers[i].generation = generation
            BY <2>3 DEF InAnswers
        <3>2. i \in 1 .. Len(answers') /\ answers'[i] = answers[i]
            BY <2>2
        <3>3. QED
            BY <1>0, <3>1, <3>2 DEF InAnswers
    <2>4. InChannel(r) => InChannel(r)'
        BY <1>0, <2>1 DEF InChannel
    <2>5. CASE AtWorker(r)
        <3>1. PICK v \in Workers : Busy(generation, v) /\ work[generation][v].request = r
            BY <2>5 DEF AtWorker
        <3>2. CASE <<generation, v>> = <<g, w>>
            <4>1. a.request = r /\ a.generation = generation
                BY <3>1, <3>2
            <4>2. Len(answers) + 1 \in 1 .. Len(answers')
                BY <2>2
            <4>3. QED
                BY <1>0, <2>2, <4>1, <4>2 DEF InAnswers
        <3>3. CASE <<generation, v>> # <<g, w>>
            <4>1. work'[generation][v] = work[generation][v]
                BY <1>0, <2>1, <3>3
            <4>2. QED
                BY <1>0, <3>1, <4>1 DEF AtWorker, Busy
        <3>4. QED
            BY <3>2, <3>3
    <2>6. QED
        BY <2>3, <2>4, <2>5
<1>4. QED
    BY <1>1, <1>2, <1>3 DEF PoolSteps

\* What is no more waited for, or accepted anew.
LEMMA AskedUnderWay ==
    ASSUME TitlesAssumption, ServiceInv, AppParts, WaitedIsUnderWay,
           UNCHANGED <<work, answers, generation>>,
           NEW n,
           \A r \in Requests : pending'[r] \in {Nil, pending[r]} \/ r = n,
           \/ UNCHANGED queue /\ (n \in Requests => pending'[n] \in {Nil, pending[n]})
           \/ n \in Requests /\ queue' = [queue EXCEPT ![generation] = Append(@, n)]
    PROVE  WaitedIsUnderWay'
<1>0. generation \in Services /\ queue \in [Services -> Seq(Requests)]
    BY DEF AppParts, ServiceInv, ServiceTypeOK
<1>1. CASE UNCHANGED queue /\ (n \in Requests => pending'[n] \in {Nil, pending[n]})
    BY <1>1 DEF WaitedIsUnderWay
<1>2. CASE n \in Requests /\ queue' = [queue EXCEPT ![generation] = Append(@, n)]
    <2>1. ToSet(queue'[generation]) = ToSet(queue[generation]) \cup {n}
        BY <1>0, <1>2, MembersAppend
    <2>2. QED
        BY <1>2, <2>1 DEF WaitedIsUnderWay
<1>3. QED
    BY <1>1, <1>2

AsksOK ==
    /\ submitted \in 0 .. MaxRequests
    /\ pending \in [Requests -> Asks \cup {Nil}]
    /\ \A r \in Requests : pending[r] # Nil =>
         pending[r].target <= started /\ pending[r].generation = generation /\ r <= submitted

\* The application's other steps on the service.
LEMMA CalmKeeps ==
    ASSUME TitlesAssumption, ServiceInv, UNCHANGED serviceVars
    PROVE  ServiceInv'
BY OthersKeep, NilApart DEF serviceVars, ServiceInv, ServiceTypeOK, Answers

LEMMA CancelKeeps ==
    ASSUME TitlesAssumption, ServiceInv, AppParts, WaitedIsUnderWay, NEW rs \in SUBSET Requests,
           Cancel(rs), UNCHANGED <<generation, started, submitted>>
    PROVE  /\ ServiceInv' /\ WaitedIsUnderWay' /\ AsksOK'
           /\ \A r \in Requests : pending'[r] = IF r \in rs THEN Nil ELSE pending[r]
<1>1. \A r \in Requests : pending'[r] = IF r \in rs THEN Nil ELSE pending[r]
    BY DEF Cancel, Unscheduled
<1>2. cancelling' \subseteq Requests /\ UNCHANGED <<slots, queue, admitted, cancelled, work, answers>>
    BY DEF Cancel, FindActive, ServiceInv, ServiceTypeOK
<1>3. ServiceInv'
    BY <1>2, OthersKeep, NilApart DEF ServiceInv, ServiceTypeOK, Answers
<1>4. AsksOK'
    BY <1>1 DEF Cancel, Unscheduled, AppParts, AsksOK
<1>5. WaitedIsUnderWay'
    BY <1>1, <1>2 DEF WaitedIsUnderWay
<1>6. QED
    BY <1>1, <1>3, <1>4, <1>5

LEMMA AskedKeeps ==
    ASSUME TitlesAssumption, ServiceInv, AppParts, WaitedIsUnderWay, MayAsk, Admits(generation),
           NEW asked \in [Requests -> Asks \cup {Nil}],
           \A r \in Requests : asked[r] \in {Nil, pending[r]},
           NEW target \in 0 .. started, NEW baseline \in Names, NEW source \in Sources,
           SubmitRequest(asked, target, baseline, source),
           UNCHANGED <<cancelled, work, answers, generation, started>>, cancelling' \subseteq Requests
    PROVE  ServiceInv' /\ WaitedIsUnderWay' /\ AsksOK'
<1> DEFINE n == submitted + 1
           ask == [target |-> target, generation |-> generation, baseline |-> baseline,
                   source |-> source]
<1>1. /\ submitted \in Nat /\ n \in Requests /\ generation \in Services /\ target \in Nat
      /\ target <= started
    BY NilApart DEF MayAsk, AppParts, Requests
<1>2. Accept(generation, n) /\ submitted' = n /\ pending' = [asked EXCEPT ![n] = ask]
    BY DEF SubmitRequest
<1>3. ServiceInv'
    BY <1>1, <1>2, AcceptKeeps, NilApart
<1>4. ask \in Asks /\ ask.target <= started /\ ask.generation = generation
    BY <1>1 DEF Asks
<1>5. \A r \in Requests : pending'[r] = IF r = n THEN ask ELSE asked[r]
    BY <1>2
<1>6. AsksOK'
    <2>1. pending' \in [Requests -> Asks \cup {Nil}]
        BY <1>2, <1>4
    <2>2. submitted' \in 0 .. MaxRequests
        BY <1>1, <1>2, NilApart DEF Requests
    <2>3. ASSUME NEW r \in Requests, pending'[r] # Nil
          PROVE  pending'[r].target <= started /\ pending'[r].generation = generation /\ r <= n
        <3>1. CASE r = n
            BY <1>1, <1>4, <1>5, <3>1
        <3>2. CASE r # n
            BY <1>1, <1>5, <2>3, <3>2 DEF AppParts, Requests
        <3>3. QED
            BY <3>1, <3>2
    <2>4. QED
        BY <1>2, <2>1, <2>2, <2>3 DEF AsksOK
<1>7. WaitedIsUnderWay'
    <2>1. queue' = [queue EXCEPT ![generation] = Append(@, n)]
        BY <1>2 DEF Accept
    <2>2. \A r \in Requests : pending'[r] \in {Nil, pending[r]} \/ r = n
        BY <1>5
    <2>3. QED
        BY <1>1, <2>1, <2>2, AskedUnderWay
<1>8. QED
    BY <1>3, <1>6, <1>7

LEMMA ScheduleKeeps ==
    ASSUME TitlesAssumption, ServiceInv, AppParts, WaitedIsUnderWay, MayAsk,
           NEW target \in 0 .. started, Schedule(target, Fallback, "automatic"),
           UNCHANGED <<generation, started>>
    PROVE  ServiceInv' /\ WaitedIsUnderWay' /\ AsksOK'
<1>1. CASE Admits(generation)
    <2>1. /\ SubmitRequest(pending, target, Fallback, "automatic")
          /\ UNCHANGED <<cancelled, work, cancelling, answers>>
        BY <1>1 DEF Schedule
    <2>2. cancelling' \subseteq Requests /\ "automatic" \in Sources /\ Fallback \in Names
        BY <2>1, NilApart DEF ServiceInv, ServiceTypeOK, Sources
    <2>3. pending \in [Requests -> Asks \cup {Nil}]
        BY DEF AppParts
    <2>4. QED
        BY <1>1, <2>1, <2>2, <2>3, AskedKeeps
<1>2. CASE ~Admits(generation)
    <2>1. UNCHANGED <<serviceVars, pending, submitted>>
        BY <1>2 DEF Schedule
    <2>2. QED
        BY <2>1, CalmKeeps DEF serviceVars, WaitedIsUnderWay, AppParts, AsksOK
<1>3. QED
    BY <1>1, <1>2

\* Asking for titles.
LEMMA FirstPromptKeeps ==
    ASSUME TitlesAssumption, TitlesInv, FirstPrompt
    PROVE  TitlesInv'
<1> USE DEF TitlesInv
<1>1. live \in 1 .. started /\ UNCHANGED <<generation, started, live, changes, service, reading, applying>>
    BY DEF FirstPrompt, AppParts
<1>2. ServiceInv' /\ WaitedIsUnderWay' /\ AsksOK' /\ deferred' \in (1 .. started) \cup {Nil}
    <2>1. CASE service = "open"
        <3>1. Schedule(live, Fallback, "automatic") /\ UNCHANGED deferred /\ MayAsk
            BY <2>1 DEF FirstPrompt
        <3>2. live \in 0 .. started
            BY <1>1
        <3>3. QED
            BY <1>1, <3>1, <3>2, ScheduleKeeps DEF AppParts
    <2>2. CASE service # "open"
        <3>1. deferred' = live /\ UNCHANGED <<serviceVars, pending, submitted>>
            BY <2>2 DEF FirstPrompt
        <3>2. QED
            BY <1>1, <3>1, CalmKeeps DEF serviceVars, WaitedIsUnderWay, AppParts, AsksOK
    <2>3. QED
        BY <2>1, <2>2
<1>3. PICK w \in BOOLEAN : written' = w /\ IndexSession(row, Fallback, w)
    BY DEF FirstPrompt
<1>4. row' \in Rows \cup {Nil} /\ sidebar' \in Names \cup {Nil} /\ written' \in BOOLEAN
    BY <1>3, NilApart, IndexFacts DEF IndexSession, AppParts
<1>5. expected' \in Seq(Names) /\ Len(expected') <= MaxExpected
    BY NilApart, ExpectingFacts DEF FirstPrompt, AppParts
<1>6. echoes' \in Seq(Names) /\ name' \in Names /\ prompted' = TRUE /\ chosen' = Nil /\ UNCHANGED unheard
    BY NilApart DEF FirstPrompt, AppParts
<1>7. AppParts'
    BY <1>1, <1>2, <1>4, <1>5, <1>6 DEF AppParts, AsksOK
<1>8. Quiet' /\ Unopposed' /\ Reported'
    BY <1>1, <1>6, NilApart DEF Quiet, Unopposed, Reported
<1>9. QED
    BY <1>2, <1>7, <1>8

\* Steps beside the names.
LEMMA AsideKeeps ==
    ASSUME TitlesAssumption, TitlesInv,
           FirstPromptRefused \/ NotResolved \/ AskSmart \/ PiWrites \/ Launch
    PROVE  TitlesInv'
<1> USE DEF TitlesInv
<1>1. /\ UNCHANGED <<serviceVars, generation, name, row, sidebar, echoes, expected, deferred, pending,
                     submitted, applying, changes, chosen, unheard>>
      /\ prompted' \in BOOLEAN /\ written' \in BOOLEAN /\ reading' \in Names \cup {Nil}
      /\ service' \in {"resolving", "open", "none"}
    BY DEF FirstPromptRefused, NotResolved, AskSmart, PiWrites, Launch, AppParts
<1>2. \/ UNCHANGED <<started, live>>
      \/ applying = Nil /\ live = Nil /\ started' = started + 1 /\ live' = started + 1 /\ started < MaxTokens
    BY DEF FirstPromptRefused, NotResolved, AskSmart, PiWrites, Launch, Ready
<1>3. ServiceInv' /\ WaitedIsUnderWay'
    BY <1>1, CalmKeeps DEF serviceVars, WaitedIsUnderWay
<1>4. CASE UNCHANGED <<started, live>>
    BY <1>1, <1>3, <1>4 DEF AppParts, Quiet, Unopposed, Reported
<1>5. CASE /\ applying = Nil /\ live = Nil /\ started' = started + 1 /\ live' = started + 1
           /\ started < MaxTokens
    <2>1. /\ started \in Nat /\ started' \in 0 .. MaxTokens /\ live' \in 1 .. started'
          /\ deferred' \in (1 .. started') \cup {Nil} /\ live' # Nil
          /\ deferred # Nil => deferred # live'
        BY <1>1, <1>5, NilApart DEF AppParts
    <2>2. \A r \in Requests : pending[r] # Nil =>
              pending[r].target \in Nat /\ pending[r].target <= started
        BY DEF AppParts, Asks
    <2>3. \A r \in Requests : pending[r] # Nil =>
              pending[r].target <= started' /\ pending[r].target # live'
        BY <1>5, <2>1, <2>2
    <2>4. AppParts'
        BY <1>1, <1>5, <2>1, <2>3 DEF AppParts
    <2>5. Quiet' /\ Unopposed' /\ Reported'
        BY <1>1, <2>1, <2>3 DEF Quiet, Unopposed, Reported
    <2>6. QED
        BY <1>3, <2>4, <2>5
<1>6. QED
    BY <1>2, <1>4, <1>5

\* New settings.
LEMMA RebuildKeeps ==
    ASSUME TitlesAssumption, TitlesInv, Rebuild
    PROVE  TitlesInv'
<1> USE DEF TitlesInv
<1>1. /\ generation' = generation + 1 /\ generation \in Services /\ generation < MaxGeneration
      /\ changes' = changes + 1 /\ changes < MaxChanges
      /\ service' = "resolving"
      /\ \A r \in Requests : pending'[r] = Nil
      /\ pending' \in [Requests -> Asks \cup {Nil}]
      /\ UNCHANGED <<serviceVars, started, live, prompted, written, name, row, sidebar, echoes,
                     expected, deferred, submitted, applying, reading, chosen, unheard>>
    BY DEF Rebuild, Changed, Unscheduled, AppParts
<1>2. generation' \in Services /\ changes' \in 0 .. MaxChanges
    BY <1>1, NilApart DEF Services, AppParts
<1>3. ServiceInv' /\ WaitedIsUnderWay'
    BY <1>1, CalmKeeps DEF WaitedIsUnderWay
<1>4. AppParts'
    BY <1>1, <1>2 DEF AppParts
<1>5. Quiet' /\ Unopposed' /\ Reported'
    BY <1>1 DEF Quiet, Unopposed, Reported
<1>6. QED
    BY <1>3, <1>4, <1>5

\* The new service is there: what is deferred is asked for, unless the user has given a name.
LEMMA InstallKeeps ==
    ASSUME TitlesAssumption, TitlesInv, Install
    PROVE  TitlesInv'
<1> USE DEF TitlesInv
<1>1. /\ service' = "open" /\ deferred' = Nil
      /\ UNCHANGED <<generation, started, live, prompted, written, name, row, sidebar, echoes,
                     expected, applying, reading, changes, chosen, unheard>>
    BY DEF Install
<1>2. CASE deferred # Nil /\ deferred = live /\ Fallback \in ToSet(expected)
    <2>1. MayAsk /\ Schedule(live, Fallback, "automatic")
        BY <1>2 DEF Install
    <2>2. live \in 0 .. started
        BY <1>2 DEF AppParts
    <2>3. ServiceInv' /\ WaitedIsUnderWay' /\ AsksOK'
        BY <1>1, <2>1, <2>2, ScheduleKeeps
    <2>4. AppParts'
        BY <1>1, <2>3 DEF AppParts, AsksOK
    <2>5. chosen' = Nil
        BY <1>1, <1>2 DEF Unopposed
    <2>6. Quiet' /\ Unopposed' /\ Reported'
        BY <1>1, <2>5 DEF Quiet, Unopposed, Reported
    <2>7. QED
        BY <2>3, <2>4, <2>6
<1>3. CASE ~(deferred # Nil /\ deferred = live /\ Fallback \in ToSet(expected))
    <2>1. UNCHANGED <<serviceVars, pending, submitted>>
        BY <1>3 DEF Install
    <2>2. ServiceInv' /\ WaitedIsUnderWay'
        BY <1>1, <2>1, CalmKeeps DEF serviceVars, WaitedIsUnderWay
    <2>3. AppParts' /\ Quiet' /\ Unopposed' /\ Reported'
        BY <1>1, <2>1 DEF AppParts, Quiet, Unopposed, Reported
    <2>4. QED
        BY <2>2, <2>3
<1>4. QED
    BY <1>2, <1>3

\* A smart rename: asked for, or not.
LEMMA StartSmartKeeps ==
    ASSUME TitlesAssumption, TitlesInv, StartSmart
    PROVE  TitlesInv'
<1> USE DEF TitlesInv
<1> DEFINE old == {r \in Requests : OfSession(r)}
           target == IF live = Nil THEN Stored ELSE live
<1>1. /\ reading # Nil /\ reading' = Nil /\ reading \in Names
      /\ UNCHANGED <<generation, service, started, live, prompted, written, name, row, sidebar,
                     echoes, applying, changes, unheard>>
    BY DEF StartSmart, AppParts
<1>2. \/ /\ MayAsk /\ Admits(generation)
         /\ SubmitRequest(Unscheduled(old), target, reading, "smart") /\ FindActive(generation, old)
         /\ UNCHANGED <<cancelled, work, answers>> /\ chosen' = Nil
      \/ Cancel(old) /\ UNCHANGED <<submitted, chosen>>
      \/ UNCHANGED <<serviceVars, pending, submitted, chosen>>
    BY DEF StartSmart
<1>3. /\ expected' \in {expected, <<>>} /\ deferred' \in {deferred, Nil}
    BY DEF StartSmart
<1>4. ServiceInv' /\ WaitedIsUnderWay' /\ AsksOK'
    <2>1. CASE /\ MayAsk /\ Admits(generation)
               /\ SubmitRequest(Unscheduled(old), target, reading, "smart")
               /\ FindActive(generation, old) /\ UNCHANGED <<cancelled, work, answers>>
        <3>1. /\ Unscheduled(old) \in [Requests -> Asks \cup {Nil}]
              /\ \A r \in Requests : Unscheduled(old)[r] \in {Nil, pending[r]}
            BY DEF Unscheduled, AppParts
        <3>2. target \in 0 .. started /\ "smart" \in Sources
            BY DEF AppParts, Stored, Sources
        <3>3. cancelling' \subseteq Requests
            BY <2>1 DEF FindActive
        <3>4. QED
            BY <1>1, <2>1, <3>1, <3>2, <3>3, AskedKeeps
    <2>2. CASE Cancel(old) /\ UNCHANGED submitted
        BY <1>1, <2>2, CancelKeeps
    <2>3. CASE UNCHANGED <<serviceVars, pending, submitted>>
        BY <1>1, <2>3, CalmKeeps DEF serviceVars, WaitedIsUnderWay, AppParts, AsksOK
    <2>4. QED
        BY <1>2, <2>1, <2>2, <2>3
<1>5. expected' \in Seq(Names) /\ Len(expected') <= MaxExpected
    <2>1. expected \in Seq(Names) /\ Len(expected) <= MaxExpected
        BY DEF AppParts
    <2>2. <<>> \in Seq(Names) /\ Len(<<>>) = 0 /\ 0 <= MaxExpected
        BY NilApart
    <2>3. QED
        BY <1>3, <2>1, <2>2
<1>6. chosen' \in {Nil, chosen}
    BY <1>2
<1>7. AppParts'
    BY <1>1, <1>3, <1>4, <1>5, <1>6 DEF AppParts, AsksOK
<1>8. Quiet'
    BY <1>1, <1>3 DEF Quiet
<1>9. CASE chosen' = Nil
    BY <1>4, <1>7, <1>8, <1>9 DEF Unopposed, Reported
<1>10. CASE chosen' # Nil
    <2>1. chosen' = chosen /\ \A r \in Requests : pending'[r] \in {Nil, pending[r]}
        BY <1>2, <1>6, <1>10 DEF Cancel, Unscheduled
    <2>2. Unopposed'
        BY <1>1, <1>3, <2>1 DEF Unopposed
    <2>3. chosen \notin ToSet(expected) => chosen \notin ToSet(expected')
        BY <1>3, MembersEmpty
    <2>4. Reported'
        BY <1>1, <2>1, <2>3 DEF Reported
    <2>5. QED
        BY <1>4, <1>7, <1>8, <2>2, <2>4
<1>11. QED
    BY <1>9, <1>10

\* A title arrives: nobody waits for one that could replace what the user chose.
LEMMA SettleKeeps ==
    ASSUME TitlesAssumption, TitlesInv, Settle
    PROVE  TitlesInv'
<1> USE DEF TitlesInv
<1> DEFINE answer == Head(answers)
           ask == pending[answer.request]
<1>1. /\ answers # <<>> /\ answers \in Seq(Answers) /\ answers' = Tail(answers)
      /\ pending' = Unscheduled({answer.request})
      /\ applying = Nil
      /\ UNCHANGED <<slots, queue, admitted, cancelled, work, cancelling, generation, service,
                     started, live, prompted, written, echoes, expected, deferred, submitted,
                     reading, changes, chosen, unheard>>
    BY DEF Settle, Ready, ServiceInv, ServiceTypeOK, Answers
<1>2. /\ answer \in Answers /\ Tail(answers) \in Seq(Answers) /\ answer = answers[1]
      /\ Len(answers) \in Nat \ {0} /\ Len(Tail(answers)) = Len(answers) - 1
      /\ \A i \in 1 .. Len(answers) - 1 : Tail(answers)[i] = answers[i + 1]
    BY <1>1, HeadTailProperties
<1>3. \A r \in Requests : pending'[r] = IF r = answer.request THEN Nil ELSE pending[r]
    BY <1>1 DEF Unscheduled
<1>4. ServiceInv'
    BY <1>1, <1>2, OthersKeep, NilApart DEF ServiceInv, ServiceTypeOK
<1>5. WaitedIsUnderWay'
    <2>1. ASSUME NEW r \in Requests, r # answer.request, NEW i \in 1 .. Len(answers),
                 answers[i].request = r /\ answers[i].generation = generation
          PROVE  \E k \in 1 .. Len(answers') :
                     answers'[k].request = r /\ answers'[k].generation = generation
        <3>1. i - 1 \in 1 .. Len(answers) - 1 /\ i = (i - 1) + 1
            BY <1>2, <2>1
        <3>2. Tail(answers)[i - 1] = answers[i]
            BY <1>2, <3>1
        <3>3. QED
            BY <1>1, <1>2, <2>1, <3>1, <3>2
    <2>2. ASSUME NEW r \in Requests, pending'[r] # Nil
          PROVE  InChannel(r)' \/ AtWorker(r)' \/ InAnswers(r)'
        <3>1. r # answer.request /\ pending[r] # Nil
            BY <1>3, <2>2
        <3>2. InChannel(r) \/ AtWorker(r) \/ InAnswers(r)
            BY <3>1 DEF WaitedIsUnderWay, InChannel, AtWorker, InAnswers, Busy
        <3>3. InAnswers(r) => InAnswers(r)'
            BY <1>1, <2>1, <3>1 DEF InAnswers
        <3>4. (InChannel(r) => InChannel(r)') /\ (AtWorker(r) => AtWorker(r)')
            BY <1>1 DEF InChannel, AtWorker, Busy
        <3>5. QED
            BY <3>2, <3>3, <3>4
    <2>3. QED
        BY <2>2 DEF WaitedIsUnderWay, InChannel, AtWorker, InAnswers, Busy
<1>6. AsksOK'
    BY <1>1, <1>3 DEF AppParts, AsksOK, Unscheduled
<1> DEFINE set == ask # Nil /\ answer.generation = generation /\ Wanted(ask, answer.result)
<1>7. CASE set
    <2>1. ask \in Asks /\ answer.request \in Requests /\ answer.result \in Generated
        BY <1>2, <1>7 DEF Answers, AppParts, Wanted
    <2>2. chosen = Nil
        BY <1>7, <2>1 DEF Wanted, Unopposed
    <2>3. CASE live = Nil
        <3>1. /\ name' = answer.result /\ UNCHANGED applying
              /\ IndexSession(WithManual(row, answer.result), answer.result, written)
            BY <1>7, <2>3 DEF Settle
        <3>2. name' \in Names /\ row' \in Rows \cup {Nil} /\ sidebar' \in Names \cup {Nil}
            BY <2>1, <3>1, NilApart, IndexFacts DEF IndexSession, AppParts
        <3>3. AppParts'
            BY <1>1, <1>6, <3>1, <3>2 DEF AppParts, AsksOK
        <3>4. Quiet' /\ Unopposed' /\ Reported'
            BY <1>1, <2>2 DEF Quiet, Unopposed, Reported
        <3>5. QED
            BY <1>4, <1>5, <3>3, <3>4
    <2>4. CASE live # Nil
        <3>1. /\ applying' = [title |-> answer.result, source |-> ask.source]
              /\ UNCHANGED <<name, row, sidebar>>
            BY <1>7, <2>4 DEF Settle
        <3>2. applying' \in Titles
            BY <2>1, <3>1 DEF Asks, Titles
        <3> HIDE DEF set, ask, answer
        <3>3. AppParts'
            <4>1. /\ UNCHANGED <<generation, service, started, live, prompted, written, echoes, expected,
                                 deferred, submitted, reading, changes, chosen, unheard, name, row,
                                 sidebar>>
                  /\ applying' \in Titles \cup {Nil} /\ live # Nil
                BY <1>1, <2>4, <3>1, <3>2
            <4>2. QED
                BY <1>6, <4>1 DEF AppParts, AsksOK
        <3>4. Quiet' /\ Unopposed' /\ Reported'
            BY <1>1, <2>2 DEF Quiet, Unopposed, Reported
        <3>5. QED
            BY <1>4, <1>5, <3>3, <3>4
    <2>5. QED
        BY <2>3, <2>4
<1>8. CASE ~set
    <2>1. UNCHANGED <<name, row, sidebar, applying>>
        BY <1>8 DEF Settle
    <2>2. AppParts'
        <3> HIDE DEF set, ask, answer
        <3>1. /\ UNCHANGED <<generation, service, started, live, prompted, written, echoes, expected,
                             deferred, reading, changes, chosen, unheard, name, row, sidebar,
                             applying>>
            BY <1>1, <2>1
        <3>2. QED
            BY <1>6, <3>1 DEF AppParts, AsksOK
    <2>3. Quiet' /\ Unopposed' /\ Reported'
        BY <1>1, <1>3, <2>1 DEF Quiet, Unopposed, Reported
    <2>4. QED
        BY <1>4, <1>5, <2>2, <2>3
<1>9. QED
    BY <1>7, <1>8

\* The rest of it.
LEMMA ApplyTitleKeeps ==
    ASSUME TitlesAssumption, TitlesInv, ApplyTitle
    PROVE  TitlesInv'
<1> USE DEF TitlesInv
<1> DEFINE title == applying.title
           w == IF applying.source = "automatic" THEN WithAi(row, title) ELSE WithManual(row, title)
<1>1. /\ applying \in Titles /\ title \in Names /\ live # Nil /\ chosen = Nil
      /\ row \in Rows \cup {Nil} /\ written \in BOOLEAN
    BY NilApart DEF ApplyTitle, AppParts, Unopposed, Titles
<1>2. /\ applying' = Nil /\ name' = title
      /\ echoes' = Append(echoes, title) /\ expected' = Expecting(expected, title)
      /\ IndexSession(w, title, written)
      /\ UNCHANGED <<serviceVars, generation, service, started, live, prompted, written, deferred,
                     pending, submitted, reading, changes, chosen, unheard>>
    BY DEF ApplyTitle
<1>3. w \in Rows \cup {Nil}
    BY <1>1, IndexFacts
<1>4. row' \in Rows \cup {Nil} /\ sidebar' \in Names \cup {Nil}
    <2> HIDE DEF w, title
    <2>1. QED
        BY <1>1, <1>2, <1>3, IndexFacts DEF IndexSession
<1>5. /\ echoes' \in Seq(Names) /\ expected' \in Seq(Names) /\ Len(expected') <= MaxExpected
    BY <1>1, <1>2, ExpectingFacts DEF AppParts
<1>6. ServiceInv' /\ WaitedIsUnderWay'
    BY <1>2, CalmKeeps DEF serviceVars, WaitedIsUnderWay
<1>7. AppParts'
    <2> HIDE DEF w, title
    <2>1. QED
        BY <1>1, <1>2, <1>4, <1>5 DEF AppParts
<1>8. Quiet' /\ Unopposed' /\ Reported'
    BY <1>1, <1>2 DEF Quiet, Unopposed, Reported
<1>9. QED
    BY <1>6, <1>7, <1>8

LEMMA TitleRefusedKeeps ==
    ASSUME TitlesAssumption, TitlesInv, TitleRefused
    PROVE  TitlesInv'
<1> USE DEF TitlesInv
<1>1. ServiceInv' /\ WaitedIsUnderWay'
    BY CalmKeeps DEF TitleRefused, serviceVars, WaitedIsUnderWay
<1>2. AppParts' /\ Quiet' /\ Unopposed' /\ Reported'
    BY DEF TitleRefused, AppParts, Quiet, Unopposed, Reported
<1>3. QED
    BY <1>1, <1>2

\* What a cancel of the session's requests leaves cannot replace a name.
LEMMA PathCancelled ==
    ASSUME TitlesAssumption, TitlesInv, CancelForPath, UNCHANGED <<generation, started, submitted, live>>
    PROVE  /\ ServiceInv' /\ WaitedIsUnderWay' /\ AsksOK'
           /\ \A r \in Requests : pending'[r] # Nil =>
                pending'[r] = pending[r] /\ pending'[r].target # Stored /\ pending'[r].target # live
<1> DEFINE old == {r \in Requests : OfSession(r)}
<1>1. Cancel(old) /\ old \in SUBSET Requests
    BY DEF CancelForPath
<1> HIDE DEF old
<1>2. /\ ServiceInv' /\ WaitedIsUnderWay' /\ AsksOK'
      /\ \A r \in Requests : pending'[r] = IF r \in old THEN Nil ELSE pending[r]
    BY <1>1, CancelKeeps DEF TitlesInv
<1>3. \A r \in Requests : r \notin old /\ pending[r] # Nil =>
          pending[r].target # Stored /\ pending[r].target # live
    BY DEF old, OfSession
<1>4. QED
    BY <1>2, <1>3

\* A name of the user: nothing is left that could replace it, and the store has it.
LEMMA RenameKeeps ==
    ASSUME TitlesAssumption, TitlesInv, NEW n \in UserNames, Rename(n)
    PROVE  TitlesInv'
<1> USE DEF TitlesInv
<1>1. /\ applying = Nil /\ n \in Names /\ n # Nil
      /\ changes' = changes + 1 /\ changes < MaxChanges
      /\ CancelForPath
      /\ deferred' = IF deferred = live THEN Nil ELSE deferred
      /\ expected' = IF live = Nil THEN expected ELSE <<n>>
      /\ name' = n /\ chosen' = n /\ unheard' = FALSE
      /\ echoes' = IF live = Nil THEN echoes ELSE Append(echoes, n)
      /\ UNCHANGED <<generation, service, started, live, prompted, written, submitted, applying,
                     reading>>
    BY NilApart DEF Rename, Ready, Changed
<1>2. row' = WithManual(Saved(row, n, written), n) /\ sidebar' = Shown(Saved(row, n, written))
    BY DEF Rename
<1>3. /\ ServiceInv' /\ WaitedIsUnderWay' /\ AsksOK'
      /\ \A r \in Requests : pending'[r] # Nil =>
           pending'[r].target # Stored /\ pending'[r].target # live
    BY <1>1, PathCancelled
<1>4. /\ row' \in Rows \cup {Nil} /\ sidebar' \in Names \cup {Nil}
      /\ row' # Nil => row'.manual = n
    <2>1. row \in Rows \cup {Nil} /\ written \in BOOLEAN
        BY DEF AppParts
    <2>2. Saved(row, n, written) \in Rows \cup {Nil}
        BY <1>1, <2>1, IndexFacts
    <2>3. QED
        BY <1>1, <1>2, <2>1, <2>2, IndexFacts
<1>5. /\ expected' \in Seq(Names) /\ Len(expected') <= MaxExpected
    <2>1. expected \in Seq(Names) /\ Len(expected) <= MaxExpected
        BY DEF AppParts
    <2>2. <<n>> \in Seq(Names) /\ Len(<<n>>) = 1 /\ 1 <= MaxExpected
        BY <1>1, NilApart
    <2>3. QED
        BY <1>1, <2>1, <2>2
<1>6. /\ echoes' \in Seq(Names) /\ (echoes' # <<>> => echoes'[Len(echoes')] = n)
    <2>1. echoes \in Seq(Names)
        BY DEF AppParts
    <2>2. CASE live = Nil
        BY <1>1, <2>1, <2>2 DEF Quiet
    <2>3. CASE live # Nil
        BY <1>1, <2>1, <2>3
    <2>4. QED
        BY <2>2, <2>3
<1>7. changes' \in 0 .. MaxChanges /\ deferred' \in (1 .. started) \cup {Nil}
    BY <1>1, NilApart DEF AppParts
<1>8. AppParts'
    BY <1>1, <1>3, <1>4, <1>5, <1>6, <1>7 DEF AppParts, AsksOK
<1>9. Quiet'
    BY <1>1 DEF Quiet
<1>10. Unopposed'
    BY <1>1, <1>3 DEF Unopposed
<1>11. Reported'
    BY <1>1, <1>4, <1>6 DEF Reported
<1>12. QED
    BY <1>3, <1>8, <1>9, <1>10, <1>11

LEMMA RenameRefusedKeeps ==
    ASSUME TitlesAssumption, TitlesInv, RenameRefused
    PROVE  TitlesInv'
<1> USE DEF TitlesInv
<1>1. /\ live # Nil /\ CancelForPath /\ expected' = <<>>
      /\ deferred' \in {deferred, Nil}
      /\ UNCHANGED <<generation, service, started, live, prompted, written, name, row, sidebar,
                     echoes, submitted, applying, reading, changes, chosen, unheard>>
    BY DEF RenameRefused
<1>2. /\ ServiceInv' /\ WaitedIsUnderWay' /\ AsksOK'
      /\ \A r \in Requests : pending'[r] # Nil =>
           pending'[r].target # Stored /\ pending'[r].target # live
    BY <1>1, PathCancelled
<1>3. expected' \in Seq(Names) /\ Len(expected') <= MaxExpected
    BY <1>1, NilApart
<1>4. AppParts'
    BY <1>1, <1>2, <1>3 DEF AppParts, AsksOK
<1>5. Quiet' /\ Unopposed' /\ Reported'
    BY <1>1, <1>2, MembersEmpty DEF Quiet, Unopposed, Reported
<1>6. QED
    BY <1>2, <1>4, <1>5

LEMMA RenameInPiKeeps ==
    ASSUME TitlesAssumption, TitlesInv, NEW n \in UserNames, RenameInPi(n)
    PROVE  TitlesInv'
<1> USE DEF TitlesInv
<1>1. /\ live # Nil /\ changes' = changes + 1 /\ changes < MaxChanges
      /\ name' = n /\ echoes' = Append(echoes, n) /\ chosen' = Nil
      /\ UNCHANGED <<serviceVars, generation, service, started, live, prompted, written, row,
                     sidebar, expected, deferred, pending, submitted, applying, reading, unheard>>
    BY DEF RenameInPi, Changed
<1>2. ServiceInv' /\ WaitedIsUnderWay'
    BY <1>1, CalmKeeps DEF serviceVars, WaitedIsUnderWay
<1>3. n \in Names /\ echoes' \in Seq(Names) /\ changes' \in 0 .. MaxChanges
    BY <1>1, NilApart DEF AppParts
<1>4. AppParts'
    BY <1>1, <1>3 DEF AppParts
<1>5. Quiet' /\ Unopposed' /\ Reported'
    BY <1>1 DEF Quiet, Unopposed, Reported
<1>6. QED
    BY <1>2, <1>4, <1>5

\* Pi reports a name.  The last report is of the name the user gave last, and is taken for what it
\* is: given by hand, if an older one came in between.
LEMMA HearNameKeeps ==
    ASSUME TitlesAssumption, TitlesInv, HearName
    PROVE  TitlesInv'
<1> USE DEF TitlesInv
<1> DEFINE n == Head(echoes)
<1>1. /\ echoes # <<>> /\ echoes \in Seq(Names) /\ echoes' = Tail(echoes)
      /\ row \in Rows \cup {Nil} /\ written \in BOOLEAN /\ sidebar \in Names \cup {Nil}
      /\ expected \in Seq(Names) /\ Len(expected) <= MaxExpected
      /\ UNCHANGED <<generation, service, started, live, prompted, written, name, submitted,
                     applying, reading, changes, chosen, unheard>>
    BY DEF HearName, AppParts
<1>2. /\ n \in Names /\ n = echoes[1] /\ echoes' \in Seq(Names)
      /\ Len(echoes) \in Nat \ {0} /\ Len(echoes') = Len(echoes) - 1
      /\ \A i \in 1 .. Len(echoes) - 1 : echoes'[i] = echoes[i + 1]
    BY <1>1, HeadTailProperties
<1>3. live # Nil
    BY <1>1 DEF Quiet
<1>4. chosen # Nil =>
        /\ echoes' = <<>> => n = chosen
        /\ echoes' # <<>> => echoes'[Len(echoes')] = chosen
    <2>1. chosen # Nil => echoes[Len(echoes)] = chosen
        BY <1>1 DEF Reported
    <2>2. CASE echoes' = <<>>
        <3>1. Len(echoes) = 1
            BY <1>2, <2>2
        <3>2. QED
            BY <1>2, <2>1, <2>2, <3>1
    <2>3. CASE echoes' # <<>>
        <3>1. Len(echoes') \in Nat \ {0}
            BY <1>2, <2>3
        <3>2. echoes'[Len(echoes')] = echoes[Len(echoes)]
            BY <1>2, <3>1
        <3>3. QED
            BY <2>1, <2>3, <3>2
    <2>4. QED
        BY <2>2, <2>3
<1> HIDE DEF n
<1>a. n \in Names /\ written \in BOOLEAN
    BY <1>1, <1>2
<1>b. row \in Rows \cup {Nil}
    BY <1>1
<1>5. CASE n \notin ToSet(expected) /\ sidebar # n
    <2>1. /\ CancelOfProcess /\ expected' = <<>> /\ deferred' \in {deferred, Nil}
          /\ IndexSession(WithManual(row, n), n, written)
        BY <1>5 DEF HearName, n
    <2>2. /\ ServiceInv' /\ WaitedIsUnderWay' /\ AsksOK'
          /\ \A r \in Requests : pending'[r] \in {Nil, pending[r]}
        <3> DEFINE rs == {r \in Requests : pending[r] # Nil /\ pending[r].target = live}
        <3>1. Cancel(rs) /\ rs \in SUBSET Requests
            BY <2>1 DEF CancelOfProcess
        <3> HIDE DEF rs
        <3>2. QED
            BY <1>1, <3>1, CancelKeeps
    <2> DEFINE w == WithManual(row, n)
    <2>3. /\ w \in Rows \cup {Nil} /\ (w # Nil => w.manual = n)
          /\ row' = Saved(w, n, written) /\ sidebar' = Shown(Saved(w, n, written))
        BY <1>1, <1>2, <2>1, IndexFacts DEF IndexSession
    <2> HIDE DEF w
    <2>4. /\ row' \in Rows \cup {Nil} /\ sidebar' \in Names \cup {Nil}
          /\ row' # Nil => /\ row'.title = n
                           /\ row'.manual = n \/ (row'.manual = Nil /\ row'.ai = Nil)
                           /\ sidebar' = Shown(row')
        <3>1. /\ Saved(w, n, written) \in Rows \cup {Nil}
              /\ Saved(w, n, written) # Nil =>
                    /\ Saved(w, n, written).title = n
                    /\ w # Nil => Saved(w, n, written).manual = w.manual
                    /\ w = Nil => Saved(w, n, written).manual = Nil /\ Saved(w, n, written).ai = Nil
            BY <1>a, <2>3, IndexFacts
        <3>2. row' \in Rows \cup {Nil} /\ sidebar' = Shown(row')
            BY <2>3, <3>1
        <3>3. Shown(row') \in Names \cup {Nil}
            BY <1>1, <1>2, <3>2, IndexFacts
        <3>4. row' # Nil => row'.title = n /\ (row'.manual = n \/ (row'.manual = Nil /\ row'.ai = Nil))
            BY <2>3, <3>1
        <3>5. QED
            BY <3>2, <3>3, <3>4
    <2>5. expected' \in Seq(Names) /\ Len(expected') <= MaxExpected /\ ToSet(expected') = {}
        BY <2>1, NilApart, MembersEmpty
    <2>6. AppParts'
        BY <1>1, <1>2, <2>1, <2>2, <2>4, <2>5 DEF AppParts, AsksOK
    <2>7. Quiet' /\ Unopposed'
        BY <1>1, <1>3, <2>1, <2>2 DEF Quiet, Unopposed
    <2>8. Reported'
        <3>1. SUFFICES ASSUME chosen # Nil, row' # Nil, row'.manual # chosen
                       PROVE  \/ row'.manual = Nil /\ row'.ai = Nil /\ (row'.title = chosen \/ echoes' # <<>>)
                              \/ /\ row'.manual # Nil /\ echoes' # <<>>
                                 /\ chosen \notin ToSet(expected') /\ sidebar' = row'.manual
            BY <1>1, <1>4 DEF Reported
        <3>2. CASE row'.manual = Nil /\ row'.ai = Nil
            BY <1>4, <2>4, <3>1, <3>2
        <3>3. CASE row'.manual = n
            <4>1. n # chosen /\ n # Nil
                BY <1>2, <3>1, <3>3, NilApart
            <4>2. echoes' # <<>>
                BY <1>4, <3>1, <4>1
            <4>3. sidebar' = n
                BY <2>4, <3>1, <3>3, <4>1 DEF Shown
            <4>4. QED
                BY <2>5, <3>3, <4>1, <4>2, <4>3
        <3>4. QED
            BY <2>4, <3>1, <3>2, <3>3
    <2>9. QED
        BY <2>2, <2>6, <2>7, <2>8
<1>6. CASE ~(n \notin ToSet(expected) /\ sidebar # n)
    <2>1. /\ expected' = RemoveFirst(expected, n) /\ IndexSession(row, n, written)
          /\ UNCHANGED <<serviceVars, pending, deferred>>
        BY <1>6 DEF HearName, n
    <2>2. /\ expected' \in Seq(Names) /\ Len(expected') <= Len(expected)
          /\ Len(expected') \in Nat /\ Len(expected) \in Nat
          /\ ToSet(expected') \subseteq ToSet(expected)
        BY <1>1, <2>1, RemoveFacts
    <2>3. /\ row' \in Rows \cup {Nil} /\ sidebar' = Shown(row') /\ sidebar' \in Names \cup {Nil}
          /\ row' # Nil => /\ row'.title = n
                           /\ row # Nil => row'.manual = row.manual /\ row'.ai = row.ai
                           /\ row = Nil => row'.manual = Nil /\ row'.ai = Nil
        <3>1. row' = Saved(row, n, written) /\ sidebar' = Shown(row')
            BY <2>1 DEF IndexSession
        <3>2. /\ Saved(row, n, written) \in Rows \cup {Nil}
              /\ Saved(row, n, written) # Nil =>
                    /\ Saved(row, n, written).title = n
                    /\ row # Nil => /\ Saved(row, n, written).manual = row.manual
                                    /\ Saved(row, n, written).ai = row.ai
                    /\ row = Nil => Saved(row, n, written).manual = Nil /\ Saved(row, n, written).ai = Nil
            BY <1>a, <1>b, IndexFacts
        <3>3. row' \in Rows \cup {Nil}
            BY <3>1, <3>2
        <3>4. Shown(row') \in Names \cup {Nil}
            BY <1>1, <1>2, <3>3, IndexFacts
        <3>5. QED
            BY <3>1, <3>2, <3>3, <3>4
    <2>4. ServiceInv' /\ WaitedIsUnderWay'
        BY <1>1, <2>1, CalmKeeps DEF serviceVars, WaitedIsUnderWay
    <2>5. AppParts'
        <3>1. Len(expected') <= MaxExpected
            BY <1>1, <2>2, NilApart
        <3>2. QED
            BY <1>1, <1>2, <2>1, <2>2, <2>3, <3>1 DEF AppParts
    <2>6. Quiet' /\ Unopposed'
        BY <1>1, <1>3, <2>1 DEF Quiet, Unopposed
    <2>7. Reported'
        <3>1. SUFFICES ASSUME chosen # Nil, row' # Nil, ~unheard, row'.manual # chosen
                       PROVE  \/ row'.manual = Nil /\ row'.ai = Nil /\ (row'.title = chosen \/ echoes' # <<>>)
                              \/ /\ row'.manual # Nil /\ echoes' # <<>>
                                 /\ chosen \notin ToSet(expected') /\ sidebar' = row'.manual
            BY <1>1, <1>4 DEF Reported
        <3>2. CASE row = Nil \/ (row.manual = Nil /\ row.ai = Nil)
            BY <1>4, <2>3, <3>1, <3>2
        <3>3. CASE row # Nil /\ ~(row.manual = Nil /\ row.ai = Nil)
            <4>1. /\ row.manual # Nil /\ chosen \notin ToSet(expected) /\ sidebar = row.manual
                  /\ row.manual # chosen
                BY <1>1, <2>3, <3>1, <3>3 DEF Reported
            <4>2. n # chosen
                BY <1>6, <4>1
            <4>3. echoes' # <<>>
                BY <1>4, <3>1, <4>2
            <4>4. row'.manual = row.manual /\ sidebar' = row.manual
                BY <2>3, <3>1, <3>3, <4>1 DEF Shown
            <4>5. QED
                BY <2>2, <4>1, <4>3, <4>4
        <3>4. QED
            BY <3>2, <3>3
    <2>8. QED
        BY <2>4, <2>5, <2>6, <2>7
<1>7. QED
    BY <1>5, <1>6

LEMMA SyncSessionFileKeeps ==
    ASSUME TitlesAssumption, TitlesInv, SyncSessionFile
    PROVE  TitlesInv'
<1> USE DEF TitlesInv
<1> DEFINE n == IF name = Nil THEN Preview ELSE name
<1>1. /\ live # Nil /\ n \in Names /\ IndexSession(row, n, written)
      /\ row \in Rows \cup {Nil} /\ written \in BOOLEAN
      /\ UNCHANGED <<serviceVars, generation, service, started, live, prompted, written, name,
                     echoes, expected, deferred, pending, submitted, applying, reading, changes,
                     chosen, unheard>>
    BY NilApart DEF SyncSessionFile, AppParts
<1>2. chosen # Nil => n = chosen
    BY DEF Unopposed
<1> HIDE DEF n
<1>3. /\ row' \in Rows \cup {Nil} /\ sidebar' = Shown(row') /\ sidebar' \in Names \cup {Nil}
      /\ row' # Nil => /\ row'.title = n
                       /\ row # Nil => row'.manual = row.manual /\ row'.ai = row.ai
                       /\ row = Nil => row'.manual = Nil /\ row'.ai = Nil
    <2>1. row' = Saved(row, n, written) /\ sidebar' = Shown(row')
        BY <1>1 DEF IndexSession
    <2>2. n \in Names /\ written \in BOOLEAN /\ row \in Rows \cup {Nil}
        BY <1>1
    <2>3. /\ Saved(row, n, written) \in Rows \cup {Nil}
          /\ Saved(row, n, written) # Nil =>
                /\ Saved(row, n, written).title = n
                /\ row # Nil => /\ Saved(row, n, written).manual = row.manual
                                /\ Saved(row, n, written).ai = row.ai
                /\ row = Nil => Saved(row, n, written).manual = Nil /\ Saved(row, n, written).ai = Nil
        BY <2>2, IndexFacts
    <2>4. row' \in Rows \cup {Nil}
        BY <2>1, <2>3
    <2>5. Shown(row') \in Names \cup {Nil}
        BY <2>2, <2>4, IndexFacts
    <2>6. QED
        BY <2>1, <2>3, <2>4, <2>5
<1>4. ServiceInv' /\ WaitedIsUnderWay'
    BY <1>1, CalmKeeps DEF serviceVars, WaitedIsUnderWay
<1>5. AppParts'
    BY <1>1, <1>3 DEF AppParts
<1>6. Quiet' /\ Unopposed'
    BY <1>1 DEF Quiet, Unopposed
<1>7. Reported'
    BY <1>1, <1>2, <1>3 DEF Reported, Shown
<1>8. QED
    BY <1>4, <1>5, <1>6, <1>7

\* The process ends: what it had to report is lost.
LEMMA EndedKeeps ==
    ASSUME TitlesAssumption, TitlesInv, Exit \/ Forgotten
    PROVE  TitlesInv'
<1> USE DEF TitlesInv
<1>1. /\ applying = Nil
      /\ changes' = changes + 1 /\ changes < MaxChanges
      /\ live' = Nil /\ echoes' = <<>> /\ expected' = <<>> /\ unheard' = (unheard \/ echoes # <<>>)
      /\ deferred' \in {deferred, Nil}
      /\ UNCHANGED <<generation, service, started, prompted, written, name, row, sidebar,
                     submitted, applying, reading, chosen>>
    BY DEF Exit, Forgotten, Ended, Changed, Ready
<1>2. /\ ServiceInv' /\ WaitedIsUnderWay' /\ AsksOK'
      /\ \A r \in Requests : pending'[r] \in {Nil, pending[r]}
    <2>1. CASE Exit
        <3> DEFINE rs == {r \in Requests : pending[r] # Nil /\ pending[r].target = live}
        <3>1. Cancel(rs) /\ rs \in SUBSET Requests
            BY <2>1 DEF Exit, CancelOfProcess
        <3> HIDE DEF rs
        <3>2. QED
            BY <1>1, <3>1, CancelKeeps
    <2>2. CASE Forgotten
        <3>1. UNCHANGED <<serviceVars, pending>>
            BY <2>2 DEF Forgotten
        <3>2. QED
            BY <1>1, <3>1, CalmKeeps DEF serviceVars, WaitedIsUnderWay, AppParts, AsksOK
    <2>3. QED
        BY <2>1, <2>2
<1>3. /\ changes' \in 0 .. MaxChanges /\ expected' \in Seq(Names) /\ Len(expected') <= MaxExpected
      /\ echoes' \in Seq(Names) /\ unheard' \in BOOLEAN
    BY <1>1, NilApart DEF AppParts
<1>4. AppParts'
    BY <1>1, <1>2, <1>3 DEF AppParts, AsksOK
<1>5. Quiet'
    BY <1>1 DEF Quiet
<1>6. Unopposed'
    <2>1. \A r \in Requests : pending[r] # Nil => pending[r].target # Nil
        BY NilApart DEF AppParts, Asks
    <2>2. QED
        BY <1>1, <1>2, <2>1 DEF Unopposed
<1>7. Reported'
    BY <1>1 DEF Reported
<1>8. QED
    BY <1>2, <1>4, <1>5, <1>6, <1>7

\* A name that is reported and not looked at changes nothing that is promised.
LEMMA HearNameUnreadKeeps ==
    ASSUME TitlesAssumption, TitlesInv, HearNameUnread
    PROVE  TitlesInv'
<1> USE DEF TitlesInv
<1>1. /\ echoes # <<>> /\ echoes \in Seq(Names) /\ echoes' = Tail(echoes)
      /\ expected \in Seq(Names) /\ Len(expected) <= MaxExpected
      /\ expected' = RemoveFirst(expected, Head(echoes)) /\ unheard' = (unheard \/ chosen # Nil)
      /\ UNCHANGED <<serviceVars, generation, service, started, live, prompted, written, name, row,
                     sidebar, deferred, pending, submitted, applying, reading, changes, chosen>>
    BY DEF HearNameUnread, AppParts
<1>2. ServiceInv' /\ WaitedIsUnderWay'
    BY <1>1, CalmKeeps DEF serviceVars, WaitedIsUnderWay
<1>3. /\ echoes' \in Seq(Names)
      /\ expected' \in Seq(Names) /\ Len(expected') <= MaxExpected
    <2>1. /\ expected' \in Seq(Names) /\ Len(expected') <= Len(expected)
          /\ Len(expected') \in Nat /\ Len(expected) \in Nat
        BY <1>1, RemoveFacts
    <2>2. QED
        BY <1>1, <2>1, NilApart
<1>4. AppParts'
    BY <1>1, <1>3 DEF AppParts, AsksOK
<1>5. live # Nil
    BY <1>1 DEF Quiet
<1>6. Quiet' /\ Unopposed'
    BY <1>1, <1>5 DEF Quiet, Unopposed
<1>7. chosen # Nil /\ echoes' # <<>> => echoes'[Len(echoes')] = chosen
    <2> SUFFICES ASSUME chosen # Nil, echoes' # <<>> PROVE echoes'[Len(echoes')] = chosen
        OBVIOUS
    <2>1. /\ Len(echoes') \in Nat \ {0} /\ Len(echoes') = Len(echoes) - 1
          /\ \A i \in 1 .. Len(echoes) - 1 : echoes'[i] = echoes[i + 1]
        BY <1>1, <1>3, HeadTailProperties
    <2>2. echoes'[Len(echoes')] = echoes[Len(echoes)]
        BY <2>1
    <2>3. QED
        BY <1>1, <2>2 DEF Reported
<1>8. Reported'
    BY <1>1, <1>7 DEF Reported
<1>9. QED
    BY <1>2, <1>4, <1>6, <1>8

\* The service's own steps, and the application's mark.
LEMMA ServiceSteps ==
    ASSUME TitlesAssumption, TitlesInv, MarkCancelled \/ \E w \in Workers : Working(w)
    PROVE  TitlesInv'
<1> USE DEF TitlesInv
<1>1. UNCHANGED appVars
    BY DEF MarkCancelled, Working
<1>2. AppParts' /\ Quiet' /\ Unopposed' /\ Reported'
    BY <1>1 DEF appVars, AppParts, Quiet, Unopposed, Reported
<1>3. ServiceInv' /\ WaitedIsUnderWay'
    <2>1. CASE MarkCancelled
        <3>1. /\ cancelled' = [cancelled EXCEPT ![generation] = @ \cup cancelling]
              /\ cancelling' = {} /\ UNCHANGED <<slots, queue, admitted, work, answers>>
            BY <2>1 DEF MarkCancelled, Mark
        <3>2. /\ cancelled' \in [Services -> SUBSET Requests] /\ cancelling' \subseteq Requests
              /\ answers' \in Seq(Answers)
            BY <3>1 DEF ServiceInv, ServiceTypeOK, Answers, AppParts
        <3>3. QED
            BY <1>1, <3>1, <3>2, OthersKeep, NilApart DEF appVars, WaitedIsUnderWay
    <2>2. CASE \E w \in Workers : Working(w)
        <3>1. PICK w \in Workers, g \in Services : PoolSteps(g, w)
            BY <2>2 DEF Working
        <3>2. QED
            BY <1>1, <3>1, PoolKeeps, PoolUnderWay, NilApart
    <2>3. QED
        BY <2>1, <2>2
<1>4. QED
    BY <1>2, <1>3

LEMMA TitlesStepInv ==
    ASSUME TitlesAssumption, TitlesInv, [TitlesNext]_titlesVars
    PROVE  TitlesInv'
<1>1. CASE UNCHANGED titlesVars
    <2>1. UNCHANGED <<serviceVars, appVars>>
        BY <1>1 DEF titlesVars
    <2>2. ServiceInv' /\ WaitedIsUnderWay'
        BY <2>1, CalmKeeps DEF TitlesInv, serviceVars, appVars, WaitedIsUnderWay
    <2>3. AppParts' /\ Quiet' /\ Unopposed' /\ Reported'
        BY <2>1 DEF TitlesInv, appVars, AppParts, Quiet, Unopposed, Reported
    <2>4. QED
        BY <2>2, <2>3 DEF TitlesInv
<1>2. CASE FirstPromptRefused \/ NotResolved \/ AskSmart \/ PiWrites \/ Launch
    BY <1>2, AsideKeeps
<1>3. CASE FirstPrompt \/ Rebuild \/ Install \/ StartSmart
    BY <1>3, FirstPromptKeeps, RebuildKeeps, InstallKeeps, StartSmartKeeps
<1>4. CASE Settle \/ ApplyTitle \/ TitleRefused
    BY <1>4, SettleKeeps, ApplyTitleKeeps, TitleRefusedKeeps
<1>5. ASSUME NEW n \in UserNames, Rename(n) \/ RenameInPi(n) PROVE TitlesInv'
    BY <1>5, RenameKeeps, RenameInPiKeeps
<1>6. CASE RenameRefused \/ HearName \/ HearNameUnread \/ SyncSessionFile \/ Exit \/ Forgotten
    BY <1>6, RenameRefusedKeeps, HearNameKeeps, HearNameUnreadKeeps, SyncSessionFileKeeps, EndedKeeps
<1>7. CASE MarkCancelled \/ \E w \in Workers : Working(w)
    BY <1>7, ServiceSteps
<1>8. QED
    BY <1>1, <1>2, <1>3, <1>4, <1>5, <1>6, <1>7 DEF TitlesNext

\* The inductive invariant of SessionTitles holds at every step.
THEOREM TitlesInvariant ==
    ASSUME TitlesAssumption
    PROVE  TitlesSpec => []TitlesInv
<1>1. TitlesInit => TitlesInv
    BY TitlesInitInv
<1>2. TitlesInv /\ [TitlesNext]_titlesVars => TitlesInv'
    BY TitlesStepInv
<1>3. QED
    BY <1>1, <1>2, PTL DEF TitlesSpec

\* The service and the application are in a state of their kind: no slot is lost or given twice, and
\* requests are waited for at the settings and processes they were made for.
THEOREM TitlesTypes ==
    ASSUME TitlesAssumption
    PROVE  TitlesSpec => []TitlesTypeOK
<1>1. TitlesInv => TitlesTypeOK
    BY DEF TitlesInv, ServiceInv, AppParts, TitlesTypeOK
<1>2. QED
    BY <1>1, TitlesInvariant, PTL

\* Whoever waits for a title will be answered: it is in the channel, at a worker or on its way,
\* however requests are cancelled, refused and given up, and settings change.
THEOREM TitlesUnderWay ==
    ASSUME TitlesAssumption
    PROVE  TitlesSpec => []WaitedIsUnderWay
<1>1. TitlesInv => WaitedIsUnderWay
    BY DEF TitlesInv
<1>2. QED
    BY <1>1, TitlesInvariant, PTL

\* A name the user gave stays the name of the session, in Pi at once and in the store when Pi has
\* reported all names, whatever titles, cancellations and reports were under way.
THEOREM TitlesChosenStands ==
    ASSUME TitlesAssumption
    PROVE  TitlesSpec => []ChosenStands
<1>1. ASSUME TitlesAssumption PROVE TitlesInv => ChosenStands
    <2> SUFFICES ASSUME TitlesInv, chosen # Nil
                 PROVE  /\ name = chosen
                        /\ row # Nil /\ ~unheard /\ echoes = <<>> => Shown(row) = chosen
        BY DEF ChosenStands
    <2>1. name = chosen
        BY DEF TitlesInv, Unopposed
    <2>2. row # Nil /\ ~unheard /\ echoes = <<>> =>
              row.manual = chosen \/ (row.manual = Nil /\ row.ai = Nil /\ row.title = chosen)
        BY DEF TitlesInv, Reported
    <2>3. QED
        BY <2>1, <2>2 DEF Shown
<1>2. QED
    BY <1>1, TitlesInvariant, PTL
=============================================================================
