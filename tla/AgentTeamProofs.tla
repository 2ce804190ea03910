-------------------------- MODULE AgentTeamProofs --------------------------
(***************************************************************************)
(* TLAPS proofs about AgentTeam for any finite set of agent ids, any depth *)
(* and any capacity of a level.                                            *)
(*                                                                         *)
(* CapabilityDies and RunningReachable look at one agent's entries in the  *)
(* team's maps; what keeps them true is how those entries follow the       *)
(* threads that work for the agent, its launch and then its monitor.  That *)
(* is Lifecycle, the inductive invariant.  TerminalIsFinal is then a       *)
(* property of each action, and LevelCapacity needs only that the id a     *)
(* launch enters is new.                                                   *)
(***************************************************************************)
EXTENDS AgentTeam, FiniteSetTheorems, TLAPS

NotStarted == {"none", "requested"}
Launching == {"reserved", "launching", "started"}
Watched == {"watching", "reaping"}

\* Before its reservation an agent is nowhere.
UnbornIsNowhere(a) ==
    spawn[a] \in NotStarted =>
        /\ status[a] = "unborn" /\ process[a] = "none" /\ monitor[a] = "none"
        /\ a \notin actors /\ a \notin controls /\ a \notin capability

\* During its launch it has no monitor; in the team it is starting.
LaunchIsStarting(a) ==
    spawn[a] \in Launching =>
        /\ monitor[a] = "none" /\ a \notin controls
        /\ a \in actors => status[a] = "starting"
        /\ spawn[a] = "started" <=> process[a] # "none"

\* While it is watched its launch is over; in the team it is running and reachable.
WatchedIsRunning(a) ==
    /\ monitor[a] \in Watched =>
          /\ spawn[a] = "done"
          /\ a \in actors => status[a] = "running" /\ a \in controls
    /\ a \in controls => monitor[a] \in Watched

\* After that, or when it never had a process, it is not active.
SettledIsInactive(a) ==
    /\ (spawn[a] = "done" /\ monitor[a] \notin Watched) => status[a] \notin Active
    /\ (spawn[a] = "done" /\ monitor[a] = "none") => process[a] = "none"
    /\ monitor[a] = "finished" => spawn[a] = "done" /\ a \notin capability

\* Who is out of the team has no capability and is not active.
OutsideIsNobody(a) ==
    a \notin actors => a \notin capability /\ status[a] \notin Active

AgentLifecycle(a) ==
    /\ UnbornIsNowhere(a)
    /\ LaunchIsStarting(a)
    /\ WatchedIsRunning(a)
    /\ SettledIsInactive(a)
    /\ OutsideIsNobody(a)

Lifecycle == \A a \in Agents : AgentLifecycle(a)

TeamInv == TypeOK /\ Lifecycle

-----------------------------------------------------------------------------
(* Types *)

LEMMA TellType ==
    ASSUME NEW S, Tell(S), interrupt \in [Agents -> {"none", "sent", "taken"}]
    PROVE  interrupt' \in [Agents -> {"none", "sent", "taken"}]
BY DEF Tell

LEMMA TeamInitInv == Init => TeamInv
<1> SUFFICES ASSUME Init PROVE TeamInv
    OBVIOUS
<1>1. TypeOK
    BY TeamAssumption DEF Init, TypeOK, Ids, Levels, Statuses, Active, Terminal
<1>2. Lifecycle
    <2> SUFFICES ASSUME NEW a \in Agents PROVE AgentLifecycle(a)
        BY DEF Lifecycle
    <2>1. a # Root /\ a \in Ids
        BY TeamAssumption DEF Ids
    <2>2. /\ spawn[a] = "none" /\ status[a] = "unborn" /\ process[a] = "none"
          /\ monitor[a] = "none" /\ a \notin actors /\ a \notin capability /\ a \notin controls
        BY <2>1 DEF Init
    <2>3. QED
        BY <2>2 DEF AgentLifecycle, UnbornIsNowhere, LaunchIsStarting, WatchedIsRunning,
           SettledIsInactive, OutsideIsNobody, NotStarted, Launching, Watched, Active
<1>3. QED
    BY <1>1, <1>2 DEF TeamInv

\* A child lies one level below its parent, and the check keeps that within the depth.
LEMMA ChildLevel ==
    ASSUME TypeOK, NEW p, ChildAllowed(p)
    PROVE  p \in Ids /\ level[p] + 1 \in Levels
<1>1. p \in Ids /\ level[p] \in Levels
    BY DEF ChildAllowed, TypeOK
<1>2. QED
    BY <1>1, TeamAssumption DEF ChildAllowed, Levels

LEMMA StepTypeOK ==
    ASSUME TypeOK, [Next]_vars
    PROVE  TypeOK'
<1> USE DEF TypeOK
<1>1. ASSUME NEW a \in Agents, NEW p \in Ids, RequestSpawn(a, p) PROVE TypeOK'
    BY <1>1 DEF RequestSpawn
<1>2. ASSUME NEW a \in Agents, NEW p \in Ids, InterruptAgent(p, a) PROVE TypeOK'
    BY <1>2, TellType DEF InterruptAgent, teamState
<1>3. ASSUME NEW a \in Agents, Reserve(a) PROVE TypeOK'
    <2>1. level[parent[a]] + 1 \in Levels
        BY <1>3, ChildLevel DEF Reserve
    <2>2. QED
        BY <1>3, <2>1 DEF Reserve, Ids, Statuses, Active
<1>4. ASSUME NEW a \in Agents, RefuseChild(a) \/ LookUp(a) \/ StartProcess(a) PROVE TypeOK'
    BY <1>4 DEF RefuseChild, LookUp, StartProcess, teamState
<1>5. ASSUME NEW a \in Agents, FailLaunch(a) \/ Register(a) PROVE TypeOK'
    BY <1>5 DEF FailLaunch, Register, Ids, Statuses, Active, Terminal
<1>6. ASSUME NEW a \in Agents,
             ProcessExits(a) \/ TakeInterrupt(a) \/ ForceKill(a) \/ ObserveExit(a)
      PROVE  TypeOK'
    BY <1>6 DEF ProcessExits, TakeInterrupt, ForceKill, ObserveExit, teamState
<1>7. ASSUME NEW a \in Agents, FinishAgent(a) PROVE TypeOK'
    <2>1. interrupt' \in [Agents -> {"none", "sent", "taken"}]
        BY <1>7, TellType DEF FinishAgent
    <2>2. status' \in [Ids -> Statuses]
        BY <1>7 DEF FinishAgent, Statuses, Terminal
    <2>3. controls' \subseteq Agents /\ capability' \subseteq Ids
        BY <1>7 DEF FinishAgent, CapabilitiesWithout
    <2>4. QED
        BY <1>7, <2>1, <2>2, <2>3 DEF FinishAgent
<1>8. CASE ResetTeam
    <2>1. interrupt' \in [Agents -> {"none", "sent", "taken"}]
        BY <1>8, TellType DEF ResetTeam
    <2>2. status' \in [Ids -> Statuses]
        BY <1>8 DEF ResetTeam, Statuses, Terminal
    <2>3. resets' \in 0 .. ResetBound
        BY <1>8, TeamAssumption DEF ResetTeam
    <2>4. QED
        BY <1>8, <2>1, <2>2, <2>3 DEF ResetTeam, Ids
<1>9. CASE StopTeam
    BY <1>9, TellType DEF StopTeam, teamState
<1>10. CASE UNCHANGED vars
    BY <1>10 DEF vars
<1>11. QED
    BY <1>1, <1>2, <1>3, <1>4, <1>5, <1>6, <1>7, <1>8, <1>9, <1>10
       DEF Next, LaunchStep, MonitorStep

-----------------------------------------------------------------------------
(* Lifecycle *)

\* An agent whose entries a step leaves alone keeps its lifecycle facts.
LEMMA EntriesUntouched ==
    ASSUME NEW b, AgentLifecycle(b),
           spawn'[b] = spawn[b], status'[b] = status[b], process'[b] = process[b],
           monitor'[b] = monitor[b], b \in actors' <=> b \in actors,
           b \in capability' <=> b \in capability, b \in controls' <=> b \in controls
    PROVE  AgentLifecycle(b)'
BY DEF AgentLifecycle, UnbornIsNowhere, LaunchIsStarting, WatchedIsRunning,
       SettledIsInactive, OutsideIsNobody

LEMMA StepLifecycle ==
    ASSUME TeamInv, [Next]_vars
    PROVE  Lifecycle'
<1> SUFFICES ASSUME NEW b \in Agents PROVE AgentLifecycle(b)'
    BY DEF Lifecycle
<1>0. TypeOK /\ Lifecycle /\ AgentLifecycle(b) /\ b # Root /\ b \in Ids
    BY TeamAssumption DEF TeamInv, Lifecycle, Ids
<1> USE DEF TypeOK
<1>1. ASSUME NEW a \in Agents, NEW p \in Ids, RequestSpawn(a, p) PROVE AgentLifecycle(b)'
    <2>1. CASE a = b
        BY <1>0, <1>1, <2>1 DEF RequestSpawn, AgentLifecycle, UnbornIsNowhere, LaunchIsStarting,
           WatchedIsRunning, SettledIsInactive, OutsideIsNobody, NotStarted, Launching, Watched
    <2>2. CASE a # b
        BY <1>0, <1>1, <2>2, EntriesUntouched DEF RequestSpawn
    <2>3. QED
        BY <2>1, <2>2
<1>2. ASSUME NEW a \in Agents, NEW p \in Ids, InterruptAgent(p, a) PROVE AgentLifecycle(b)'
    BY <1>0, <1>2, EntriesUntouched DEF InterruptAgent, teamState
<1>3. ASSUME NEW a \in Agents, LaunchStep(a) PROVE AgentLifecycle(b)'
    <2>1. CASE a = b
        <3> USE DEF AgentLifecycle, UnbornIsNowhere, LaunchIsStarting, WatchedIsRunning,
                    SettledIsInactive, OutsideIsNobody, NotStarted, Launching, Watched, Active
        <3>1. CASE Reserve(a)
            BY <1>0, <2>1, <3>1 DEF Reserve
        <3>2. CASE RefuseChild(a)
            BY <1>0, <2>1, <3>2 DEF RefuseChild, teamState
        <3>3. CASE LookUp(a)
            BY <1>0, <2>1, <3>3 DEF LookUp, teamState
        <3>4. CASE StartProcess(a)
            BY <1>0, <2>1, <3>4 DEF StartProcess, teamState
        <3>5. CASE FailLaunch(a)
            BY <1>0, <2>1, <3>5 DEF FailLaunch
        <3>6. CASE Register(a)
            BY <1>0, <2>1, <3>6 DEF Register
        <3>7. QED
            BY <1>3, <3>1, <3>2, <3>3, <3>4, <3>5, <3>6 DEF LaunchStep
    <2>2. CASE a # b
        BY <1>0, <1>3, <2>2, EntriesUntouched
           DEF LaunchStep, Reserve, RefuseChild, LookUp, StartProcess, FailLaunch, Register, teamState
    <2>3. QED
        BY <2>1, <2>2
<1>4. ASSUME NEW a \in Agents, ProcessExits(a) \/ MonitorStep(a) PROVE AgentLifecycle(b)'
    <2>1. CASE a = b
        <3> USE DEF AgentLifecycle, UnbornIsNowhere, LaunchIsStarting, WatchedIsRunning,
                    SettledIsInactive, OutsideIsNobody, NotStarted, Launching, Watched, Active
        <3>1. CASE ProcessExits(a) \/ ForceKill(a)
            BY <1>0, <2>1, <3>1 DEF ProcessExits, ForceKill, teamState
        <3>2. CASE TakeInterrupt(a) \/ ObserveExit(a)
            BY <1>0, <2>1, <3>2 DEF TakeInterrupt, ObserveExit, teamState
        <3>3. CASE FinishAgent(a)
            <4>1. /\ b \notin controls' /\ b \notin capability'
                  /\ monitor'[b] = "finished" /\ monitor[b] = "reaping"
                  /\ UNCHANGED <<actors, spawn, process>>
                BY <1>0, <2>1, <3>3 DEF FinishAgent, CapabilitiesWithout
            <4>2. b \in actors => status'[b] \notin Active
                BY <1>0, <2>1, <3>3 DEF FinishAgent
            <4>3. b \notin actors => status'[b] = status[b]
                BY <1>0, <2>1, <3>3 DEF FinishAgent
            <4>4. QED
                BY <1>0, <4>1, <4>2, <4>3
        <3>4. QED
            BY <1>4, <3>1, <3>2, <3>3 DEF MonitorStep
    <2>2. CASE a # b
        <3>1. CASE FinishAgent(a)
            BY <1>0, <2>2, <3>1, EntriesUntouched DEF FinishAgent, CapabilitiesWithout
        <3>2. CASE ~FinishAgent(a)
            BY <1>0, <1>4, <2>2, <3>2, EntriesUntouched
               DEF MonitorStep, ProcessExits, ForceKill, TakeInterrupt, ObserveExit, teamState
        <3>3. QED
            BY <3>1, <3>2
    <2>3. QED
        BY <2>1, <2>2
<1>5. CASE ResetTeam
    <2>1. /\ b \notin actors' /\ b \notin capability' /\ b \notin controls'
          /\ status'[b] = IF b \in actors /\ status[b] \in Active THEN "interrupted" ELSE status[b]
          /\ UNCHANGED <<spawn, process, monitor>>
        BY <1>0, <1>5 DEF ResetTeam, IsActive
    <2>2. QED
        BY <1>0, <2>1 DEF AgentLifecycle, UnbornIsNowhere, LaunchIsStarting, WatchedIsRunning,
           SettledIsInactive, OutsideIsNobody, NotStarted, Launching, Watched, Active
<1>6. CASE StopTeam
    BY <1>0, <1>6, EntriesUntouched DEF StopTeam, teamState
<1>7. CASE UNCHANGED vars
    BY <1>0, <1>7, EntriesUntouched DEF vars
<1>8. QED
    BY <1>1, <1>2, <1>3, <1>4, <1>5, <1>6, <1>7 DEF Next

LEMMA TeamStepInv ==
    ASSUME TeamInv, [Next]_vars
    PROVE  TeamInv'
BY StepTypeOK, StepLifecycle DEF TeamInv

-----------------------------------------------------------------------------
(* What Lifecycle implies of the team, and of its steps *)

LEMMA LifecycleCapability == TeamInv => CapabilityDies
<1> SUFFICES ASSUME TeamInv, NEW a \in capability \ {Root}
             PROVE  a \in actors /\ (IsActive(a) \/ process[a] = "none")
    BY DEF CapabilityDies
<1>1. a \in Agents /\ AgentLifecycle(a)
    BY DEF TeamInv, TypeOK, Lifecycle, Ids
<1>2. a \in actors /\ spawn[a] \notin NotStarted /\ monitor[a] # "finished"
    BY <1>1 DEF AgentLifecycle, UnbornIsNowhere, SettledIsInactive, OutsideIsNobody
<1>3. CASE spawn[a] \in Launching
    BY <1>1, <1>2, <1>3 DEF AgentLifecycle, LaunchIsStarting, IsActive, Active
<1>4. CASE spawn[a] = "done"
    <2>1. monitor[a] \in Watched \cup {"none"}
        BY <1>1, <1>2 DEF TeamInv, TypeOK, Watched
    <2>2. QED
        BY <1>1, <1>2, <1>4, <2>1 DEF AgentLifecycle, WatchedIsRunning, SettledIsInactive,
           IsActive, Active
<1>5. QED
    BY <1>1, <1>2, <1>3, <1>4 DEF TeamInv, TypeOK, NotStarted, Launching

LEMMA LifecycleReachable == TeamInv => RunningReachable
<1> SUFFICES ASSUME TeamInv PROVE RunningReachable
    OBVIOUS
<1>1. ASSUME NEW a \in actors \ {Root}, status[a] = "running" PROVE a \in controls
    <2>1. a \in Agents /\ AgentLifecycle(a)
        BY DEF TeamInv, TypeOK, Lifecycle, Ids
    <2>2. spawn[a] = "done" /\ monitor[a] \in Watched
        BY <1>1, <2>1 DEF TeamInv, TypeOK, AgentLifecycle, UnbornIsNowhere, LaunchIsStarting,
           SettledIsInactive, NotStarted, Launching, Active
    <2>3. QED
        BY <2>1, <2>2 DEF AgentLifecycle, WatchedIsRunning
<1>2. ASSUME NEW a \in controls PROVE monitor[a] \in Watched
    <2>1. a \in Agents /\ AgentLifecycle(a)
        BY DEF TeamInv, TypeOK, Lifecycle
    <2>2. QED
        BY <2>1 DEF AgentLifecycle, WatchedIsRunning
<1>3. QED
    BY <1>1, <1>2 DEF RunningReachable, Watched

\* No step changes a final status: a launch finds its agent starting or gone, and a
\* monitor finishes an agent that runs or is gone.
LEMMA StepKeepsTerminal ==
    ASSUME TeamInv, [Next]_vars, NEW b \in Agents, status[b] \in Terminal
    PROVE  status'[b] = status[b]
<1>0. AgentLifecycle(b) /\ TypeOK /\ b \in Ids
    BY DEF TeamInv, Lifecycle, Ids
<1>1. /\ spawn[b] \notin NotStarted
      /\ b \in actors => spawn[b] \notin Launching /\ monitor[b] \notin Watched
    BY <1>0 DEF AgentLifecycle, UnbornIsNowhere, LaunchIsStarting, WatchedIsRunning, Terminal
<1>2. ASSUME NEW a \in Agents, LaunchStep(a) PROVE status'[b] = status[b]
    BY <1>0, <1>1, <1>2 DEF LaunchStep, Reserve, RefuseChild, LookUp, StartProcess, FailLaunch,
       Register, teamState, TypeOK, NotStarted, Launching
<1>3. ASSUME NEW a \in Agents, ProcessExits(a) \/ MonitorStep(a) PROVE status'[b] = status[b]
    <2>1. CASE FinishAgent(a)
        BY <1>0, <1>1, <2>1 DEF FinishAgent, TypeOK, Watched
    <2>2. CASE ~FinishAgent(a)
        BY <1>3, <2>2 DEF MonitorStep, ProcessExits, TakeInterrupt, ForceKill, ObserveExit, teamState
    <2>3. QED
        BY <2>1, <2>2
<1>4. CASE ResetTeam
    BY <1>0, <1>4 DEF ResetTeam, IsActive, Active, Terminal
<1>5. ASSUME NEW a \in Agents, NEW p \in Ids, RequestSpawn(a, p) \/ InterruptAgent(p, a)
      PROVE  status'[b] = status[b]
    BY <1>5 DEF RequestSpawn, InterruptAgent, teamState
<1>6. CASE StopTeam \/ UNCHANGED vars
    BY <1>6 DEF StopTeam, teamState, vars
<1>7. QED
    BY <1>2, <1>3, <1>4, <1>5, <1>6 DEF Next

-----------------------------------------------------------------------------
(* LevelCapacity *)

LEMMA ActiveAtFinite ==
    ASSUME TypeOK, NEW n
    PROVE  IsFiniteSet(ActiveAt(n))
<1>1. IsFiniteSet(Ids)
    BY TeamAssumption, FS_AddElement DEF Ids
<1>2. ActiveAt(n) \subseteq Ids
    BY DEF ActiveAt, TypeOK
<1>3. QED
    BY <1>1, <1>2, FS_Subset

\* Only reserve_child makes a level busier.
LEMMA OthersDoNotFill ==
    ASSUME TeamInv, [Next]_vars, NEW n, ~ \E a \in Agents : Reserve(a)
    PROVE  ActiveAt(n)' \subseteq ActiveAt(n)
<1> SUFFICES ASSUME NEW b, b \in actors', level'[b] = n, status'[b] \in Active
             PROVE  b \in actors /\ level[b] = n /\ status[b] \in Active
    BY DEF ActiveAt
<1> USE DEF TeamInv, TypeOK
<1>1. ASSUME NEW a \in Agents, LaunchStep(a)
      PROVE  b \in actors /\ level[b] = n /\ status[b] \in Active
    <2>1. CASE Register(a)
        <3>1. b = a => status[b] = "starting"
            BY <2>1 DEF Register, Lifecycle, AgentLifecycle, LaunchIsStarting, Launching
        <3>2. QED
            BY <2>1, <3>1 DEF Register, Active
    <2>2. CASE FailLaunch(a)
        BY <2>2 DEF FailLaunch, Active, Ids
    <2>3. CASE RefuseChild(a) \/ LookUp(a) \/ StartProcess(a)
        BY <2>3 DEF RefuseChild, LookUp, StartProcess, teamState
    <2>4. QED
        BY <1>1, <2>1, <2>2, <2>3 DEF LaunchStep
<1>2. ASSUME NEW a \in Agents, ProcessExits(a) \/ MonitorStep(a)
      PROVE  b \in actors /\ level[b] = n /\ status[b] \in Active
    <2>1. CASE FinishAgent(a)
        BY <2>1 DEF FinishAgent, Active, Ids
    <2>2. CASE ~FinishAgent(a)
        BY <1>2, <2>2 DEF MonitorStep, ProcessExits, TakeInterrupt, ForceKill, ObserveExit, teamState
    <2>3. QED
        BY <2>1, <2>2
<1>3. CASE ResetTeam
    BY <1>3 DEF ResetTeam, IsActive, Active, Ids
<1>4. ASSUME NEW a \in Agents, NEW p \in Ids, RequestSpawn(a, p) \/ InterruptAgent(p, a)
      PROVE  b \in actors /\ level[b] = n /\ status[b] \in Active
    BY <1>4 DEF RequestSpawn, InterruptAgent, teamState
<1>5. CASE StopTeam \/ UNCHANGED vars
    BY <1>5 DEF StopTeam, teamState, vars
<1>6. QED
    BY <1>1, <1>2, <1>3, <1>4, <1>5 DEF Next

\* reserve_child adds one agent, to a level it found with room.
LEMMA ReserveFillsOne ==
    ASSUME TeamInv, NEW a \in Agents, Reserve(a), NEW n \in Levels,
           Cardinality(ActiveAt(n)) <= MaxPerLevel
    PROVE  Cardinality(ActiveAt(n)') <= MaxPerLevel
<1> USE DEF TeamInv
<1>1. a \notin actors /\ a \in Ids
    BY DEF Reserve, Lifecycle, AgentLifecycle, UnbornIsNowhere, NotStarted, Ids
<1>2. \A b \in actors : level'[b] = level[b] /\ status'[b] = status[b]
    BY <1>1 DEF Reserve, TypeOK
<1>3. /\ actors' = actors \cup {a} /\ level'[a] = level[parent[a]] + 1
      /\ status'[a] \in Active
    BY <1>1 DEF Reserve, TypeOK, Active
<1>4. IsFiniteSet(ActiveAt(n)) /\ Cardinality(ActiveAt(n)) \in Nat
    BY ActiveAtFinite, FS_CardinalityType
<1>5. CASE n = level[parent[a]] + 1
    <2>1. ActiveAt(n)' = ActiveAt(n) \cup {a} /\ a \notin ActiveAt(n)
        BY <1>1, <1>2, <1>3, <1>5 DEF ActiveAt
    <2>2. Cardinality(ActiveAt(n)') = Cardinality(ActiveAt(n)) + 1
        BY <1>4, <2>1, FS_AddElement
    <2>3. Cardinality(ActiveAt(n)) < MaxPerLevel
        BY <1>5 DEF Reserve, ChildAllowed
    <2>4. QED
        BY <1>4, <2>2, <2>3, TeamAssumption
<1>6. CASE n # level[parent[a]] + 1
    <2>1. ActiveAt(n)' = ActiveAt(n)
        BY <1>1, <1>2, <1>3, <1>6 DEF ActiveAt
    <2>2. QED
        BY <2>1
<1>7. QED
    BY <1>5, <1>6

LEMMA StepCapacity ==
    ASSUME TeamInv, LevelCapacity, [Next]_vars
    PROVE  LevelCapacity'
<1> SUFFICES ASSUME NEW n \in Levels \ {0}
             PROVE  Cardinality(ActiveAt(n)') <= MaxPerLevel
    BY DEF LevelCapacity
<1>1. /\ Cardinality(ActiveAt(n)) <= MaxPerLevel
      /\ IsFiniteSet(ActiveAt(n)) /\ Cardinality(ActiveAt(n)) \in Nat
    BY ActiveAtFinite, FS_CardinalityType DEF LevelCapacity, TeamInv
<1>2. CASE \E a \in Agents : Reserve(a)
    BY <1>1, <1>2, ReserveFillsOne
<1>3. CASE ~ \E a \in Agents : Reserve(a)
    <2>1. ActiveAt(n)' \subseteq ActiveAt(n)
        BY <1>3, OthersDoNotFill
    <2>2. /\ Cardinality(ActiveAt(n)') <= Cardinality(ActiveAt(n))
          /\ Cardinality(ActiveAt(n)') \in Nat
        BY <1>1, <2>1, FS_Subset, FS_CardinalityType
    <2>3. QED
        BY <1>1, <2>2, TeamAssumption
<1>4. QED
    BY <1>2, <1>3

-----------------------------------------------------------------------------
(* The theorems. *)

\* The inductive invariant of the team holds in every behaviour.
THEOREM TeamInvariant == Spec => []TeamInv
<1>1. Init => TeamInv
    BY TeamInitInv
<1>2. TeamInv /\ [Next]_vars => TeamInv'
    BY TeamStepInv
<1>3. QED
    BY <1>1, <1>2, PTL DEF Spec

\* TeamState stays well typed; no agent lies below the configured depth.
THEOREM TeamTypes == Spec => []TypeOK
<1>1. TeamInv => TypeOK
    BY DEF TeamInv
<1>2. QED
    BY <1>1, TeamInvariant, PTL

\* An accepted capability belongs to the root, to an active agent, or to one whose
\* process was never started.
THEOREM TeamCapabilities == Spec => []CapabilityDies
BY LifecycleCapability, TeamInvariant, PTL

\* Every agent shown as running has a control that reaches a live monitor.
THEOREM TeamReachable == Spec => []RunningReachable
BY LifecycleReachable, TeamInvariant, PTL

\* A final status is never rewritten.
THEOREM TeamTerminal == Spec => TerminalIsFinal
<1>1. TeamInv /\ [Next]_vars
        => [\A a \in Agents : status[a] \in Terminal => status'[a] = status[a]]_vars
    BY StepKeepsTerminal
<1>2. QED
    BY <1>1, TeamInvariant, PTL DEF Spec, TerminalIsFinal

\* Concurrent creation cannot exceed the capacity of a level.
THEOREM TeamCapacity == Spec => []LevelCapacity
<1>1. Init => LevelCapacity
    <2> SUFFICES ASSUME Init, NEW n \in Levels \ {0}
                 PROVE  Cardinality(ActiveAt(n)) <= MaxPerLevel
        BY DEF LevelCapacity
    <2>1. ActiveAt(n) = {}
        BY DEF Init, ActiveAt, Ids
    <2>2. QED
        BY <2>1, FS_EmptySet, TeamAssumption
<1>2. TeamInv /\ LevelCapacity /\ [Next]_vars => LevelCapacity'
    BY StepCapacity
<1>3. QED
    BY <1>1, <1>2, TeamInvariant, PTL DEF Spec

=============================================================================
