------------------------------ MODULE AgentTeam ------------------------------
(***************************************************************************)
(* The lifecycle of one supervised agent team: pi-whim-agent-team's lib.rs *)
(* (spawn_agent, wait_agent, interrupt_agent, reset_team, stop),           *)
(* routing.rs (validate_child) and process.rs (launch_child, its monitor   *)
(* thread, finish_agent).                                                  *)
(*                                                                         *)
(* TeamState is one mutex with one condition variable; every access to it  *)
(* that the code makes under one lock is one step here, and whatever it    *)
(* does between two locks (the launch hook, starting a process, waiting    *)
(* for an exit) lets every other thread run.  Agent ids and capabilities   *)
(* are fresh random UUIDs, so an id is used for one child only, and an     *)
(* agent's capability is the agent.                                        *)
(***************************************************************************)
EXTENDS Naturals, FiniteSets

CONSTANTS
    Agents,         \* ids that spawn_agent may give to children
    Root,           \* the level-0 agent
    MaxDepth,       \* AgentTeamConfig::max_depth
    MaxPerLevel,    \* AgentTeamConfig::max_agents_per_level
    ResetBound      \* bound on the number of team resets explored

ASSUME TeamAssumption ==
    /\ Root \notin Agents
    /\ IsFiniteSet(Agents)
    /\ MaxDepth \in Nat
    /\ MaxPerLevel \in Nat
    /\ ResetBound \in Nat

VARIABLES
    \* TeamState
    actors,      \* ids in the actors map
    parent,      \* parent[a]: the descriptor's parent_id (also of a request under way)
    level,       \* level[a]
    status,      \* status[a]: the last status a's descriptor had, "unborn" before
    capability,  \* agents whose capability the supervisor accepts
    controls,    \* agents with a control sender in the map
    \* threads and processes
    spawn,       \* spawn[a]: the spawn_agent call that creates a
    process,     \* process[a]: the pi process of a
    monitor,     \* monitor[a]: the monitor thread of a
    interrupt,   \* interrupt[a]: the Interrupt command to a's monitor
    stage,       \* the supervisor: serving, or stopped
    resets       \* number of resets so far (a bound, not in the code)

vars == <<actors, parent, level, status, capability, controls, spawn, process,
          monitor, interrupt, stage, resets>>

Ids == Agents \cup {Root}
Levels == 0 .. MaxDepth

Active == {"starting", "running"}
Terminal == {"completed", "failed", "interrupted"}
Statuses == Active \cup Terminal \cup {"unborn"}

IsActive(a) == a \in actors /\ status[a] \in Active

\* Agents in the map from which parent links of agents in the map lead to r.  The chain
\* of parents is no longer than the deepest level.
Descends(a, r) ==
    LET up[n \in Levels] ==
            IF n = 0 THEN {a} \cap actors
            ELSE {parent[x] : x \in (up[n - 1] \cap actors) \ {Root}}
    IN  \E n \in Levels \ {0} : r \in up[n]

Subtree(r) == {a \in actors : a = r \/ Descends(a, r)}
SubtreeActive(r) == \E a \in Subtree(r) : IsActive(a)

\* control.send(Interrupt) to each of S: the monitor may still be listening or not.
Tell(S) == interrupt' = [a \in Agents |->
                           IF a \in S /\ interrupt[a] = "none" THEN "sent" ELSE interrupt[a]]

Init ==
    /\ actors = {Root}
    /\ parent = [a \in Agents |-> Root]
    /\ level = [a \in Ids |-> 0]
    /\ status = [a \in Ids |-> IF a = Root THEN "running" ELSE "unborn"]
    /\ capability = {Root}
    /\ controls = {}
    /\ spawn = [a \in Agents |-> "none"]
    /\ process = [a \in Agents |-> "none"]
    /\ monitor = [a \in Agents |-> "none"]
    /\ interrupt = [a \in Agents |-> "none"]
    /\ stage = "serving"
    /\ resets = 0

teamState == <<actors, parent, level, status, capability, controls>>

\* A live caller: the root's RPC process, or the process of an agent.
MayCall(p) ==
    /\ stage = "serving"
    /\ p \in capability
    /\ IsActive(p)
    /\ p # Root => process[p] = "alive"

-----------------------------------------------------------------------------
(* spawn_agent: dispatch, reserve_child, the launch gate, launch_child *)

\* The dispatcher has accepted p's call: its capability is known and p is active.
RequestSpawn(a, p) ==
    /\ MayCall(p)
    /\ spawn[a] = "none"
    /\ spawn' = [spawn EXCEPT ![a] = "requested"]
    /\ parent' = [parent EXCEPT ![a] = p]
    /\ UNCHANGED <<actors, level, status, capability, controls, process, monitor,
                   interrupt, stage, resets>>

\* validate_child: depth and the capacity of the child's level.
ActiveAt(n) == {b \in actors : level[b] = n /\ status[b] \in Active}

\* Mutants of ChildAllowed: a child that is still starting takes no place; no depth test.
ChildAllowedCountsRunning(p) ==
    /\ p \in actors
    /\ level[p] + 1 <= MaxDepth
    /\ Cardinality({b \in ActiveAt(level[p] + 1) : status[b] = "running"}) < MaxPerLevel
ChildAllowedAtAnyDepth(p) ==
    /\ p \in actors
    /\ Cardinality(ActiveAt(level[p] + 1)) < MaxPerLevel

ChildAllowed(p) ==
    /\ p \in actors
    /\ level[p] + 1 <= MaxDepth
    /\ Cardinality(ActiveAt(level[p] + 1)) < MaxPerLevel

\* reserve_child: under one lock the child is checked and entered.  The name check,
\* which depends on data left out here, may refuse any child.
Reserve(a) ==
    LET p == parent[a] IN
    /\ spawn[a] = "requested"
    /\ ChildAllowed(p)
    /\ actors' = actors \cup {a}
    /\ level' = [level EXCEPT ![a] = level[p] + 1]
    /\ status' = [status EXCEPT ![a] = "starting"]
    /\ capability' = capability \cup {a}
    /\ spawn' = [spawn EXCEPT ![a] = "reserved"]
    /\ UNCHANGED <<parent, controls, process, monitor, interrupt, stage, resets>>

RefuseChild(a) ==
    /\ spawn[a] = "requested"
    /\ spawn' = [spawn EXCEPT ![a] = "done"]
    /\ UNCHANGED <<teamState, process, monitor, interrupt, stage, resets>>

\* file_actor: the reserved agent is looked up again before the launch gate.
LookUp(a) ==
    /\ spawn[a] = "reserved"
    /\ spawn' = [spawn EXCEPT ![a] = IF a \in actors THEN "launching" ELSE "done"]
    /\ UNCHANGED <<teamState, process, monitor, interrupt, stage, resets>>

\* Mutant of StartProcess: the agent is shown as running as soon as its process exists.
StartProcessShowsRunning(a) ==
    /\ spawn[a] = "launching"
    /\ spawn' = [spawn EXCEPT ![a] = "started"]
    /\ process' = [process EXCEPT ![a] = "alive"]
    /\ status' = [status EXCEPT ![a] = IF a \in actors THEN "running" ELSE @]
    /\ UNCHANGED <<actors, parent, level, capability, controls, monitor, interrupt, stage, resets>>

\* The gate allowed the launch and the process was started.
StartProcess(a) ==
    /\ spawn[a] = "launching"
    /\ spawn' = [spawn EXCEPT ![a] = "started"]
    /\ process' = [process EXCEPT ![a] = "alive"]
    /\ UNCHANGED <<teamState, monitor, interrupt, stage, resets>>

\* The gate denied the launch, or launch_child failed: both end the same way.
FailLaunch(a) ==
    /\ spawn[a] = "launching"
    /\ spawn' = [spawn EXCEPT ![a] = "done"]
    /\ status' = [status EXCEPT ![a] = IF a \in actors THEN "failed" ELSE @]
    /\ UNCHANGED <<actors, parent, level, capability, controls, process, monitor,
                   interrupt, stage, resets>>

\* Mutant of Register: it does not ask whether the agent is still in the map.
RegisterUnasked(a) ==
    /\ spawn[a] = "started"
    /\ spawn' = [spawn EXCEPT ![a] = "done"]
    /\ controls' = controls \cup {a}
    /\ status' = [status EXCEPT ![a] = "running"]
    /\ monitor' = [monitor EXCEPT ![a] = "watching"]
    /\ UNCHANGED <<actors, parent, level, capability, process, interrupt, stage, resets>>

\* The end of launch_child: the control sender is stored, whether or not the agent is
\* still in the map, and the monitor thread starts.
Register(a) ==
    /\ spawn[a] = "started"
    /\ spawn' = [spawn EXCEPT ![a] = "done"]
    /\ controls' = controls \cup {a}
    /\ status' = [status EXCEPT ![a] = IF a \in actors THEN "running" ELSE @]
    /\ monitor' = [monitor EXCEPT ![a] = "watching"]
    /\ UNCHANGED <<actors, parent, level, capability, process, interrupt, stage, resets>>

-----------------------------------------------------------------------------
(* The process and its monitor thread *)

\* pi exits: its task is done, it fails, or SIGTERM ends it.
ProcessExits(a) ==
    /\ process[a] = "alive"
    /\ process' = [process EXCEPT ![a] = "exited"]
    /\ UNCHANGED <<teamState, spawn, monitor, interrupt, stage, resets>>

\* recv_timeout returns Interrupt: SIGTERM, and a deadline for SIGKILL.
TakeInterrupt(a) ==
    /\ monitor[a] = "watching"
    /\ interrupt[a] = "sent"
    /\ interrupt' = [interrupt EXCEPT ![a] = "taken"]
    /\ UNCHANGED <<teamState, spawn, process, monitor, stage, resets>>

\* Mutant of ForceKill: the deadline is never armed.
ForceKillNever(a) == FALSE /\ UNCHANGED vars

\* The deadline has passed: SIGKILL.
ForceKill(a) ==
    /\ monitor[a] = "watching"
    /\ interrupt[a] = "taken"
    /\ process[a] = "alive"
    /\ process' = [process EXCEPT ![a] = "exited"]
    /\ UNCHANGED <<teamState, spawn, monitor, interrupt, stage, resets>>

\* try_wait sees the exit; the loop ends and later commands are not received.  Nor are they when
\* try_wait fails, which it does for a child that is gone: the status is then unknown, no more.
ObserveExit(a) ==
    /\ monitor[a] = "watching"
    /\ process[a] = "exited"
    /\ monitor' = [monitor EXCEPT ![a] = "reaping"]
    /\ UNCHANGED <<teamState, spawn, process, interrupt, stage, resets>>

Interrupted(a) == interrupt[a] = "taken"

\* capabilities.retain: what is left when the monitor of a finishes.  Its mutant forgets.
CapabilitiesWithoutForgotten(a) == capability
CapabilitiesWithout(a) == capability \ {a}

\* finish_agent: the agent's entries go, its status becomes final, and an interrupted
\* agent takes its descendants with it.
FinishAgent(a) ==
    /\ monitor[a] = "reaping"
    /\ monitor' = [monitor EXCEPT ![a] = "finished"]
    /\ controls' = controls \ {a}
    /\ capability' = CapabilitiesWithout(a)
    /\ \E outcome \in IF Interrupted(a) THEN {"interrupted"} ELSE {"completed", "failed"} :
          status' = [status EXCEPT ![a] = IF a \in actors THEN outcome ELSE @]
    /\ IF Interrupted(a)
       THEN Tell({b \in controls \ {a} : b \in actors /\ Descends(b, a)})
       ELSE UNCHANGED interrupt
    /\ UNCHANGED <<actors, parent, level, spawn, process, stage, resets>>

-----------------------------------------------------------------------------
(* interrupt_agent, reset_team, stop *)

\* interrupt_agent: an owner interrupts the subtree of its child c; an error, and
\* nothing sent, if no agent of the subtree has a control.
InterruptAgent(p, c) ==
    LET targets == Subtree(c) IN
    /\ MayCall(p)
    /\ c \in actors \ {Root} /\ parent[c] = p
    /\ targets \cap controls # {}
    /\ Tell(targets \cap controls)
    /\ UNCHANGED <<teamState, spawn, process, monitor, stage, resets>>

\* reset_team, called by the root's extension when its session changes.
ResetTeam ==
    /\ stage = "serving"
    /\ resets < ResetBound
    /\ Tell(controls)
    /\ status' = [a \in Ids |-> IF a # Root /\ IsActive(a) THEN "interrupted" ELSE status[a]]
    /\ actors' = {Root}
    /\ capability' = {Root}
    /\ controls' = {}
    /\ resets' = resets + 1
    /\ UNCHANGED <<parent, level, spawn, process, monitor, stage>>

\* stop: everyone with a control is told.  What is left of stop, waiting until the map
\* of controls is empty or five seconds have passed, changes nothing.
StopTeam ==
    /\ stage = "serving"
    /\ Tell(controls)
    /\ stage' = "stopped"
    /\ UNCHANGED <<teamState, spawn, process, monitor, resets>>

-----------------------------------------------------------------------------

LaunchStep(a) ==
    Reserve(a) \/ RefuseChild(a) \/ LookUp(a) \/ StartProcess(a) \/ FailLaunch(a) \/ Register(a)

MonitorStep(a) == TakeInterrupt(a) \/ ForceKill(a) \/ ObserveExit(a) \/ FinishAgent(a)

Next ==
    \/ \E a \in Agents, p \in Ids :
          RequestSpawn(a, p) \/ InterruptAgent(p, a)
    \/ \E a \in Agents : LaunchStep(a) \/ ProcessExits(a) \/ MonitorStep(a)
    \/ ResetTeam
    \/ StopTeam

Spec == Init /\ [][Next]_vars

\* Request threads and monitor threads keep running (the hosting process lives on after
\* stop).  A process need not exit by itself and nobody has to call a tool.
Fairness ==
    \A a \in Agents : WF_vars(LaunchStep(a)) /\ WF_vars(MonitorStep(a))

FairSpec == Spec /\ Fairness

-----------------------------------------------------------------------------
(* Properties *)

TypeOK ==
    /\ actors \subseteq Ids /\ Root \in actors
    /\ parent \in [Agents -> Ids]
    /\ level \in [Ids -> Levels]
    /\ status \in [Ids -> Statuses]
    /\ capability \subseteq Ids
    /\ controls \subseteq Agents
    /\ spawn \in [Agents -> {"none", "requested", "reserved", "launching", "started", "done"}]
    /\ process \in [Agents -> {"none", "alive", "exited"}]
    /\ monitor \in [Agents -> {"none", "watching", "reaping", "finished"}]
    /\ interrupt \in [Agents -> {"none", "sent", "taken"}]
    /\ stage \in {"serving", "stopped"}
    /\ resets \in 0 .. ResetBound

\* However many spawns, failures and exits overlap, a level never has more active
\* agents than the configured maximum, and none lies below the configured depth
\* ("concurrent creation cannot exceed a limit", docs/agent-teams.md).
LevelCapacity ==
    \A n \in Levels \ {0} : Cardinality(ActiveAt(n)) <= MaxPerLevel

\* A capability outlives neither its agent's place in the team nor its monitored run:
\* one that is accepted belongs to the root, to an active agent, or to an agent whose
\* process was never started.
CapabilityDies ==
    \A a \in capability \ {Root} :
        a \in actors /\ (IsActive(a) \/ process[a] = "none")

\* Every agent the team shows as running can be interrupted, and every control in the
\* map reaches a monitor that has not yet finished.
RunningReachable ==
    /\ \A a \in actors \ {Root} : status[a] = "running" => a \in controls
    /\ \A a \in controls : monitor[a] \in {"watching", "reaping"}

\* A final status is final: no late launch, exit or interrupt brings an agent back or
\* rewrites how it ended.
TerminalIsFinal ==
    [][\A a \in Agents : status[a] \in Terminal => status'[a] = status[a]]_vars

\* An interrupt that reached a control ends the process and settles the agent.
InterruptEnds ==
    \A a \in Agents :
        (interrupt[a] = "sent") ~> (process[a] = "exited" /\ monitor[a] = "finished")

=============================================================================
