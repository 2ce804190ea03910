--------------------------- MODULE BackgroundJobs ---------------------------
(***************************************************************************)
(* Background processes of one agent team: bash_dispatch.rs of             *)
(* pi-whim-agent-team (execute with background = true, stop, the reaper    *)
(* thread, transfer_owned_to_parent, terminate_all, clear_all) and the     *)
(* places that call it when agents finish, a team is reset or the          *)
(* supervisor stops.                                                       *)
(*                                                                         *)
(* The processes are entries of TeamState.  Starting, terminating and      *)
(* waiting for a child happen outside its mutex, and so do the reads of    *)
(* the clock, which may show the timeout passed at any look.               *)
(***************************************************************************)
EXTENDS Naturals, FiniteSets

CONSTANTS
    Agents,         \* the children of the team
    Root,           \* the level-0 agent
    Parent,         \* Parent[a]: the parent_id of a's descriptor
    Jobs,           \* fresh process ids: a bound on how many are started
    MaxPerAgent,    \* MAX_RUNNING_PER_AGENT
    MaxPerTeam,     \* MAX_RUNNING_PER_TEAM
    MaxHistory,     \* MAX_PROCESS_HISTORY
    ResetBound,     \* bound on the number of team resets explored
    NoOwner

JobsAssumption ==
    /\ Root \notin Agents
    /\ NoOwner \notin Agents \cup {Root}
    /\ Parent \in [Agents -> Agents \cup {Root}]
    /\ IsFiniteSet(Jobs)
    /\ {MaxPerAgent, MaxPerTeam, MaxHistory, ResetBound} \subseteq Nat

VARIABLES
    actors,     \* agents in TeamState's map
    active,     \* those of them whose status is active
    finish,     \* finish[a]: how far the monitor thread of a has come
    entry,      \* entry[j]: the status of its entry, "absent" while there is none
    owner,      \* owner[j]: the entry's owner_id
    bash,       \* bash[j]: the bash call that starts j
    child,      \* child[j]: the process
    reaper,     \* reaper[j]: the reaper thread of j
    killing,    \* jobs that a stop, a reset or a supervisor stop is terminating
    reset,      \* the reset_team call under way: "none", or what it does next
    resets,     \* number of resets so far (a bound, not in the code)
    serving,    \* the supervisor accepts calls
    cleared     \* history: entries that were running when clear_all dropped them

jobsVars == <<actors, active, finish, entry, owner, bash, child, reaper, killing, reset,
              resets, serving, cleared>>
team == <<actors, active, finish, resets, serving>>

People == Agents \cup {Root}
Final == {"completed", "failed", "timed_out", "stopped"}
Entries == {j \in Jobs : entry[j] # "absent"}
Running == {j \in Jobs : entry[j] = "running"}
RunningOf(a) == {j \in Running : owner[j] = a}

\* ensure_actor_active: the call of an active agent whose process is there is accepted.
MayCall(a) ==
    /\ serving
    /\ a \in active
    /\ a # Root => finish[a] = "alive"

JobsInit ==
    /\ actors = People
    /\ active = People
    /\ finish = [a \in Agents |-> "alive"]
    /\ entry = [j \in Jobs |-> "absent"]
    /\ owner = [j \in Jobs |-> NoOwner]
    /\ bash = [j \in Jobs |-> "none"]
    /\ child = [j \in Jobs |-> "none"]
    /\ reaper = [j \in Jobs |-> "none"]
    /\ killing = {}
    /\ reset = "none"
    /\ resets = 0
    /\ serving = TRUE
    /\ cleared = {}

-----------------------------------------------------------------------------
(* execute with background = true *)

\* prune_history: ended processes go when they are too old, or too many are kept.  Which are
\* old enough depends on the clock, so any of the ended ones may be; of the others as many
\* must go as the table holds too many, whichever was started first.
Pruned(st) ==
    LET ended == {j \in Jobs : st[j] \in Final}
        kept(S) == [j \in Jobs |-> IF j \in S THEN "absent" ELSE st[j]]
    IN  {kept(S) : S \in {X \in SUBSET ended :
            \/ Cardinality({j \in Jobs : st[j] # "absent"} \ X) <= MaxHistory
            \/ X = ended}}

\* ensure_background_capacity: the only look at the limits, before anything is started.
HasCapacity(a) ==
    /\ Cardinality(RunningOf(a)) < MaxPerAgent
    /\ Cardinality(Running) < MaxPerTeam

Bash(j, a) ==
    /\ MayCall(a)
    /\ bash[j] = "none"
    /\ HasCapacity(a)
    /\ \E st \in Pruned(entry) : entry' = st
    /\ owner' = [owner EXCEPT ![j] = a]
    /\ bash' = [bash EXCEPT ![j] = "admitted"]
    /\ UNCHANGED <<team, child, reaper, killing, reset, cleared>>

\* spawn_command, which may fail: then j is still fresh.
Spawn(j) ==
    /\ bash[j] = "admitted"
    /\ \/ /\ child' = [child EXCEPT ![j] = "alive"]
          /\ bash' = [bash EXCEPT ![j] = "started"]
          /\ UNCHANGED owner
       \/ /\ bash' = [bash EXCEPT ![j] = "none"]
          /\ owner' = [owner EXCEPT ![j] = NoOwner]
          /\ UNCHANGED child
    /\ UNCHANGED <<team, entry, reaper, killing, reset, cleared>>

\* The entry is made, whatever has become of the caller meanwhile.
Enter(j) ==
    /\ bash[j] = "started"
    /\ \E st \in Pruned(entry) : entry' = [st EXCEPT ![j] = "running"]
    /\ bash' = [bash EXCEPT ![j] = "entered"]
    /\ UNCHANGED <<team, owner, child, reaper, killing, reset, cleared>>

\* start_background_reaper, after the readers have been noted.
Watch(j) ==
    /\ bash[j] = "entered"
    /\ reaper' = [reaper EXCEPT ![j] = "watching"]
    /\ bash' = [bash EXCEPT ![j] = "returned"]
    /\ UNCHANGED <<team, entry, owner, child, killing, reset, cleared>>

-----------------------------------------------------------------------------
(* The child, its reaper, and whoever terminates it *)

ChildExits(j) ==
    /\ child[j] = "alive"
    /\ child' = [child EXCEPT ![j] = "exited"]
    /\ UNCHANGED <<team, entry, owner, bash, reaper, killing, reset, cleared>>

\* The reaper looks at the entry: gone or ended, it has nothing more to do; else it finds the
\* timeout passed, or the child exited.
ReaperLeaves(j) ==
    /\ reaper[j] = "watching"
    /\ entry[j] # "running"
    /\ reaper' = [reaper EXCEPT ![j] = "gone"]
    /\ UNCHANGED <<team, entry, owner, bash, child, killing, reset, cleared>>

ReaperLooks(j) ==
    /\ reaper[j] = "watching"
    /\ entry[j] = "running"
    /\ reaper' = [reaper EXCEPT ![j] = IF child[j] = "exited" THEN "reaped" ELSE @]
    /\ reaper'[j] # reaper[j]
    /\ UNCHANGED <<team, entry, owner, bash, child, killing, reset, cleared>>

TimesOut(j) ==
    /\ reaper[j] = "watching"
    /\ entry[j] = "running"
    /\ reaper' = [reaper EXCEPT ![j] = "terminating"]
    /\ UNCHANGED <<team, entry, owner, bash, child, killing, reset, cleared>>

\* Mutant: SIGTERM is sent and taken to be enough.
ReaperGivesUp(j) ==
    /\ reaper[j] = "terminating"
    /\ reaper' = [reaper EXCEPT ![j] = "timed_out"]
    /\ UNCHANGED <<team, entry, owner, bash, child, killing, reset, cleared>>

\* terminate_child sends SIGTERM, then SIGKILL, and waits for the exit.
ReaperTerminates(j) ==
    /\ reaper[j] = "terminating"
    /\ child' = [child EXCEPT ![j] = "exited"]
    /\ reaper' = [reaper EXCEPT ![j] = "timed_out"]
    /\ UNCHANGED <<team, entry, owner, bash, killing, reset, cleared>>

\* What the reaper reports, from the exit status it saw.
Outcomes(j) == IF reaper[j] = "timed_out" THEN {"timed_out"} ELSE {"completed", "failed"}

\* Mutant: the status is set whatever it has become meanwhile.
ReportsAlways(j) ==
    /\ reaper[j] \in {"reaped", "timed_out"}
    /\ \E s \in Outcomes(j) :
         entry' = IF entry[j] # "absent" THEN [entry EXCEPT ![j] = s] ELSE entry
    /\ reaper' = [reaper EXCEPT ![j] = "gone"]
    /\ UNCHANGED <<team, owner, bash, child, killing, reset, cleared>>

\* set_process_status, after the readers have been joined.
ReaperReports(j) ==
    /\ reaper[j] \in {"reaped", "timed_out"}
    /\ \E s \in Outcomes(j) :
         entry' = IF entry[j] = "running" THEN [entry EXCEPT ![j] = s] ELSE entry
    /\ reaper' = [reaper EXCEPT ![j] = "gone"]
    /\ UNCHANGED <<team, owner, bash, child, killing, reset, cleared>>

\* terminate_shared_child by whoever took the child out of the entry.
Terminate(j) ==
    /\ j \in killing
    /\ child' = [child EXCEPT ![j] = IF @ = "alive" THEN "exited" ELSE @]
    /\ killing' = killing \ {j}
    /\ UNCHANGED <<team, entry, owner, bash, reaper, reset, cleared>>

-----------------------------------------------------------------------------
(* stop_process and list_processes, read_process or a prompt context *)

\* Mutant: the child is forgotten.
StopForgets(j, a) ==
    /\ MayCall(a)
    /\ entry[j] # "absent"
    /\ owner[j] = a
    /\ entry' = [entry EXCEPT ![j] = "stopped"]
    /\ UNCHANGED <<team, owner, bash, child, reaper, killing, reset, cleared>>

\* Of its owner only; an ended process is shown as stopped, too.
StopProcess(j, a) ==
    /\ MayCall(a)
    /\ entry[j] # "absent"
    /\ owner[j] = a
    /\ entry' = [entry EXCEPT ![j] = "stopped"]
    /\ killing' = IF entry[j] = "running" THEN killing \cup {j} ELSE killing
    /\ UNCHANGED <<team, owner, bash, child, reaper, reset, cleared>>

\* reap_finished at the head of every look at the processes.
Look ==
    /\ \E a \in People : MayCall(a)
    /\ \E st \in Pruned(entry) : entry' = st
    /\ UNCHANGED <<team, owner, bash, child, reaper, killing, reset, cleared>>

-----------------------------------------------------------------------------
(* Agents end; the team is reset; the supervisor stops *)

\* The process of a has ended.  transfer_owned_to_parent, if both are still in the map; the
\* parent is not asked whether it is active.
Transfer(a) ==
    /\ finish[a] = "alive"
    /\ finish' = [finish EXCEPT ![a] = "transferred"]
    /\ owner' = [j \in Jobs |-> IF {a, Parent[a]} \subseteq actors /\ j \in RunningOf(a)
                                THEN Parent[a] ELSE owner[j]]
    /\ UNCHANGED <<actors, active, entry, bash, child, reaper, killing, reset, resets,
                   serving, cleared>>

\* The rest of finish_agent, under another lock.
FinishEnd(a) ==
    /\ finish[a] = "transferred"
    /\ finish' = [finish EXCEPT ![a] = "ended"]
    /\ active' = active \ {a}
    /\ UNCHANGED <<actors, entry, owner, bash, child, reaper, killing, reset, resets,
                   serving, cleared>>

\* terminate_all: every running entry is stopped, its child terminated after the lock.
StopAll ==
    /\ entry' = [j \in Jobs |-> IF j \in Running THEN "stopped" ELSE entry[j]]
    /\ killing' = killing \cup Running

BeginReset ==
    /\ MayCall(Root)
    /\ reset = "none"
    /\ resets < ResetBound
    /\ resets' = resets + 1
    /\ StopAll
    /\ reset' = "terminating"
    /\ UNCHANGED <<actors, active, finish, owner, bash, child, reaper, serving, cleared>>

\* clear_all goes on once its children have ended.  (Those of a stop_process call are not
\* waited for; taking them for its own only delays the reset.)
ClearAll ==
    /\ reset = "terminating"
    /\ killing = {}
    /\ cleared' = cleared \cup Running
    /\ entry' = [j \in Jobs |-> "absent"]
    /\ reset' = "emptying"
    /\ UNCHANGED <<team, owner, bash, child, reaper, killing>>

ResetTeam ==
    /\ reset = "emptying"
    /\ actors' = {Root}
    /\ active' = {Root}
    /\ reset' = "none"
    /\ UNCHANGED <<finish, resets, serving, entry, owner, bash, child, reaper, killing,
                   cleared>>

Stop ==
    /\ serving
    /\ serving' = FALSE
    /\ StopAll
    /\ UNCHANGED <<actors, active, finish, resets, owner, bash, child, reaper, reset, cleared>>

-----------------------------------------------------------------------------
CallSteps(j) == Spawn(j) \/ Enter(j) \/ Watch(j)
ReaperSteps(j) ==
    ReaperLeaves(j) \/ ReaperLooks(j) \/ ReaperTerminates(j) \/ ReaperReports(j)

JobsNext ==
    \/ \E j \in Jobs :
         \/ CallSteps(j) \/ ChildExits(j) \/ ReaperSteps(j) \/ TimesOut(j) \/ Terminate(j)
         \/ \E a \in People : Bash(j, a) \/ StopProcess(j, a)
    \/ Look
    \/ \E a \in Agents : Transfer(a) \/ FinishEnd(a)
    \/ BeginReset \/ ClearAll \/ ResetTeam \/ Stop

JobsSpec == JobsInit /\ [][JobsNext]_jobsVars

\* Request threads, reapers and terminators run; a timeout passes while the reaper looks.
JobsFairness == \A j \in Jobs :
    /\ WF_jobsVars(CallSteps(j))
    /\ WF_jobsVars(ReaperSteps(j))
    /\ WF_jobsVars(TimesOut(j))
    /\ WF_jobsVars(Terminate(j))

JobsFairSpec == JobsSpec /\ JobsFairness

-----------------------------------------------------------------------------
JobsTypeOK ==
    /\ active \subseteq actors /\ actors \subseteq People /\ Root \in active
    /\ finish \in [Agents -> {"alive", "transferred", "ended"}]
    /\ entry \in [Jobs -> Final \cup {"absent", "running"}]
    /\ owner \in [Jobs -> People \cup {NoOwner}]
    /\ bash \in [Jobs -> {"none", "admitted", "started", "entered", "returned"}]
    /\ child \in [Jobs -> {"none", "alive", "exited"}]
    /\ reaper \in [Jobs -> {"none", "watching", "reaped", "terminating", "timed_out", "gone"}]
    /\ killing \subseteq Jobs /\ cleared \subseteq Jobs
    /\ reset \in {"none", "terminating", "emptying"}
    /\ resets \in 0 .. ResetBound
    /\ serving \in BOOLEAN

\* A process that is alive is about to be entered, or shown as running and watched, or about to be
\* watched, or somebody is ending it, unless clear_all lost it.  So a process shown as ended has
\* ended or is being ended, whoever stopped, timed out, transferred or pruned it: no path drops a
\* child that lives.
AliveIsAttended ==
    \A j \in Jobs : child[j] = "alive" /\ j \notin cleared =>
        \/ bash[j] = "started"
        \/ entry[j] = "running" /\ (bash[j] = "entered" \/ reaper[j] \in {"watching", "terminating"})
        \/ j \in killing

\* An end is final: a reaper that comes late leaves a stopped process stopped, and only
\* stop_process changes what an ended one is called (set_process_status).
EndIsFinal ==
    [][\A j \in Jobs : entry[j] \in Final => entry'[j] \in {entry[j], "stopped", "absent"}]_jobsVars

\* Every process that was started ends, by its timeout at the latest, unless clear_all lost it.
\* (An id is started once, so that from some time on those that are alive are lost ones.)
JobsEnd == <>[](\A j \in Jobs : child[j] = "alive" => j \in cleared)
=============================================================================
