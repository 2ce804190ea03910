---------------------------- MODULE TeamPromises ----------------------------
(***************************************************************************)
(* AgentTeam with two history variables that hold what the supervisor has  *)
(* told its callers: which subtrees wait_agent has reported completed, and *)
(* which agents an interrupt, a team reset or a stop was to end.           *)
(***************************************************************************)
EXTENDS AgentTeam

VARIABLES
    reported,  \* agents a wait_agent call of their owner has reported completed
    doomed     \* agents that were active in a subtree when it was to end

promiseVars == <<vars, reported, doomed>>

PromiseInit == Init /\ reported = {} /\ doomed = {}

\* wait_agent returns to the direct owner of c because nothing in c's subtree is active.
\* (It also returns for a message and after its timeout; both promise nothing.)
WaitCompletes(p, c) ==
    /\ MayCall(p)
    /\ c \in actors /\ parent[c] = p
    /\ ~SubtreeActive(c)
    /\ reported' = reported \cup {c}
    /\ UNCHANGED <<vars, doomed>>

Ends(S) == doomed' = doomed \cup {a \in S : IsActive(a)}

PromiseNext ==
    \/ \E a \in Agents, p \in Ids :
          \/ WaitCompletes(p, a)
          \/ RequestSpawn(a, p) /\ UNCHANGED <<reported, doomed>>
          \/ InterruptAgent(p, a) /\ Ends(Subtree(a)) /\ UNCHANGED reported
    \/ \E a \in Agents :
          /\ LaunchStep(a) \/ ProcessExits(a) \/ MonitorStep(a)
          /\ UNCHANGED <<reported, doomed>>
    \/ (ResetTeam \/ StopTeam) /\ Ends(Agents) /\ UNCHANGED reported

PromiseSpec == PromiseInit /\ [][PromiseNext]_promiseVars

-----------------------------------------------------------------------------
(* Properties *)

\* "Explicit interrupt_agent, a level-0 team reset, or application shutdown are the only
\* lifecycle operations that cascade termination through a subtree" (docs/agent-teams.md):
\* once its launch is over, the process of an agent that was active in the subtree has
\* been told to end.
DoomedAreTold ==
    \A a \in doomed :
        (spawn[a] = "done" /\ process[a] = "alive") => interrupt[a] # "none"

\* "wait_agent: waits for a specific direct child's entire subtree to finish"
\* (docs/agent-teams.md): a subtree reported completed stays finished.
CompletedStaysQuiet ==
    \A a \in reported : a \in actors => ~SubtreeActive(a)

=============================================================================
