---------------------------- MODULE FileKnowledge ----------------------------
(***************************************************************************)
(* FileCoordinator with one history variable: the content of each file as  *)
(* its tool results have shown it to each agent.  A read shows what it     *)
(* returns, a write what it left; an edit shows what it left only to an    *)
(* agent that knew what the edit found, because its result names the       *)
(* replaced blocks and not the rest of the file.                           *)
(***************************************************************************)
EXTENDS FileCoordinator

VARIABLE shown  \* shown[a][p]: the content a knows, None before any

knowVars == <<vars, shown>>

KnowInit == Init /\ shown = [a \in Agents |-> [p \in Paths |-> None]]

\* The calls of a whose result for p becomes final in this step.
Reported(a, p) ==
    {t \in Threads : /\ call[t].agent = a /\ call[t].path = p
                     /\ step[t] \in {"observe", "record"} /\ step'[t] = "release"}

Learned(a, p, t) ==
    IF call[t].op = "edit" /\ shown[a][p] # call[t].current THEN shown[a][p] ELSE call[t].new

KnowNext ==
    /\ Next
    /\ shown' = [a \in Agents |-> [p \in Paths |->
          IF Reported(a, p) = {} THEN shown[a][p]
          ELSE Learned(a, p, CHOOSE t \in Reported(a, p) : TRUE)]]

KnowSpec == KnowInit /\ [][KnowNext]_knowVars

\* "A supplied or previously observed revision prevents a stale agent from silently
\* overwriting a newer change" (docs/agent-teams.md): a write that relies on the
\* observed revision replaces nothing but the content its agent was last shown.
NoStaleOverwrite ==
    \A t \in Threads :
        LET c == call[t] IN
        ( /\ step[t] = "commit" /\ c.op = "write" /\ c.base = None
          /\ c.path \notin tampered
          /\ shown[c.agent][c.path] # None )
        => shown[c.agent][c.path] = c.current

=============================================================================
