---------------------------- MODULE Interactions ----------------------------
(***************************************************************************)
(* Questions and approvals of one agent team: ask_user, request_*_approval,*)
(* resolve_interaction, resolve_user_interaction, consume_approval and the *)
(* revocations in pi-whim-agent-team's lib.rs.                             *)
(*                                                                         *)
(* The map of interactions has a mutex of its own.  Hooks and the team's   *)
(* mutex are used while it is not held, so everything a call does between  *)
(* two critical sections of that map is a step of its own here, and agents *)
(* end, are interrupted or reset in between.                               *)
(***************************************************************************)
EXTENDS Naturals, Sequences, FiniteSets

CONSTANTS
    Agents,     \* the children of the team
    Root,       \* the level-0 agent, whose interactions the L0 user resolves
    Parent,     \* Parent[a]: the parent_id of a's descriptor
    Above,      \* Above[a]: the agents on a's chain of parents
    Ids,        \* fresh interaction ids: a bound on how many are created
    Ops,        \* operations (bash commands, file changes) by their hash
    Threads,    \* request threads of the supervisor
    None

Decisions == {"approve", "deny", "escalate", "answer"}

TreeAssumption ==
    /\ IsFiniteSet(Agents)
    /\ Root \notin Agents
    /\ None \notin Agents \cup {Root} \cup Ops \cup Ids \cup Decisions
    /\ None \notin [by : Agents \cup {Root}, op : Ops \cup {None}, risky : BOOLEAN]
    /\ Parent \in [Agents -> Agents \cup {Root}]
    /\ Above \in [Agents -> SUBSET (Agents \cup {Root})]
    /\ \A a \in Agents : /\ a \notin Above[a]
                         /\ Above[a] = {Parent[a]} \cup
                              (IF Parent[a] = Root THEN {} ELSE Above[Parent[a]])

VARIABLES
    actors,     \* agents in TeamState's map (and with a capability)
    active,     \* those of them whose status is active
    finish,     \* finish[a]: how far the monitor thread of a has come
    serving,    \* the supervisor accepts calls
    request,    \* request[i]: what an interaction says from its creation on
    table,      \* the map of interactions: its changing part, or None
    shown,      \* interactions sent to the L0 user
    call,       \* call[t]: the call a thread works on
    \* history
    decision,   \* decision[i]: the first response i got
    decider,    \* decider[i]: the owner, or the hook, it came from
    uses        \* uses[i]: the operations executed with i as their ticket

vars == <<actors, active, finish, serving, request, table, shown, call, decision,
          decider, uses>>

People == Agents \cup {Root}
IsApproval(i) == request[i].op # None
Pending(i) == table[i] # None /\ table[i].response = None

Idle == [pc |-> "idle", by |-> None, id |-> None, what |-> None]
Calling(pc, by, i, what) == [pc |-> pc, by |-> by, id |-> i, what |-> what]
Goto(t, pc) == call' = [call EXCEPT ![t].pc = pc]
Return(t) == call' = [call EXCEPT ![t] = Idle]

team == <<actors, active, finish, serving>>
history == <<decision, decider, uses>>

Init ==
    /\ actors = People
    /\ active = People
    /\ finish = [a \in Agents |-> "alive"]
    /\ serving = TRUE
    /\ request = [i \in Ids |-> None]
    /\ table = [i \in Ids |-> None]
    /\ shown = {}
    /\ call = [t \in Threads |-> Idle]
    /\ decision = [i \in Ids |-> None]
    /\ decider = [i \in Ids |-> None]
    /\ uses = [i \in Ids |-> <<>>]

\* The dispatcher accepts a call of a: capability and ensure_actor_active.
MayCall(t, a) ==
    /\ serving
    /\ call[t] = Idle
    /\ a \in active
    /\ a # Root => finish[a] = "alive"

-----------------------------------------------------------------------------
(* create_interaction *)

\* Root's own interactions and every high-risk one belong to Root.
FirstOwner(a, risky) == IF a = Root \/ risky THEN Root ELSE Parent[a]

\* A question (no operation), or an approval of op that a controlled agent needs.
Ask(t, a, i, op, risky) ==
    /\ MayCall(t, a)
    /\ request[i] = None
    /\ op = None => ~risky
    /\ op # None => a # Root
    /\ request' = [request EXCEPT ![i] = [by |-> a, op |-> op, risky |-> risky]]
    /\ call' = [call EXCEPT ![t] = Calling("insert", a, i, FirstOwner(a, risky))]
    /\ UNCHANGED <<team, table, shown, history>>

Insert(t) ==
    /\ call[t].pc = "insert"
    /\ table' = [table EXCEPT ![call[t].id] =
                   [owner |-> call[t].what, response |-> None, fresh |-> TRUE]]
    /\ Goto(t, "auto")
    /\ UNCHANGED <<team, request, shown, history>>

\* auto_resolve_interaction: no hook answers, or its answer is not to be used.
NoAutoAnswer(t) ==
    /\ call[t].pc = "auto"
    /\ Goto(t, "tell_owner")
    /\ UNCHANGED <<team, request, table, shown, history>>

\* An answer of d by `who' that passes the checks under the lock.
Answer(i, d, who) ==
    /\ table' = [table EXCEPT ![i].response = d]
    /\ decision' = [decision EXCEPT ![i] = IF @ = None THEN d ELSE @]
    /\ decider' = [decider EXCEPT ![i] = who]
    /\ UNCHANGED uses

\* Mutant: a hook's answer is taken for what it is, an approval included.
AutoAnswerAny(t, d) ==
    LET i == call[t].id IN
    /\ call[t].pc = "auto"
    /\ Pending(i)
    /\ Answer(i, d, "hook")
    /\ Return(t)
    /\ UNCHANGED <<team, request, shown>>

\* A hook answers in the owner's place; an approval it may only deny.  The answer stands when
\* the requester, gone meanwhile, cannot be told of it; the owner is told as without an answer.
AutoAnswer(t, d) ==
    LET i == call[t].id IN
    /\ call[t].pc = "auto"
    /\ Pending(i)
    /\ table[i].owner = call[t].what
    /\ d \in (IF IsApproval(i) THEN {"deny"} ELSE {"deny", "answer"})
    /\ Answer(i, d, "hook")
    /\ Return(t) \/ Goto(t, "tell_owner")
    /\ UNCHANGED <<team, request, shown>>

\* A hook that answers a question with "escalate" escalates for its owner.
AutoEscalate(t) ==
    /\ call[t].pc = "auto"
    /\ ~IsApproval(call[t].id)
    /\ call[t].what # Root
    /\ call' = [call EXCEPT ![t] = Calling("decide", call[t].what, call[t].id, "escalate")]
    /\ UNCHANGED <<team, request, table, shown, history>>

\* notify_interaction_owner; a message to an agent's inbox is no state here.  What is sent to
\* the user arrives: only an application that is gone has dropped the receiver.
TellOwner(t) ==
    /\ call[t].pc = "tell_owner"
    /\ shown' = IF table[call[t].id] # None /\ call[t].what = Root
                THEN shown \cup {call[t].id} ELSE shown
    /\ Return(t)
    /\ UNCHANGED <<team, request, table, history>>

-----------------------------------------------------------------------------
(* resolve_interaction (by an agent) and resolve_user_interaction (for Root) *)

\* Only an approval that is there when the call looks for it passes the gate.  The answer to
\* a question is any text: "deny" and "answer" stand for two of them.
Resolve(t, o, i, d) ==
    /\ IF o = Root THEN i \in shown /\ call[t] = Idle /\ d # "escalate"
                   ELSE MayCall(t, o)
    /\ request[i] # None
    /\ d = "approve" => IsApproval(i)
    /\ call' = [call EXCEPT ![t] = Calling(
                  IF table[i] # None /\ IsApproval(i) /\ d = "approve" THEN "gate" ELSE "decide",
                  o, i, d)]
    /\ UNCHANGED <<team, request, table, shown, history>>

\* gate_permission_resolution: a hook may deny; file_actor fails after a reset.
Gate(t) ==
    /\ call[t].pc = "gate"
    /\ \/ call[t].by \in actors /\ Goto(t, "decide")
       \/ Return(t)
    /\ UNCHANGED <<team, request, table, shown, history>>

\* The checks under the lock: present, still owned by the caller, unanswered.
MayDecide(t) == Pending(call[t].id) /\ table[call[t].id].owner = call[t].by

\* Mutant: the owner alone is checked again after the gate.
MayDecideTwice(t) ==
    table[call[t].id] # None /\ table[call[t].id].owner = call[t].by

Accepted(t) == IF IsApproval(call[t].id) THEN call[t].what \in {"approve", "deny"}
                                         ELSE call[t].what # "escalate"

\* Mutant: the response is looked at before the gate only.
DecideTwice(t) ==
    /\ call[t].pc = "decide"
    /\ MayDecideTwice(t)
    /\ Accepted(t)
    /\ table' = [table EXCEPT ![call[t].id].response = call[t].what]
    /\ decision' = [decision EXCEPT ![call[t].id] = call[t].what]
    /\ decider' = [decider EXCEPT ![call[t].id] = call[t].by]
    /\ Return(t)
    /\ UNCHANGED <<team, request, shown, uses>>

\* The response stands whether telling the requester succeeds: a failure is an answer to the
\* caller and changes nothing here.
Decide(t) ==
    /\ call[t].pc = "decide"
    /\ MayDecide(t)
    /\ Accepted(t)
    /\ Answer(call[t].id, call[t].what, call[t].by)
    /\ Return(t)
    /\ UNCHANGED <<team, request, shown>>

\* Mutant: the new owner is not told.
EscalateSilently(t) ==
    /\ call[t].pc = "decide"
    /\ call[t].what = "escalate"
    /\ MayDecide(t)
    /\ call[t].by \in actors \ {Root}
    /\ table' = [table EXCEPT ![call[t].id].owner = Parent[call[t].by]]
    /\ Return(t)
    /\ UNCHANGED <<team, request, shown, history>>

\* The request goes to the owner's parent, who is told afterwards.
Escalate(t) ==
    /\ call[t].pc = "decide"
    /\ call[t].what = "escalate"
    /\ MayDecide(t)
    /\ call[t].by \in actors \ {Root}
    /\ table' = [table EXCEPT ![call[t].id].owner = Parent[call[t].by]]
    /\ call' = [call EXCEPT ![t].pc = "tell_owner", ![t].what = Parent[call[t].by]]
    /\ UNCHANGED <<team, request, shown, history>>

Refuse(t) ==
    /\ call[t].pc = "decide"
    /\ ~MayDecide(t) \/ (call[t].what # "escalate" /\ ~Accepted(t))
                     \/ (call[t].what = "escalate" /\ call[t].by \notin actors)
    /\ Return(t)
    /\ UNCHANGED <<team, request, table, shown, history>>

-----------------------------------------------------------------------------
(* bash, read, write and edit with an approval ticket *)

Use(t, a, i, op) ==
    /\ a # Root
    /\ MayCall(t, a)
    /\ request[i] # None
    /\ call' = [call EXCEPT ![t] = Calling("consume", a, i, op)]
    /\ UNCHANGED <<team, request, table, shown, history>>

\* What the ticket must be for the operation: checked on the removed request.
Authorises(i, a, op) ==
    /\ table[i] # None
    /\ request[i].by = a
    /\ request[i].op = op
    /\ table[i].fresh
    /\ table[i].response = "approve"

\* Mutant: the ticket stays in the map.
ConsumeKept(t) ==
    LET i == call[t].id  a == call[t].by  op == call[t].what IN
    /\ call[t].pc = "consume"
    /\ uses' = IF Authorises(i, a, op)
               THEN [uses EXCEPT ![i] = Append(@, [by |-> a, op |-> op])] ELSE uses
    /\ Return(t)
    /\ UNCHANGED <<team, request, table, shown, decision, decider>>

\* consume_approval: the request leaves the map, whether it authorises the call or not.
Consume(t) ==
    LET i == call[t].id  a == call[t].by  op == call[t].what IN
    /\ call[t].pc = "consume"
    /\ table' = [table EXCEPT ![i] = None]
    /\ uses' = IF Authorises(i, a, op)
               THEN [uses EXCEPT ![i] = Append(@, [by |-> a, op |-> op])] ELSE uses
    /\ Return(t)
    /\ UNCHANGED <<team, request, shown, decision, decider>>

\* APPROVAL_TTL passes.
Expire(i) ==
    /\ table[i] # None
    /\ IsApproval(i)
    /\ table[i].fresh
    /\ table' = [table EXCEPT ![i].fresh = FALSE]
    /\ UNCHANGED <<team, request, shown, call, history>>

-----------------------------------------------------------------------------
(* Agents end, are interrupted and reset *)

\* revoke_interactions_for_agent for each of S.
Revoke(S) == table' = [i \in Ids |->
    IF table[i] # None /\ (request[i].by \in S \/ table[i].owner \in S) THEN None ELSE table[i]]

\* The process of a has ended.  finish_agent: interactions are revoked first, the status ends
\* under another lock.
FinishRevoke(a) ==
    /\ finish[a] = "alive"
    /\ finish' = [finish EXCEPT ![a] = "revoked"]
    /\ Revoke({a})
    /\ UNCHANGED <<actors, active, serving, request, shown, call, history>>

FinishEnd(a) ==
    /\ finish[a] = "revoked"
    /\ finish' = [finish EXCEPT ![a] = "ended"]
    /\ active' = active \ {a}
    /\ UNCHANGED <<actors, serving, request, table, shown, call, history>>

\* interrupt_agent by a's parent p: the subtree is told, then revoked agent by agent.
Interrupt(t, p, a) ==
    /\ MayCall(t, p)
    /\ a \in actors \ {Root}
    /\ Parent[a] = p
    /\ LET S == {x \in actors \cap Agents : x = a \/ a \in Above[x]} IN
       /\ \E x \in S : finish[x] # "ended"
       /\ call' = [call EXCEPT ![t] = Calling("revoke", p, None, S)]
    /\ UNCHANGED <<team, request, table, shown, history>>

RevokeNext(t) ==
    /\ call[t].pc = "revoke"
    /\ IF call[t].what = {} THEN Return(t) /\ UNCHANGED table
       ELSE \E x \in call[t].what :
              /\ Revoke({x})
              /\ call' = [call EXCEPT ![t].what = @ \ {x}]
    /\ UNCHANGED <<team, request, shown, history>>

\* reset_team: clear_interactions, then the team is emptied under its own lock.
ResetClear(t) ==
    /\ MayCall(t, Root)
    /\ table' = [i \in Ids |-> None]
    /\ call' = [call EXCEPT ![t] = Calling("reset", Root, None, None)]
    /\ UNCHANGED <<team, request, shown, history>>

ResetTeam(t) ==
    /\ call[t].pc = "reset"
    /\ actors' = {Root}
    /\ active' = {Root}
    /\ Return(t)
    /\ UNCHANGED <<finish, serving, request, table, shown, history>>

\* AgentSupervisor::stop; calls already accepted go on.
Stop ==
    /\ serving
    /\ serving' = FALSE
    /\ table' = [i \in Ids |-> None]
    /\ UNCHANGED <<actors, active, finish, request, shown, call, history>>

-----------------------------------------------------------------------------
Next ==
    \/ \E t \in Threads :
         \/ \E a \in People, i \in Ids, op \in Ops \cup {None}, risky \in BOOLEAN :
              Ask(t, a, i, op, risky)
         \/ Insert(t) \/ NoAutoAnswer(t) \/ AutoEscalate(t) \/ TellOwner(t)
         \/ \E d \in Decisions : AutoAnswer(t, d)
         \/ \E o \in People, i \in Ids, d \in Decisions : Resolve(t, o, i, d)
         \/ Gate(t) \/ Decide(t) \/ Escalate(t) \/ Refuse(t)
         \/ \E a \in People, i \in Ids, op \in Ops : Use(t, a, i, op)
         \/ Consume(t)
         \/ \E p \in People, a \in Agents : Interrupt(t, p, a)
         \/ RevokeNext(t) \/ ResetClear(t) \/ ResetTeam(t)
    \/ \E i \in Ids : Expire(i)
    \/ \E a \in Agents : FinishRevoke(a) \/ FinishEnd(a)
    \/ Stop

Spec == Init /\ [][Next]_vars

-----------------------------------------------------------------------------
Requests == [by : People, op : Ops \cup {None}, risky : BOOLEAN]
Entries == [owner : People, response : Decisions \cup {None}, fresh : BOOLEAN]
Stages == {"idle", "insert", "auto", "tell_owner", "gate", "decide", "consume", "revoke",
           "reset"}

TypeOK ==
    /\ active \subseteq actors /\ actors \subseteq People /\ Root \in active
    /\ finish \in [Agents -> {"alive", "revoked", "ended"}]
    /\ serving \in BOOLEAN
    /\ request \in [Ids -> Requests \cup {None}]
    /\ table \in [Ids -> Entries \cup {None}]
    /\ \A i \in Ids : table[i] # None => request[i] # None
    /\ shown \subseteq Ids
    /\ \A t \in Threads : call[t].pc \in Stages /\ call[t].by \in People \cup {None}
                                                /\ call[t].id \in Ids \cup {None}

\* An approval authorises the operation it was asked for, of the agent that asked, once, and
\* only after it was approved: whatever threads present the ticket and whenever its owner,
\* an interrupt or a reset takes it away (consume_approval).
TicketsAuthoriseOnce ==
    \A i \in Ids : uses[i] # <<>> =>
        /\ decision[i] = "approve"
        /\ uses[i] = <<[by |-> request[i].by, op |-> request[i].op]>>

\* An approval is granted by a person or agent above the requester who owns it at that moment,
\* by the L0 user if it is high-risk, and never by a hook, although the gate and escalation
\* run between the lookup and the answer (resolve_interaction_for_owner, auto_resolve_*).
GrantedByItsOwner ==
    \A i \in Ids : (request[i] # None /\ request[i].op # None /\ decision[i] = "approve") =>
        /\ decider[i] \in Above[request[i].by]
        /\ request[i].risky => decider[i] = Root
        /\ table[i] # None => table[i].owner = decider[i]

\* The first answer stands: two resolvers, or a resolver and a hook, cannot overwrite each
\* other's, although both may have found the interaction unanswered.
DecisionStands ==
    [][\A i \in Ids : decision[i] # None =>
         /\ decision'[i] = decision[i]
         /\ table'[i] # None => table'[i].response = decision[i]]_vars

\* What waits for the L0 user has been put before the user or is about to be: no path
\* (creation, a hook's refused answer, an escalation) leaves it unseen.
UserIsAsked ==
    \A i \in Ids : (Pending(i) /\ table[i].owner = Root) =>
        \/ i \in shown
        \/ \E t \in Threads : call[t].id = i /\ call[t].what = Root
                                /\ call[t].pc \in {"auto", "tell_owner"}
=============================================================================
