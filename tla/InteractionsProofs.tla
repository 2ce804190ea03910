-------------------------- MODULE InteractionsProofs --------------------------
(***************************************************************************)
(* TLAPS proofs about what agents and users of a team, and the roots of    *)
(* several teams, tell each other.                                         *)
(*                                                                         *)
(* Interactions, for any finite tree of agents, any interactions,          *)
(* operations and request threads: what an approval authorises, who grants *)
(* it, that the first answer stands, and that the L0 user is asked.  None  *)
(* of these is inductive.  A thread between two critical sections of the   *)
(* map carries a copy of what it read there, so the invariant says what    *)
(* those copies are still good for: an interaction about to be inserted is *)
(* new, an entry of the map has not been used, what it says is what was    *)
(* decided, and its owner stands above the requester.                      *)
(*                                                                         *)
(* RootMail, for any roots, sessions and threads, any number of messages   *)
(* and any size of the boxes: a message is in one place at a time.  Its    *)
(* places are changed under three kinds of mutex and by crashes, so        *)
(* MailInv says of every stage of a thread what it holds and what is in    *)
(* its hands, and where a message can be besides: on file while its file   *)
(* is being written or removed.                                            *)
(***************************************************************************)
EXTENDS Interactions, RootMail, SequenceLemmas, FiniteSetTheorems, SequenceTheorems, TLAPS

\* What the threads carry, and the history.
What == People \cup Ops \cup Decisions \cup {None} \cup SUBSET Agents
CallState == [pc : Stages, by : People \cup {None}, id : Ids \cup {None}, what : What]

Typed ==
    /\ TypeOK
    /\ call \in [Threads -> CallState]
    /\ decision \in [Ids -> Decisions \cup {None}]
    /\ decider \in [Ids -> People \cup {"hook", None}]
    /\ uses \in [Ids -> Seq([by : People \cup {None}, op : What])]

\* A call about an interaction is about one that was asked; what is created or handed on has
\* an owner; an interrupt revokes children.
WithId == {"insert", "auto", "tell_owner", "gate", "decide", "consume"}
Asked == \A t \in Threads :
    /\ call[t].pc \in WithId =>
         call[t].by \in People /\ call[t].id \in Ids /\ request[call[t].id] # None
    /\ call[t].pc \in {"insert", "auto", "tell_owner"} => call[t].what \in People
    /\ call[t].pc \in {"gate", "decide"} => call[t].what \in Decisions
    /\ call[t].pc = "revoke" => call[t].what \in SUBSET Agents

\* One thread is about to insert an interaction, of which nothing is known yet.
Inserting ==
    /\ \A t \in Threads : call[t].pc = "insert" =>
         LET i == call[t].id IN
         /\ table[i] = None /\ decision[i] = None /\ uses[i] = <<>>
         /\ call[t].what = FirstOwner(request[i].by, request[i].risky)
    /\ \A t, u \in Threads :
         call[t].pc = "insert" /\ call[u].pc = "insert" /\ call[t].id = call[u].id => t = u

\* An operation is asked for by a child; only an approval is risky.  What was not asked is nowhere.
Requested ==
    \A i \in Ids :
        /\ request[i] # None /\ IsApproval(i) => request[i].by \in Agents
        /\ request[i] # None /\ ~IsApproval(i) => ~request[i].risky
        /\ request[i] = None => table[i] = None /\ decision[i] = None /\ uses[i] = <<>>

\* An entry of the map has not been used, and says what was decided.
Entered == \A i \in Ids : table[i] # None => uses[i] = <<>> /\ table[i].response = decision[i]

\* The owner of an approval stands above the requester; of a high-risk one it is the user.
Owned ==
    \A i \in Ids : table[i] # None /\ IsApproval(i) =>
        /\ table[i].owner \in Above[request[i].by]
        /\ request[i].risky => table[i].owner = Root

InteractionsInv ==
    /\ Typed /\ Asked /\ Inserting /\ Requested /\ Entered /\ Owned
    /\ TicketsAuthoriseOnce /\ GrantedByItsOwner /\ UserIsAsked
-----------------------------------------------------------------------------
(* The tree of agents *)

\* Induction along the chain of parents: of any agents one has a parent that is not among them.
LEMMA HighestAgent ==
    ASSUME TreeAssumption, NEW B, B \subseteq Agents, B # {}
    PROVE  \E x \in B : Parent[x] \notin B
<1> DEFINE R == StrictSubsetOrdering(People)
           T == {Above[x] : x \in B}
<1>1. \A x \in Agents : Above[x] \subseteq People
    BY DEF TreeAssumption, People
<1>2. IsFiniteSet(People)
    BY FS_AddElement DEF TreeAssumption, People
<1>3. T \subseteq FiniteSubsetsOf(People) /\ T # {}
    BY <1>1, <1>2, FS_Subset DEF FiniteSubsetsOf
<1>4. \E X \in T : \A Y \in T : ~(<<Y, X>> \in R)
    BY <1>3, FS_StrictSubsetOrderingWellFounded, WFMin
<1>5. PICK x \in B : \A z \in B : ~(<<Above[z], Above[x]>> \in R)
    BY <1>4
<1>6. SUFFICES ASSUME Parent[x] \in B PROVE FALSE
    OBVIOUS
<1>7. Above[Parent[x]] \subseteq Above[x] /\ Above[Parent[x]] # Above[x]
    BY <1>5, <1>6 DEF TreeAssumption
<1>8. <<Above[Parent[x]], Above[x]>> \in R
    BY <1>1, <1>5, <1>6, <1>7 DEF StrictSubsetOrdering
<1>9. QED
    BY <1>5, <1>6, <1>8

\* The root is above everyone, and a child above a has a parent above a.
LEMMA RootAbove ==
    ASSUME TreeAssumption, NEW a \in Agents
    PROVE  Root \in Above[a]
<1> DEFINE B == {x \in Agents : Root \notin Above[x]}
<1>1. SUFFICES ASSUME B # {} PROVE FALSE
    OBVIOUS
<1>2. PICK x \in B : Parent[x] \notin B
    BY <1>1, HighestAgent
<1>3. QED
    BY <1>2 DEF TreeAssumption

LEMMA AboveClosed ==
    ASSUME TreeAssumption, NEW a \in Agents, NEW b \in Above[a], b # Root
    PROVE  b \in Agents /\ Parent[b] \in Above[a]
<1> DEFINE B == {x \in Agents : \E y \in Above[x] \ {Root} : Parent[y] \notin Above[x]}
<1>1. b \in Agents
    BY DEF TreeAssumption
<1>2. SUFFICES ASSUME B # {} PROVE FALSE
    BY <1>1
<1>3. PICK x \in B : Parent[x] \notin B
    BY <1>2, HighestAgent
<1>4. PICK y \in Above[x] \ {Root} : Parent[y] \notin Above[x]
    BY <1>3
<1>5. Parent[x] # Root /\ Parent[x] \in Agents /\ Above[x] = {Parent[x]} \cup Above[Parent[x]]
    BY <1>3, <1>4 DEF TreeAssumption
<1>6. Parent[y] \in Above[x]
    BY <1>3, <1>4, <1>5 DEF TreeAssumption
<1>7. QED
    BY <1>4, <1>6

-----------------------------------------------------------------------------
(* Where a step leaves the calls: thread t is at pc with the rest, the others where they were. *)

MovesTo(t, pc, by, i, what) ==
    /\ call' \in [Threads -> CallState]
    /\ \A u \in Threads : u # t => call'[u] = call[u]
    /\ call'[t].pc = pc /\ call'[t].by = by /\ call'[t].id = i /\ call'[t].what = what

LEMMA CallMoves ==
    ASSUME Typed, NEW t \in Threads, NEW c \in CallState, call' = [call EXCEPT ![t] = c]
    PROVE  MovesTo(t, c.pc, c.by, c.id, c.what)
BY DEF Typed, MovesTo

LEMMA CallingMoves ==
    ASSUME Typed, NEW t \in Threads, NEW pc \in Stages, NEW by \in People \cup {None},
           NEW i \in Ids \cup {None}, NEW what \in What,
           call' = [call EXCEPT ![t] = Calling(pc, by, i, what)]
    PROVE  MovesTo(t, pc, by, i, what)
<1>1. Calling(pc, by, i, what) \in CallState
    BY DEF Calling, CallState
<1>2. QED
    BY <1>1, CallMoves DEF Calling

LEMMA GotoMoves ==
    ASSUME Typed, NEW t \in Threads, NEW pc \in Stages, Goto(t, pc)
    PROVE  MovesTo(t, pc, call[t].by, call[t].id, call[t].what)
BY DEF Typed, Goto, MovesTo, CallState

LEMMA ReturnMoves ==
    ASSUME Typed, NEW t \in Threads, Return(t)
    PROVE  MovesTo(t, "idle", None, None, None)
<1>1. Idle \in CallState
    BY DEF Idle, CallState, Stages, What
<1>2. QED
    BY <1>1, CallMoves DEF Return, Idle

-----------------------------------------------------------------------------
(* The parts of the invariant that a step leaves alone *)

\* Nothing appears in the map, and nothing is decided or used that is not in it.
AbsentStay == \A i \in Ids : table[i] = None =>
    table'[i] = None /\ decision'[i] = decision[i] /\ uses'[i] = uses[i]

\* The map may lose entries, and changes in nothing else.
Thins == \A i \in Ids : table'[i] \in {table[i], None}

\* No call comes to be about to insert.
NoInserter == \A t \in Threads : call'[t].pc = "insert" => call'[t] = call[t]

LEMMA InsertingStays ==
    ASSUME Asked, Inserting, AbsentStay, NoInserter, request' = request
    PROVE  Inserting'
<1>1. ASSUME NEW t \in Threads, call'[t].pc = "insert"
      PROVE  LET i == call'[t].id IN
             /\ table'[i] = None /\ decision'[i] = None /\ uses'[i] = <<>>
             /\ call'[t].what = FirstOwner(request'[i].by, request'[i].risky)
    <2>1. call'[t] = call[t] /\ call[t].id \in Ids
        BY <1>1 DEF NoInserter, Asked, WithId
    <2>2. QED
        BY <1>1, <2>1 DEF Inserting, AbsentStay
<1>2. ASSUME NEW t \in Threads, NEW u \in Threads,
             call'[t].pc = "insert", call'[u].pc = "insert", call'[t].id = call'[u].id
      PROVE  t = u
    BY <1>2 DEF NoInserter, Inserting
<1>3. QED
    BY <1>1, <1>2 DEF Inserting, FirstOwner

LEMMA RequestedStays ==
    ASSUME Requested, AbsentStay, request' = request
    PROVE  Requested'
BY DEF Requested, AbsentStay, IsApproval

LEMMA AskedMoves ==
    ASSUME Asked, NEW t \in Threads, NEW pc, NEW by, NEW i, NEW what, MovesTo(t, pc, by, i, what),
           \A j \in Ids : request[j] # None => request'[j] # None,
           pc \in WithId => by \in People /\ i \in Ids /\ request'[i] # None,
           pc \in {"insert", "auto", "tell_owner"} => what \in People,
           pc \in {"gate", "decide"} => what \in Decisions,
           pc = "revoke" => what \in SUBSET Agents
    PROVE  Asked'
BY DEF Asked, MovesTo

\* The user is still asked if nothing new is up to the user, and whoever was about to put
\* something before the user still is, or did, or need not any more.
LEMMA UserIsAskedStays ==
    ASSUME UserIsAsked, shown \subseteq shown',
           \A i \in Ids : Pending(i)' /\ table'[i].owner = Root => Pending(i) /\ table[i].owner = Root,
           \A t \in Threads, i \in Ids :
               call[t].id = i /\ call[t].what = Root /\ call[t].pc \in {"auto", "tell_owner"} =>
                   \/ i \in shown' \/ ~Pending(i)'
                   \/ call'[t].id = i /\ call'[t].what = Root
                        /\ call'[t].pc \in {"auto", "tell_owner"}
    PROVE  UserIsAsked'
<1>1. SUFFICES ASSUME NEW i \in Ids, Pending(i)', table'[i].owner = Root, i \notin shown'
               PROVE  \E t \in Threads : call'[t].id = i /\ call'[t].what = Root
                                            /\ call'[t].pc \in {"auto", "tell_owner"}
    BY DEF UserIsAsked
<1>2. PICK t \in Threads : call[t].id = i /\ call[t].what = Root
                              /\ call[t].pc \in {"auto", "tell_owner"}
    BY <1>1 DEF UserIsAsked
<1>3. QED
    BY <1>1, <1>2

\* A step that only takes entries out of the map.
LEMMA QuietKeeps ==
    ASSUME InteractionsInv, Thins, NoInserter, UNCHANGED <<request, history>>,
           Typed', Asked', UserIsAsked'
    PROVE  InteractionsInv'
<1> USE DEF InteractionsInv, history
<1>1. AbsentStay
    BY DEF AbsentStay, Thins
<1>2. Inserting' /\ Requested'
    BY <1>1, InsertingStays, RequestedStays
<1>3. Entered'
    BY DEF Entered, Thins
<1>4. Owned'
    BY DEF Owned, Thins, IsApproval
<1>5. TicketsAuthoriseOnce'
    BY DEF TicketsAuthoriseOnce
<1>6. GrantedByItsOwner'
    BY DEF GrantedByItsOwner, Thins
<1>7. QED
    BY <1>2, <1>3, <1>4, <1>5, <1>6
-----------------------------------------------------------------------------
(* Steps that only take entries out of the map, or change nothing there *)

LEMMA NoAutoAnswerKeeps ==
    ASSUME TreeAssumption, InteractionsInv, NEW t \in Threads, NoAutoAnswer(t)
    PROVE  InteractionsInv'
<1> USE DEF InteractionsInv
<1>1. MovesTo(t, "tell_owner", call[t].by, call[t].id, call[t].what)
    BY GotoMoves DEF NoAutoAnswer, Stages
<1>2. Thins /\ NoInserter /\ UNCHANGED <<request, history>>
    BY <1>1 DEF MovesTo, Thins, NoInserter, Typed, TypeOK, history, NoAutoAnswer
<1>3. Typed'
    BY <1>1, <1>2 DEF MovesTo, Typed, TypeOK, CallState, Thins, history, team, NoAutoAnswer
<1>4. Asked'
    BY <1>1, <1>2, AskedMoves DEF Asked, WithId, NoAutoAnswer
<1>5. UserIsAsked'
    BY <1>1, <1>2, UserIsAskedStays DEF MovesTo, Thins, Pending, NoAutoAnswer
<1>6. QED
    BY <1>2, <1>3, <1>4, <1>5, QuietKeeps

LEMMA AutoEscalateKeeps ==
    ASSUME TreeAssumption, InteractionsInv, NEW t \in Threads, AutoEscalate(t)
    PROVE  InteractionsInv'
<1> USE DEF InteractionsInv
<1>1. /\ call[t].what # Root
      /\ MovesTo(t, "decide", call[t].what, call[t].id, "escalate")
    <2>1. call[t].what \in People /\ call[t].id \in Ids
        BY DEF Asked, WithId, AutoEscalate
    <2>2. QED
        BY <2>1, CallingMoves DEF AutoEscalate, Stages, What, Decisions
<1>2. Thins /\ NoInserter /\ UNCHANGED <<request, history>>
    BY <1>1 DEF MovesTo, Thins, NoInserter, Typed, TypeOK, history, AutoEscalate
<1>3. Typed'
    BY <1>1, <1>2, ZenonT(60) DEF MovesTo, Typed, TypeOK, CallState, Thins, history, team, AutoEscalate
<1>4. Asked'
    BY <1>1, <1>2, AskedMoves DEF Asked, WithId, Decisions, AutoEscalate
<1>5. UserIsAsked'
    BY <1>1, <1>2, UserIsAskedStays DEF MovesTo, Thins, Pending, AutoEscalate
<1>6. QED
    BY <1>2, <1>3, <1>4, <1>5, QuietKeeps

LEMMA TellOwnerKeeps ==
    ASSUME TreeAssumption, InteractionsInv, NEW t \in Threads, TellOwner(t)
    PROVE  InteractionsInv'
<1> USE DEF InteractionsInv
<1>1. MovesTo(t, "idle", None, None, None)
    BY ReturnMoves DEF TellOwner
<1>2. Thins /\ NoInserter /\ UNCHANGED <<request, history>>
    BY <1>1 DEF MovesTo, Thins, NoInserter, Typed, TypeOK, history, TellOwner
<1>3. Typed'
    BY <1>1, <1>2 DEF MovesTo, Typed, TypeOK, CallState, Thins, history, team, TellOwner, Asked, WithId
<1>4. Asked'
    BY <1>1, <1>2, AskedMoves DEF Asked, WithId, TellOwner
<1>5. UserIsAsked'
    BY <1>1, <1>2, UserIsAskedStays DEF MovesTo, Thins, Pending, TellOwner
<1>6. QED
    BY <1>2, <1>3, <1>4, <1>5, QuietKeeps

LEMMA ResolveKeeps ==
    ASSUME TreeAssumption, InteractionsInv, NEW t \in Threads, NEW o \in People, NEW i \in Ids, NEW d \in Decisions, Resolve(t, o, i, d)
    PROVE  InteractionsInv'
<1> USE DEF InteractionsInv
<1>1. MovesTo(t, "gate", o, i, d) \/ MovesTo(t, "decide", o, i, d)
    BY CallingMoves DEF Resolve, Stages, What
<1>2. Thins /\ NoInserter /\ UNCHANGED <<request, history>>
    BY <1>1 DEF MovesTo, Thins, NoInserter, Typed, TypeOK, history, Resolve
<1>3. Typed'
    BY <1>1, <1>2 DEF MovesTo, Typed, TypeOK, CallState, Thins, history, team, Resolve
<1>4. Asked'
    BY <1>1, <1>2, AskedMoves DEF Asked, WithId, Resolve
<1>5. UserIsAsked'
    BY <1>1, <1>2, UserIsAskedStays DEF MovesTo, Thins, Pending, Resolve, MayCall, Idle
<1>6. QED
    BY <1>2, <1>3, <1>4, <1>5, QuietKeeps

LEMMA GateKeeps ==
    ASSUME TreeAssumption, InteractionsInv, NEW t \in Threads, Gate(t)
    PROVE  InteractionsInv'
<1> USE DEF InteractionsInv
<1>1. \/ MovesTo(t, "decide", call[t].by, call[t].id, call[t].what)
      \/ MovesTo(t, "idle", None, None, None)
    BY GotoMoves, ReturnMoves DEF Gate, Stages
<1>2. Thins /\ NoInserter /\ UNCHANGED <<request, history>>
    BY <1>1 DEF MovesTo, Thins, NoInserter, Typed, TypeOK, history, Gate
<1>3. Typed'
    BY <1>1, <1>2 DEF MovesTo, Typed, TypeOK, CallState, Thins, history, team, Gate
<1>4. Asked'
    BY <1>1, <1>2, AskedMoves DEF Asked, WithId, Gate
<1>5. UserIsAsked'
    BY <1>1, <1>2, UserIsAskedStays DEF MovesTo, Thins, Pending, Gate
<1>6. QED
    BY <1>2, <1>3, <1>4, <1>5, QuietKeeps

LEMMA RefuseKeeps ==
    ASSUME TreeAssumption, InteractionsInv, NEW t \in Threads, Refuse(t)
    PROVE  InteractionsInv'
<1> USE DEF InteractionsInv
<1>1. MovesTo(t, "idle", None, None, None)
    BY ReturnMoves DEF Refuse
<1>2. Thins /\ NoInserter /\ UNCHANGED <<request, history>>
    BY <1>1 DEF MovesTo, Thins, NoInserter, Typed, TypeOK, history, Refuse
<1>3. Typed'
    BY <1>1, <1>2 DEF MovesTo, Typed, TypeOK, CallState, Thins, history, team, Refuse
<1>4. Asked'
    BY <1>1, <1>2, AskedMoves DEF Asked, WithId, Refuse
<1>5. UserIsAsked'
    BY <1>1, <1>2, UserIsAskedStays DEF MovesTo, Thins, Pending, Refuse
<1>6. QED
    BY <1>2, <1>3, <1>4, <1>5, QuietKeeps

LEMMA UseKeeps ==
    ASSUME TreeAssumption, InteractionsInv, NEW t \in Threads, NEW a \in People, NEW i \in Ids, NEW op \in Ops, Use(t, a, i, op)
    PROVE  InteractionsInv'
<1> USE DEF InteractionsInv
<1>1. MovesTo(t, "consume", a, i, op)
    BY CallingMoves DEF Use, Stages, What
<1>2. Thins /\ NoInserter /\ UNCHANGED <<request, history>>
    BY <1>1 DEF MovesTo, Thins, NoInserter, Typed, TypeOK, history, Use
<1>3. Typed'
    BY <1>1, <1>2 DEF MovesTo, Typed, TypeOK, CallState, Thins, history, team, Use
<1>4. Asked'
    BY <1>1, <1>2, AskedMoves DEF Asked, WithId, Use
<1>5. UserIsAsked'
    BY <1>1, <1>2, UserIsAskedStays DEF MovesTo, Thins, Pending, Use, MayCall, Idle
<1>6. QED
    BY <1>2, <1>3, <1>4, <1>5, QuietKeeps

LEMMA InterruptKeeps ==
    ASSUME TreeAssumption, InteractionsInv, NEW t \in Threads, NEW p \in People, NEW a \in Agents, Interrupt(t, p, a)
    PROVE  InteractionsInv'
<1> USE DEF InteractionsInv
<1>1. \E S \in SUBSET Agents : MovesTo(t, "revoke", p, None, S)
    BY CallingMoves DEF Interrupt, Stages, What
<1>2. Thins /\ NoInserter /\ UNCHANGED <<request, history>>
    BY <1>1 DEF MovesTo, Thins, NoInserter, Typed, TypeOK, history, Interrupt
<1>3. Typed'
    BY <1>1, <1>2 DEF MovesTo, Typed, TypeOK, CallState, Thins, history, team, Interrupt
<1>4. Asked'
    BY <1>1, <1>2, AskedMoves DEF Asked, WithId, Interrupt
<1>5. UserIsAsked'
    BY <1>1, <1>2, UserIsAskedStays DEF MovesTo, Thins, Pending, Interrupt, MayCall, Idle
<1>6. QED
    BY <1>2, <1>3, <1>4, <1>5, QuietKeeps

LEMMA RevokeNextKeeps ==
    ASSUME TreeAssumption, InteractionsInv, NEW t \in Threads, RevokeNext(t)
    PROVE  InteractionsInv'
<1> USE DEF InteractionsInv
<1>1. \/ MovesTo(t, "idle", None, None, None)
      \/ \E S \in SUBSET Agents : MovesTo(t, "revoke", call[t].by, call[t].id, S)
    <2>1. CASE call[t].what = {}
        BY <2>1, ReturnMoves DEF RevokeNext
    <2>2. CASE call[t].what # {}
        <3>1. PICK x \in call[t].what : call' = [call EXCEPT ![t].what = @ \ {x}]
            BY <2>2 DEF RevokeNext
        <3> DEFINE S == call[t].what \ {x}
                   c == [call[t] EXCEPT !.what = S]
        <3>2. S \in SUBSET Agents
            BY DEF Asked, RevokeNext
        <3>3. c \in CallState /\ c.pc = "revoke" /\ c.by = call[t].by /\ c.id = call[t].id /\ c.what = S
            <4> HIDE DEF S
            <4>1. QED
                BY <3>2 DEF Typed, CallState, What, RevokeNext
        <3>4. call' = [call EXCEPT ![t] = c]
            BY <3>1
        <3> HIDE DEF S, c
        <3>5. QED
            BY <3>2, <3>3, <3>4, CallMoves
    <2>3. QED
        BY <2>1, <2>2
<1>2. Thins /\ NoInserter /\ UNCHANGED <<request, history>>
    BY <1>1 DEF MovesTo, Thins, NoInserter, Typed, TypeOK, history, RevokeNext, Revoke
<1>3. Typed'
    BY <1>1, <1>2 DEF MovesTo, Typed, TypeOK, CallState, Thins, history, team, RevokeNext, Revoke
<1>4. Asked'
    BY <1>1, <1>2, AskedMoves DEF Asked, WithId, RevokeNext
<1>5. UserIsAsked'
    BY <1>1, <1>2, UserIsAskedStays DEF MovesTo, Thins, Pending, RevokeNext
<1>6. QED
    BY <1>2, <1>3, <1>4, <1>5, QuietKeeps

LEMMA ResetClearKeeps ==
    ASSUME TreeAssumption, InteractionsInv, NEW t \in Threads, ResetClear(t)
    PROVE  InteractionsInv'
<1> USE DEF InteractionsInv
<1>1. MovesTo(t, "reset", Root, None, None)
    BY CallingMoves DEF ResetClear, Stages, What, People
<1>2. Thins /\ NoInserter /\ UNCHANGED <<request, history>>
    BY <1>1 DEF MovesTo, Thins, NoInserter, Typed, TypeOK, history, ResetClear
<1>3. Typed'
    BY <1>1, <1>2 DEF MovesTo, Typed, TypeOK, CallState, Thins, history, team, ResetClear
<1>4. Asked'
    BY <1>1, <1>2, AskedMoves DEF Asked, WithId, ResetClear
<1>5. UserIsAsked'
    BY <1>1, <1>2, UserIsAskedStays DEF MovesTo, Thins, Pending, ResetClear, MayCall, Idle
<1>6. QED
    BY <1>2, <1>3, <1>4, <1>5, QuietKeeps

LEMMA ResetTeamKeeps ==
    ASSUME TreeAssumption, InteractionsInv, NEW t \in Threads, ResetTeam(t)
    PROVE  InteractionsInv'
<1> USE DEF InteractionsInv
<1>1. MovesTo(t, "idle", None, None, None)
    BY ReturnMoves DEF ResetTeam
<1>2. Thins /\ NoInserter /\ UNCHANGED <<request, history>>
    BY <1>1 DEF MovesTo, Thins, NoInserter, Typed, TypeOK, history, ResetTeam
<1>3. Typed'
    BY <1>1, <1>2 DEF MovesTo, Typed, TypeOK, CallState, Thins, history, team, ResetTeam
<1>4. Asked'
    BY <1>1, <1>2, AskedMoves DEF Asked, WithId, ResetTeam
<1>5. UserIsAsked'
    BY <1>1, <1>2, UserIsAskedStays DEF MovesTo, Thins, Pending, ResetTeam
<1>6. QED
    BY <1>2, <1>3, <1>4, <1>5, QuietKeeps

LEMMA FinishRevokeKeeps ==
    ASSUME TreeAssumption, InteractionsInv, NEW a \in Agents, FinishRevoke(a)
    PROVE  InteractionsInv'
<1> USE DEF InteractionsInv
<1>1. call' = call
    BY DEF FinishRevoke
<1>2. Thins /\ NoInserter /\ UNCHANGED <<request, history>>
    BY <1>1 DEF Thins, NoInserter, Typed, TypeOK, history, FinishRevoke, Revoke
<1>3. Typed'
    BY <1>1, <1>2 DEF Typed, TypeOK, CallState, Thins, history, team, FinishRevoke, Revoke
<1>4. Asked'
    BY <1>1, <1>2 DEF Asked
<1>5. UserIsAsked'
    BY <1>1, <1>2, UserIsAskedStays DEF Thins, Pending, FinishRevoke
<1>6. QED
    BY <1>2, <1>3, <1>4, <1>5, QuietKeeps

LEMMA FinishEndKeeps ==
    ASSUME TreeAssumption, InteractionsInv, NEW a \in Agents, FinishEnd(a)
    PROVE  InteractionsInv'
<1> USE DEF InteractionsInv
<1>1. call' = call
    BY DEF FinishEnd
<1>2. Thins /\ NoInserter /\ UNCHANGED <<request, history>>
    BY <1>1 DEF Thins, NoInserter, Typed, TypeOK, history, FinishEnd
<1>3. Typed'
    BY <1>1, <1>2, ZenonT(60) DEF Typed, TypeOK, CallState, Thins, history, team, FinishEnd, TreeAssumption
<1>4. Asked'
    BY <1>1, <1>2 DEF Asked
<1>5. UserIsAsked'
    BY <1>1, <1>2, UserIsAskedStays DEF Thins, Pending, FinishEnd
<1>6. QED
    BY <1>2, <1>3, <1>4, <1>5, QuietKeeps

LEMMA StopKeeps ==
    ASSUME TreeAssumption, InteractionsInv, Stop
    PROVE  InteractionsInv'
<1> USE DEF InteractionsInv
<1>1. call' = call
    BY DEF Stop
<1>2. Thins /\ NoInserter /\ UNCHANGED <<request, history>>
    BY <1>1 DEF Thins, NoInserter, Typed, TypeOK, history, Stop
<1>3. Typed'
    BY <1>1, <1>2 DEF Typed, TypeOK, CallState, Thins, history, team, Stop
<1>4. Asked'
    BY <1>1, <1>2 DEF Asked
<1>5. UserIsAsked'
    BY <1>1, <1>2, UserIsAskedStays DEF Thins, Pending, Stop
<1>6. QED
    BY <1>2, <1>3, <1>4, <1>5, QuietKeeps

-----------------------------------------------------------------------------
(* Steps that create, answer, hand on and use an interaction *)

LEMMA AskKeeps ==
    ASSUME TreeAssumption, InteractionsInv, NEW t \in Threads, NEW a \in People, NEW i \in Ids,
           NEW op \in Ops \cup {None}, NEW risky \in BOOLEAN, Ask(t, a, i, op, risky)
    PROVE  InteractionsInv'
<1> USE DEF InteractionsInv
<1> DEFINE r == [by |-> a, op |-> op, risky |-> risky]
<1>1. FirstOwner(a, risky) \in People
    BY DEF FirstOwner, TreeAssumption, People
<1>2. MovesTo(t, "insert", a, i, FirstOwner(a, risky))
    BY <1>1, CallingMoves DEF Ask, Stages, What
<1>3. r \in Requests /\ r # None
    BY DEF TreeAssumption, Requests, People
<1>4. request' = [request EXCEPT ![i] = r] /\ request[i] = None
    BY DEF Ask
<1>5. request'[i] = r /\ r.by = a /\ r.op = op /\ r.risky = risky /\ \A j \in Ids \ {i} : request'[j] = request[j]
    BY <1>4 DEF Typed, TypeOK
<1>6. table[i] = None /\ decision[i] = None /\ uses[i] = <<>>
    BY <1>4 DEF Requested
<1> HIDE DEF r
<1>7. Typed'
    <2>1. request' \in [Ids -> Requests \cup {None}]
        BY <1>3, <1>4 DEF Typed, TypeOK
    <2>2. \A j \in Ids : table'[j] # None => request'[j] # None
        BY <1>5, <1>6 DEF Typed, TypeOK, Ask
    <2>3. \A u \in Threads : call'[u] \in CallState
        BY <1>2 DEF MovesTo
    <2>4. QED
        BY <1>2, <2>1, <2>2, <2>3 DEF MovesTo, Typed, TypeOK, CallState, history, team, Ask
<1>8. Asked'
    BY <1>1, <1>2, <1>3, <1>5, AskedMoves
<1>9. Inserting'
    <2>1. \A u \in Threads : u # t /\ call'[u].pc = "insert" => call'[u] = call[u] /\ call[u].id # i
        BY <1>2, <1>4 DEF MovesTo, Asked, WithId
    <2>2. UNCHANGED <<table, decision, uses>>
        BY DEF Ask, history
    <2>3. ASSUME NEW u \in Threads, call'[u].pc = "insert"
          PROVE  LET j == call'[u].id IN
                 /\ table'[j] = None /\ decision'[j] = None /\ uses'[j] = <<>>
                 /\ call'[u].what = FirstOwner(request'[j].by, request'[j].risky)
        <3>1. CASE u = t
            BY <1>2, <1>5, <1>6, <2>2, <3>1 DEF MovesTo
        <3>2. CASE u # t
            <4>1. call'[u] = call[u] /\ call[u].id \in Ids \ {i}
                BY <2>1, <2>3, <3>2 DEF Asked, WithId
            <4>2. QED
                BY <1>5, <2>2, <2>3, <4>1 DEF Inserting
        <3>3. QED
            BY <3>1, <3>2
    <2>4. ASSUME NEW u \in Threads, NEW v \in Threads,
                 call'[u].pc = "insert", call'[v].pc = "insert", call'[u].id = call'[v].id
          PROVE  u = v
        BY <1>2, <2>1, <2>4 DEF MovesTo, Inserting
    <2>5. QED
        BY <2>3, <2>4 DEF Inserting, FirstOwner
<1>10. Requested'
    BY <1>5, <1>6, <1>3 DEF Requested, IsApproval, Ask, history, People
<1>11. Entered' /\ Owned'
    BY <1>5, <1>6 DEF Entered, Owned, IsApproval, Ask, history
<1>12. TicketsAuthoriseOnce'
    BY <1>5, <1>6 DEF TicketsAuthoriseOnce, Ask, history
<1>13. GrantedByItsOwner'
    BY <1>5, <1>6 DEF GrantedByItsOwner, TreeAssumption, Decisions, Ask, history
<1>14. UserIsAsked'
    BY <1>2, UserIsAskedStays DEF MovesTo, Pending, MayCall, Idle, Ask
<1>15. QED
    BY <1>7, <1>8, <1>9, <1>10, <1>11, <1>12, <1>13, <1>14

LEMMA InsertKeeps ==
    ASSUME TreeAssumption, InteractionsInv, NEW t \in Threads, Insert(t)
    PROVE  InteractionsInv'
<1> USE DEF InteractionsInv
<1> DEFINE i == call[t].id
           w == call[t].what
           e == [owner |-> w, response |-> None, fresh |-> TRUE]
<1>1. i \in Ids /\ w \in People /\ request[i] # None /\ request[i] \in Requests
    BY DEF Asked, WithId, Insert, Typed, TypeOK
<1>2. /\ table[i] = None /\ decision[i] = None /\ uses[i] = <<>>
      /\ w = FirstOwner(request[i].by, request[i].risky)
    BY DEF Inserting, Insert
<1>3. MovesTo(t, "auto", call[t].by, i, w)
    BY GotoMoves DEF Insert, Stages
<1>4. table' = [table EXCEPT ![i] = e]
    BY DEF Insert
<1>5. e \in Entries /\ e.owner = w /\ e.response = None
    BY <1>1 DEF Entries
<1>6. UNCHANGED <<request, shown, decision, decider, uses, team>>
    BY DEF Insert, history
<1> HIDE DEF i, w, e
<1>7. table'[i] = e /\ \A j \in Ids \ {i} : table'[j] = table[j]
    BY <1>1, <1>4 DEF Typed, TypeOK
<1>8. Typed'
    BY <1>1, <1>3, <1>4, <1>5, <1>6 DEF MovesTo, Typed, TypeOK, CallState, team
<1>9. Asked'
    BY <1>1, <1>3, <1>6, AskedMoves DEF Asked, WithId, Insert
<1>10. Inserting'
    <2>1. \A u \in Threads : call'[u].pc = "insert" =>
             u # t /\ call'[u] = call[u] /\ call[u].id \in Ids \ {i}
        BY <1>3 DEF MovesTo, Inserting, Asked, WithId, Insert, i
    <2>2. QED
        BY <1>6, <1>7, <2>1 DEF Inserting, FirstOwner
<1>11. Requested'
    BY <1>1, <1>6, <1>7 DEF Requested, IsApproval
<1>12. Entered'
    BY <1>2, <1>5, <1>6, <1>7 DEF Entered
<1>13. Owned'
    <2>1. ASSUME IsApproval(i)
          PROVE  /\ w \in Above[request[i].by]
                 /\ request[i].risky => w = Root
        BY <1>1, <1>2, <2>1, RootAbove DEF Requested, FirstOwner, TreeAssumption
    <2>2. QED
        BY <1>1, <1>5, <1>6, <1>7, <2>1 DEF Owned, IsApproval
<1>14. TicketsAuthoriseOnce'
    BY <1>6 DEF TicketsAuthoriseOnce
<1>15. GrantedByItsOwner'
    BY <1>2, <1>6, <1>7 DEF GrantedByItsOwner, TreeAssumption, Decisions
<1>16. UserIsAsked'
    <2>1. ASSUME NEW j \in Ids, Pending(j)', table'[j].owner = Root, j \notin shown'
          PROVE  \E u \in Threads : call'[u].id = j /\ call'[u].what = Root
                                      /\ call'[u].pc \in {"auto", "tell_owner"}
        <3>1. CASE j = i
            BY <1>3, <1>5, <1>7, <2>1, <3>1 DEF MovesTo
        <3>2. CASE j # i
            <4>1. PICK u \in Threads : call[u].id = j /\ call[u].what = Root
                                         /\ call[u].pc \in {"auto", "tell_owner"}
                BY <1>6, <1>7, <2>1, <3>2 DEF UserIsAsked, Pending
            <4>2. call'[u] = call[u]
                BY <1>3, <3>2, <4>1 DEF MovesTo, i
            <4>3. QED
                BY <4>1, <4>2
        <3>3. QED
            BY <3>1, <3>2
    <2>2. QED
        BY <2>1 DEF UserIsAsked
<1>17. QED
    BY <1>8, <1>9, <1>10, <1>11, <1>12, <1>13, <1>14, <1>15, <1>16

\* A response d of `who' to interaction i, which nobody has answered.
LEMMA AnswerKeeps ==
    ASSUME TreeAssumption, InteractionsInv, NEW i \in Ids, NEW d \in Decisions,
           NEW who \in People \cup {"hook"}, Pending(i), Answer(i, d, who),
           NoInserter, UNCHANGED <<team, request, shown>>,
           call' \in [Threads -> CallState], Asked',
           IsApproval(i) /\ d = "approve" => who = table[i].owner,
           \A t \in Threads, j \in Ids \ {i} :
               call[t].id = j /\ call[t].what = Root /\ call[t].pc \in {"auto", "tell_owner"} =>
                   call'[t] = call[t]
    PROVE  InteractionsInv'
<1> USE DEF InteractionsInv
<1>1. table[i] \in Entries /\ request[i] # None /\ decision[i] = None /\ uses[i] = <<>>
    BY DEF Pending, Typed, TypeOK, Entered
<1>2. /\ \A j \in Ids \ {i} : table'[j] = table[j] /\ decision'[j] = decision[j] /\ decider'[j] = decider[j]
      /\ decision'[i] = d /\ decider'[i] = who /\ uses' = uses
    BY <1>1 DEF Answer, Typed, TypeOK
<1>3. table'[i] \in Entries /\ table'[i].response = d /\ table'[i].owner = table[i].owner
    BY <1>1 DEF Answer, Typed, TypeOK, Entries
<1>4. d # None
    BY DEF TreeAssumption
<1>5. Typed'
    <2>1. table' \in [Ids -> Entries \cup {None}] /\ decision' \in [Ids -> Decisions \cup {None}]
        BY <1>2, <1>3 DEF Answer, Typed, TypeOK
    <2>2. decider' \in [Ids -> People \cup {"hook", None}]
        BY DEF Answer, Typed
    <2>3. \A j \in Ids : table'[j] # None => request'[j] # None
        BY <1>1, <1>2 DEF Typed, TypeOK
    <2>4. \A t \in Threads : call'[t] \in CallState
        OBVIOUS
    <2>5. QED
        BY <1>2, <2>1, <2>2, <2>3, <2>4 DEF Typed, TypeOK, CallState, team
<1>6. Inserting' /\ Requested'
    <2>1. AbsentStay
        BY <1>2 DEF AbsentStay, Pending
    <2>2. QED
        BY <2>1, InsertingStays, RequestedStays
<1>7. Entered'
    BY <1>1, <1>2, <1>3 DEF Entered
<1>8. Owned'
    BY <1>1, <1>2, <1>3 DEF Owned, IsApproval, Pending
<1>9. TicketsAuthoriseOnce'
    BY <1>1, <1>2 DEF TicketsAuthoriseOnce
<1>10. GrantedByItsOwner'
    <2>1. ASSUME IsApproval(i), d = "approve"
          PROVE  /\ who \in Above[request[i].by]
                 /\ request[i].risky => who = Root
                 /\ table'[i].owner = who
        BY <1>3, <2>1 DEF Owned, Pending
    <2>2. QED
        BY <1>2, <2>1 DEF GrantedByItsOwner, IsApproval
<1>11. UserIsAsked'
    BY <1>1, <1>2, <1>3, <1>4, UserIsAskedStays DEF Pending
<1>12. QED
    BY <1>5, <1>6, <1>7, <1>8, <1>9, <1>10, <1>11

LEMMA AutoAnswerKeeps ==
    ASSUME TreeAssumption, InteractionsInv, NEW t \in Threads, NEW d \in Decisions, AutoAnswer(t, d)
    PROVE  InteractionsInv'
<1> USE DEF InteractionsInv
<1>1. \/ MovesTo(t, "idle", None, None, None)
      \/ MovesTo(t, "tell_owner", call[t].by, call[t].id, call[t].what)
    BY ReturnMoves, GotoMoves DEF AutoAnswer, Stages
<1>2. call[t].id \in Ids /\ call[t].by \in People /\ call[t].what \in People
      /\ request[call[t].id] # None
    BY DEF Asked, WithId, AutoAnswer
<1>3. Asked'
    BY <1>1, <1>2, AskedMoves DEF WithId, AutoAnswer
<1>4. NoInserter /\ call' \in [Threads -> CallState]
    BY <1>1 DEF MovesTo, NoInserter
<1>5. IsApproval(call[t].id) => d = "deny"
    BY DEF AutoAnswer
<1>6. QED
    BY <1>1, <1>2, <1>3, <1>4, <1>5, AnswerKeeps DEF AutoAnswer, MovesTo

LEMMA DecideKeeps ==
    ASSUME TreeAssumption, InteractionsInv, NEW t \in Threads, Decide(t)
    PROVE  InteractionsInv'
<1> USE DEF InteractionsInv
<1>1. MovesTo(t, "idle", None, None, None)
    BY ReturnMoves DEF Decide
<1>2. call[t].id \in Ids /\ call[t].by \in People
    BY DEF Asked, WithId, Decide
<1>3. Asked'
    BY <1>1, AskedMoves DEF WithId, Decide
<1>4. NoInserter /\ call' \in [Threads -> CallState]
    BY <1>1 DEF MovesTo, NoInserter
<1>5. call[t].what \in Decisions
    BY DEF Asked, Decide
<1>6. QED
    BY <1>1, <1>2, <1>3, <1>4, <1>5, AnswerKeeps DEF Decide, MayDecide, MovesTo

LEMMA EscalateKeeps ==
    ASSUME TreeAssumption, InteractionsInv, NEW t \in Threads, Escalate(t)
    PROVE  InteractionsInv'
<1> USE DEF InteractionsInv
<1> DEFINE i == call[t].id
           b == call[t].by
           e == [table[i] EXCEPT !.owner = Parent[b]]
           c == [call[t] EXCEPT !.pc = "tell_owner", !.what = Parent[b]]
<1>1. i \in Ids /\ b \in Agents /\ request[i] # None
    BY DEF Asked, WithId, Escalate, People, Typed, TypeOK
<1>2. Parent[b] \in People
    BY <1>1 DEF TreeAssumption, People
<1>3. table[i] \in Entries /\ table[i].owner = b /\ table[i].response = None
    BY <1>1 DEF Escalate, MayDecide, Pending, Typed, TypeOK
<1>4. e \in Entries /\ e.owner = Parent[b] /\ e.response = None
    BY <1>2, <1>3 DEF Entries
<1>5. MovesTo(t, "tell_owner", b, i, Parent[b])
    <2>1. c \in CallState /\ c.pc = "tell_owner" /\ c.by = b /\ c.id = i /\ c.what = Parent[b]
        BY <1>2 DEF Typed, CallState, Stages, What
    <2>2. call' = [call EXCEPT ![t] = c]
        BY DEF Escalate
    <2> HIDE DEF c, i, b
    <2>3. QED
        BY <2>1, <2>2, CallMoves
<1>6. table' = [table EXCEPT ![i] = e] /\ UNCHANGED <<team, request, shown, history>>
    BY DEF Escalate
<1> HIDE DEF i, b, e, c
<1>7. table'[i] = e /\ \A j \in Ids \ {i} : table'[j] = table[j]
    BY <1>1, <1>6 DEF Typed, TypeOK
<1>8. Typed'
    <2>1. table' \in [Ids -> Entries \cup {None}]
        BY <1>4, <1>6 DEF Typed, TypeOK
    <2>2. \A j \in Ids : table'[j] # None => request'[j] # None
        BY <1>1, <1>6, <1>7 DEF Typed, TypeOK
    <2>3. \A u \in Threads : call'[u] \in CallState
        BY <1>5 DEF MovesTo
    <2>4. QED
        BY <1>5, <1>6, <2>1, <2>2, <2>3 DEF MovesTo, Typed, TypeOK, CallState, team, history
<1>9. Asked'
    BY <1>1, <1>2, <1>5, <1>6, AskedMoves DEF People
<1>10. Inserting' /\ Requested'
    <2>1. AbsentStay /\ NoInserter
        BY <1>3, <1>5, <1>6, <1>7 DEF AbsentStay, NoInserter, MovesTo, history, Escalate, MayDecide, Pending, i
    <2>2. QED
        BY <1>6, <2>1, InsertingStays, RequestedStays
<1>11. decision[i] = None /\ uses[i] = <<>> /\ table[i] # None
    BY <1>1, <1>3 DEF Entered, Escalate, MayDecide, Pending, i
<1>12. Entered'
    BY <1>4, <1>6, <1>7, <1>11 DEF Entered, history
<1>13. Owned'
    <2>1. ASSUME IsApproval(i)
          PROVE  /\ Parent[b] \in Above[request[i].by]
                 /\ request[i].risky => Parent[b] = Root
        <3>1. b \in Above[request[i].by] /\ b # Root /\ ~request[i].risky
            BY <1>1, <1>3, <1>11, <2>1 DEF Owned, TreeAssumption
        <3>2. request[i].by \in Agents
            BY <1>1, <2>1 DEF Requested
        <3>3. QED
            BY <3>1, <3>2, AboveClosed DEF Typed, TypeOK, Requests
    <2>2. QED
        BY <1>1, <1>4, <1>6, <1>7, <2>1 DEF Owned, IsApproval
<1>14. TicketsAuthoriseOnce'
    BY <1>6 DEF TicketsAuthoriseOnce, history
<1>15. GrantedByItsOwner'
    BY <1>6, <1>7, <1>11 DEF GrantedByItsOwner, TreeAssumption, Decisions, history
<1>16. UserIsAsked'
    <2>1. ASSUME NEW j \in Ids, Pending(j)', table'[j].owner = Root, j \notin shown'
          PROVE  \E u \in Threads : call'[u].id = j /\ call'[u].what = Root
                                      /\ call'[u].pc \in {"auto", "tell_owner"}
        <3>1. CASE j = i
            BY <1>4, <1>5, <1>7, <2>1, <3>1 DEF MovesTo
        <3>2. CASE j # i
            <4>1. PICK u \in Threads : call[u].id = j /\ call[u].what = Root
                                         /\ call[u].pc \in {"auto", "tell_owner"}
                BY <1>6, <1>7, <2>1, <3>2 DEF UserIsAsked, Pending
            <4>2. call'[u] = call[u]
                BY <1>5, <3>2, <4>1 DEF MovesTo, i
            <4>3. QED
                BY <4>1, <4>2
        <3>3. QED
            BY <3>1, <3>2
    <2>2. QED
        BY <2>1 DEF UserIsAsked
<1>17. QED
    BY <1>8, <1>9, <1>10, <1>12, <1>13, <1>14, <1>15, <1>16

LEMMA ConsumeKeeps ==
    ASSUME TreeAssumption, InteractionsInv, NEW t \in Threads, Consume(t)
    PROVE  InteractionsInv'
<1> USE DEF InteractionsInv
<1> DEFINE i == call[t].id
           a == call[t].by
           op == call[t].what
           r == [by |-> a, op |-> op]
<1>1. i \in Ids /\ a \in People /\ op \in What
    BY DEF Asked, WithId, Consume, Typed, CallState
<1>2. MovesTo(t, "idle", None, None, None)
    BY ReturnMoves DEF Consume
<1>3. /\ table' = [table EXCEPT ![i] = None]
      /\ uses' = IF Authorises(i, a, op) THEN [uses EXCEPT ![i] = Append(@, r)] ELSE uses
      /\ UNCHANGED <<team, request, shown, decision, decider>>
    BY DEF Consume
<1>4. r \in [by : People \cup {None}, op : What]
    BY <1>1
<1> HIDE DEF i, a, op
<1>5. table'[i] = None /\ \A j \in Ids \ {i} : table'[j] = table[j] /\ uses'[j] = uses[j]
    BY <1>1, <1>3 DEF Typed, TypeOK
<1>6. Authorises(i, a, op) => uses[i] = <<>> /\ decision[i] = "approve" /\ r = [by |-> request[i].by, op |-> request[i].op]
    BY <1>1 DEF Authorises, Entered
<1>7. uses'[i] = uses[i] \/ (Authorises(i, a, op) /\ uses'[i] = <<r>>)
    <2>1. CASE Authorises(i, a, op)
        <3>1. uses'[i] = Append(uses[i], r)
            BY <1>1, <1>3, <2>1 DEF Typed
        <3>2. Append(<<>>, r) = <<r>>
            OBVIOUS
        <3>3. QED
            BY <1>6, <2>1, <3>1, <3>2
    <2>2. CASE ~Authorises(i, a, op)
        BY <1>3, <2>2
    <2>3. QED
        BY <2>1, <2>2
<1>8. Typed'
    <2>1. table' \in [Ids -> Entries \cup {None}] /\ \A j \in Ids : table'[j] # None => request'[j] # None
        BY <1>3 DEF Typed, TypeOK
    <2>2. uses' \in [Ids -> Seq([by : People \cup {None}, op : What])]
        <3>1. Append(uses[i], r) \in Seq([by : People \cup {None}, op : What])
            BY <1>1, <1>4, AppendProperties DEF Typed
        <3>2. QED
            BY <1>1, <1>3, <3>1 DEF Typed
    <2>3. \A u \in Threads : call'[u] \in CallState
        BY <1>2 DEF MovesTo
    <2>4. QED
        BY <1>2, <1>3, <2>1, <2>2, <2>3 DEF MovesTo, Typed, TypeOK, CallState, team
<1>9. Asked'
    BY <1>2, <1>3, AskedMoves DEF WithId
<1>10. Inserting' /\ Requested'
    <2>1. AbsentStay
        BY <1>3, <1>5 DEF AbsentStay, Authorises, Typed, TypeOK
    <2>2. NoInserter
        BY <1>2 DEF NoInserter, MovesTo
    <2>3. QED
        BY <1>3, <2>1, <2>2, InsertingStays, RequestedStays
<1>11. Entered' /\ Owned'
    BY <1>3, <1>5 DEF Entered, Owned, IsApproval
<1>12. TicketsAuthoriseOnce'
    BY <1>3, <1>5, <1>6, <1>7 DEF TicketsAuthoriseOnce
<1>13. GrantedByItsOwner'
    BY <1>3, <1>5 DEF GrantedByItsOwner
<1>14. UserIsAsked'
    BY <1>2, <1>3, <1>5, UserIsAskedStays DEF MovesTo, Pending, Consume
<1>15. QED
    BY <1>8, <1>9, <1>10, <1>11, <1>12, <1>13, <1>14

LEMMA ExpireKeeps ==
    ASSUME TreeAssumption, InteractionsInv, NEW i \in Ids, Expire(i)
    PROVE  InteractionsInv'
<1> USE DEF InteractionsInv
<1>1. table[i] \in Entries /\ table[i] # None
    BY DEF Expire, Typed, TypeOK
<1>2. /\ table'[i] \in Entries /\ table'[i].response = table[i].response
      /\ table'[i].owner = table[i].owner
      /\ \A j \in Ids \ {i} : table'[j] = table[j]
    BY <1>1 DEF Expire, Typed, TypeOK, Entries
<1>3. UNCHANGED <<team, request, shown, call, history>>
    BY DEF Expire
<1>4. Typed'
    <2>1. table' \in [Ids -> Entries \cup {None}]
        BY <1>2 DEF Expire, Typed, TypeOK
    <2>2. \A j \in Ids : table'[j] # None => request'[j] # None
        BY <1>1, <1>2, <1>3 DEF Typed, TypeOK
    <2>3. QED
        BY <1>3, <2>1, <2>2 DEF Typed, TypeOK, team, history
<1>5. Asked'
    BY <1>3 DEF Asked
<1>6. Inserting' /\ Requested'
    <2>1. AbsentStay /\ NoInserter
        BY <1>1, <1>2, <1>3 DEF AbsentStay, NoInserter, history
    <2>2. QED
        BY <1>3, <2>1, InsertingStays, RequestedStays
<1>7. Entered' /\ Owned'
    BY <1>1, <1>2, <1>3 DEF Entered, Owned, IsApproval, history
<1>8. TicketsAuthoriseOnce' /\ GrantedByItsOwner'
    BY <1>1, <1>2, <1>3 DEF TicketsAuthoriseOnce, GrantedByItsOwner, history
<1>9. UserIsAsked'
    BY <1>1, <1>2, <1>3, UserIsAskedStays DEF Pending
<1>10. QED
    BY <1>4, <1>5, <1>6, <1>7, <1>8, <1>9
-----------------------------------------------------------------------------
LEMMA InteractionsInitInv ==
    ASSUME TreeAssumption, Init
    PROVE  InteractionsInv
<1> USE DEF Init, Idle
<1>1. Typed
    <2>1. <<>> \in Seq([by : People \cup {None}, op : What])
        BY EmptySeq
    <2>2. Root \in People /\ "alive" \in {"alive", "revoked", "ended"}
        BY DEF People
    <2>3. [pc |-> "idle", by |-> None, id |-> None, what |-> None] \in CallState
        BY DEF CallState, Stages, What
    <2>4. QED
        BY <2>1, <2>2, <2>3 DEF Typed, TypeOK, Stages
<1>2. Asked /\ Inserting /\ Requested /\ Entered /\ Owned
    BY DEF Asked, WithId, Inserting, Requested, Entered, Owned
<1>3. TicketsAuthoriseOnce /\ GrantedByItsOwner /\ UserIsAsked
    BY DEF TicketsAuthoriseOnce, GrantedByItsOwner, UserIsAsked, Pending
<1>4. QED
    BY <1>1, <1>2, <1>3 DEF InteractionsInv

LEMMA InteractionsStepInv ==
    ASSUME TreeAssumption, InteractionsInv, [Next]_vars
    PROVE  InteractionsInv'
<1>1. ASSUME NEW t \in Threads, NEW a \in People, NEW i \in Ids, NEW op \in Ops \cup {None},
             NEW risky \in BOOLEAN, Ask(t, a, i, op, risky)
      PROVE  InteractionsInv'
    BY <1>1, AskKeeps
<1>2. ASSUME NEW t \in Threads,
             Insert(t) \/ NoAutoAnswer(t) \/ AutoEscalate(t) \/ TellOwner(t) \/ Gate(t)
      PROVE  InteractionsInv'
    BY <1>2, InsertKeeps, NoAutoAnswerKeeps, AutoEscalateKeeps, TellOwnerKeeps, GateKeeps
<1>3. ASSUME NEW t \in Threads, NEW d \in Decisions, AutoAnswer(t, d) PROVE InteractionsInv'
    BY <1>3, AutoAnswerKeeps
<1>4. ASSUME NEW t \in Threads, NEW o \in People, NEW i \in Ids, NEW d \in Decisions,
             Resolve(t, o, i, d)
      PROVE  InteractionsInv'
    BY <1>4, ResolveKeeps
<1>5. ASSUME NEW t \in Threads, Decide(t) \/ Escalate(t) \/ Refuse(t) \/ Consume(t)
      PROVE  InteractionsInv'
    BY <1>5, DecideKeeps, EscalateKeeps, RefuseKeeps, ConsumeKeeps
<1>6. ASSUME NEW t \in Threads, NEW a \in People, NEW i \in Ids, NEW op \in Ops, Use(t, a, i, op)
      PROVE  InteractionsInv'
    BY <1>6, UseKeeps
<1>7. ASSUME NEW t \in Threads, NEW p \in People, NEW a \in Agents, Interrupt(t, p, a)
      PROVE  InteractionsInv'
    BY <1>7, InterruptKeeps
<1>8. ASSUME NEW t \in Threads, RevokeNext(t) \/ ResetClear(t) \/ ResetTeam(t)
      PROVE  InteractionsInv'
    BY <1>8, RevokeNextKeeps, ResetClearKeeps, ResetTeamKeeps
<1>9. ASSUME NEW i \in Ids, Expire(i) PROVE InteractionsInv'
    BY <1>9, ExpireKeeps
<1>10. ASSUME NEW a \in Agents, FinishRevoke(a) \/ FinishEnd(a) PROVE InteractionsInv'
    BY <1>10, FinishRevokeKeeps, FinishEndKeeps
<1>11. CASE Stop
    BY <1>11, StopKeeps
<1>12. CASE UNCHANGED vars
    <2> USE <1>12 DEF vars, InteractionsInv
    <2>1. Typed'
        BY DEF Typed, TypeOK
    <2>2. Asked' /\ Inserting' /\ Requested'
        BY DEF Asked, Inserting, FirstOwner, Requested, IsApproval
    <2>3. Entered' /\ Owned' /\ TicketsAuthoriseOnce'
        BY DEF Entered, Owned, IsApproval, TicketsAuthoriseOnce
    <2>4. GrantedByItsOwner' /\ UserIsAsked'
        BY DEF GrantedByItsOwner, UserIsAsked, Pending
    <2>5. QED
        BY <2>1, <2>2, <2>3, <2>4
<1>13. QED
    BY <1>1, <1>2, <1>3, <1>4, <1>5, <1>6, <1>7, <1>8, <1>9, <1>10, <1>11, <1>12 DEF Next

THEOREM InteractionsInvariant ==
    ASSUME TreeAssumption
    PROVE  Spec => []InteractionsInv
<1>1. Init => InteractionsInv
    BY InteractionsInitInv
<1>2. InteractionsInv /\ [Next]_vars => InteractionsInv'
    BY InteractionsStepInv
<1>3. QED
    BY <1>1, <1>2, PTL DEF Spec

\* The map of interactions, and what the request threads carry, are of the kind the module says.
THEOREM InteractionTypes ==
    ASSUME TreeAssumption
    PROVE  Spec => []TypeOK
BY InteractionsInvariant, PTL DEF InteractionsInv, Typed

\* For any number of agents, tickets and threads an approval authorises one execution, of the
\* operation it was asked for (consume_approval).
THEOREM TicketsOnce ==
    ASSUME TreeAssumption
    PROVE  Spec => []TicketsAuthoriseOnce
BY InteractionsInvariant, PTL DEF InteractionsInv

\* For a tree of agents of any shape an approval is granted by its owner, who is above the
\* requester, and by the user if it is high-risk (resolve_interaction_for_owner).
THEOREM GrantedFromAbove ==
    ASSUME TreeAssumption
    PROVE  Spec => []GrantedByItsOwner
BY InteractionsInvariant, PTL DEF InteractionsInv

\* No interaction waits for the user without being put before the user
\* (notify_interaction_owner).
THEOREM UserAsked ==
    ASSUME TreeAssumption
    PROVE  Spec => []UserIsAsked
BY InteractionsInvariant, PTL DEF InteractionsInv

\* What one step may do to a decision, which is what DecisionStands says of every step.
DecisionStep == \A i \in Ids : decision[i] # None =>
    /\ decision'[i] = decision[i]
    /\ table'[i] # None => table'[i].response = decision[i]

LEMMA DecisionKept ==
    ASSUME InteractionsInv, InteractionsInv', [Next]_vars
    PROVE  DecisionStep
<1> SUFFICES \A i \in Ids : decision[i] # None => decision'[i] = decision[i]
    BY DEF DecisionStep, InteractionsInv, Entered
<1>1. CASE UNCHANGED decision
    BY <1>1
<1>2. ASSUME NEW t \in Threads, (\E d \in Decisions : AutoAnswer(t, d)) \/ Decide(t)
      PROVE  \A j \in Ids : decision[j] # None => decision'[j] = decision[j]
    BY <1>2 DEF AutoAnswer, Decide, Answer, InteractionsInv, Typed
<1>3. ASSUME NEW t \in Threads,
             \/ \E a \in People, i \in Ids, op \in Ops \cup {None}, risky \in BOOLEAN :
                   Ask(t, a, i, op, risky)
             \/ Insert(t) \/ NoAutoAnswer(t) \/ AutoEscalate(t) \/ TellOwner(t) \/ Gate(t)
      PROVE  UNCHANGED decision
    BY <1>3 DEF history, Ask, Insert, NoAutoAnswer, AutoEscalate, TellOwner, Gate
<1>4. ASSUME NEW t \in Threads,
             \/ \E o \in People, i \in Ids, d \in Decisions : Resolve(t, o, i, d)
             \/ \E a \in People, i \in Ids, op \in Ops : Use(t, a, i, op)
             \/ Escalate(t) \/ Refuse(t) \/ Consume(t)
      PROVE  UNCHANGED decision
    BY <1>4 DEF history, Resolve, Use, Escalate, Refuse, Consume
<1>5. ASSUME NEW t \in Threads,
             \/ \E p \in People, a \in Agents : Interrupt(t, p, a)
             \/ RevokeNext(t) \/ ResetClear(t) \/ ResetTeam(t)
      PROVE  UNCHANGED decision
    BY <1>5 DEF history, Interrupt, RevokeNext, ResetClear, ResetTeam
<1>6. ASSUME (\E i \in Ids : Expire(i)) \/ (\E a \in Agents : FinishRevoke(a) \/ FinishEnd(a))
      PROVE  UNCHANGED decision
    BY <1>6 DEF history, Expire, FinishRevoke, FinishEnd
<1>7. ASSUME Stop PROVE UNCHANGED decision
    BY <1>7 DEF history, Stop
<1>8. \/ UNCHANGED decision
      \/ \E t \in Threads : (\E d \in Decisions : AutoAnswer(t, d)) \/ Decide(t)
  <2>1. CASE UNCHANGED vars
    BY <2>1 DEF vars
  <2>2. ASSUME NEW t \in Threads,
               ~ \E t1 \in Threads : (\E d \in Decisions : AutoAnswer(t1, d)) \/ Decide(t1)
        PROVE  ((\E a \in People, i \in Ids, op \in Ops \cup {None}, risky \in BOOLEAN :
                     Ask(t, a, i, op, risky))
                \/ Insert(t) \/ NoAutoAnswer(t) \/ AutoEscalate(t) \/ TellOwner(t)
                \/ (\E d \in Decisions : AutoAnswer(t, d))
                \/ (\E o \in People, i \in Ids, d \in Decisions : Resolve(t, o, i, d))
                \/ Gate(t) \/ Decide(t) \/ Escalate(t) \/ Refuse(t)
                \/ (\E a \in People, i \in Ids, op \in Ops : Use(t, a, i, op))
                \/ Consume(t)
                \/ (\E p \in People, a \in Agents : Interrupt(t, p, a))
                \/ RevokeNext(t) \/ ResetClear(t) \/ ResetTeam(t))
               => UNCHANGED decision
    BY <2>2, <1>3, <1>4, <1>5
  <2>3. CASE Next
    BY <2>3, <2>2, <1>6, <1>7 DEF Next
  <2>4. QED
    BY <2>1, <2>3
<1>9. QED
    BY <1>1, <1>2, <1>8

\* The first answer is not replaced, whoever resolves the interaction how often.
THEOREM DecisionsStand ==
    ASSUME TreeAssumption
    PROVE  Spec => DecisionStands
<1>1. InteractionsInv /\ InteractionsInv' /\ [Next]_vars => [DecisionStep]_vars
    BY DecisionKept
<1>2. QED
    BY <1>1, InteractionsInvariant, PTL DEF Spec, DecisionStands, DecisionStep

-----------------------------------------------------------------------------
(* RootMail: what the invariant says *)

Sending == {"locate", "remote", "queue", "create", "fill"}
Moving == {"take", "remove", "unregister", "register"}

\* Where m is, files that are not whole or being removed included.
Filed(m, x, i) == i \in DOMAIN mailbox[x] /\ mailbox[x][i].msg = m
Whole(x, i) == mailbox[x][i].whole
Held(m, t, i) == i \in DOMAIN errand[t].got /\ errand[t].got[i] = m
Boxed(m, r, i) == i \in DOMAIN inbox[r] /\ inbox[r][i] = m

Errand ==
    [pc : Stops, root : Roots \cup {Nobody}, msg : Messages \cup {Nobody},
     session : RootSessions \cup {Nobody}, at : Roots \cup {Nobody}, got : Seq(Messages)]
File == [msg : Messages, whole : BOOLEAN]

\* What a thread has at each stage.
ErrandOK(e) ==
    /\ e.pc \in Sending => e.msg \in Messages /\ e.session \in RootSessions /\ e.got = <<>>
    /\ e.pc \in Moving => e.root \in Roots /\ e.session \in RootSessions /\ e.msg = Nobody
    /\ e.pc = "idle" => e = NoErrand
    /\ e.pc = "remote" => e.at \in Roots
Errands == \A t \in Handlers : ErrandOK(errand[t])

\* MAILBOX_LOCK is held while a file is written or removed, and between two files taken.
Holds(e) == e.pc \in {"create", "fill", "remove"} \/ (e.pc = "take" /\ e.got # <<>>)
Lock == \A t \in Handlers : Holds(errand[t]) => locked = t

\* There is room: for the file to be created, and in the box for what is taken over.
RoomFor(e, n) ==
    /\ e.pc = "create" => n < MaxInbox
    /\ e.pc = "remove" => Len(e.got) + n <= MaxInbox + 1
    /\ e.pc = "take" /\ e.got # <<>> => Len(e.got) + n <= MaxInbox
    /\ Len(e.got) <= MaxInbox
Room == \A t \in Handlers : RoomFor(errand[t], Len(mailbox[errand[t].session]))

\* A message that is being sent is with its sender only, but for the file it is written to.
Carries(t, m) == errand[t].pc \in Sending /\ errand[t].msg = m
Carried ==
    \A t \in Handlers, m \in Messages : Carries(t, m) =>
        /\ to[m] = errand[t].session
        /\ m \notin told
        /\ reads[m] = 0
        /\ \A u \in Handlers : Carries(u, m) => u = t
        /\ \A u \in Handlers : \A i : ~Held(m, u, i)
        /\ \A r \in Roots : \A i : ~Boxed(m, r, i)
        /\ \A x \in RootSessions : \A i : Filed(m, x, i) =>
              /\ errand[t].pc = "fill" /\ errand[t].session = x
              /\ i = Len(mailbox[x]) /\ ~Whole(x, i)

\* The files being written and removed are there.
AtFile ==
    \A t \in Handlers :
        /\ errand[t].pc = "fill" =>
              Filed(errand[t].msg, errand[t].session, Len(mailbox[errand[t].session]))
        /\ errand[t].pc = "remove" => mailbox[errand[t].session] # <<>>

\* A message is in no two places, a file that is being removed aside.
Removing(t, x) == errand[t].pc = "remove" /\ errand[t].session = x
Apart ==
    \A m \in Messages :
        /\ \A x, y \in RootSessions : \A i, j : Filed(m, x, i) /\ Filed(m, y, j) => x = y /\ i = j
        /\ \A t, u \in Handlers : \A i, j : Held(m, t, i) /\ Held(m, u, j) => t = u /\ i = j
        /\ \A r, q \in Roots : \A i, j : Boxed(m, r, i) /\ Boxed(m, q, j) => r = q /\ i = j
        /\ reads[m] \in {0, 1}
        /\ \A r \in Roots : \A i : Boxed(m, r, i) => reads[m] = 0
        /\ \A t \in Handlers : \A i : Held(m, t, i) =>
              reads[m] = 0 /\ \A r \in Roots : \A j : ~Boxed(m, r, j)
        /\ \A x \in RootSessions : \A i : Filed(m, x, i) =>
              /\ reads[m] = 0
              /\ \A r \in Roots : \A j : ~Boxed(m, r, j)
              /\ \A t \in Handlers : \A j : Held(m, t, j) =>
                    Removing(t, x) /\ i = 1 /\ Whole(x, i)

\* It is there for the session it was sent to.
Addressed ==
    \A m \in Messages :
        /\ \A x \in RootSessions : \A i : Filed(m, x, i) => to[m] = x
        /\ \A t \in Handlers : \A i : Held(m, t, i) =>
              to[m] = errand[t].session /\ to[m] # Nobody
        /\ \A r \in Roots : \A i : Boxed(m, r, i) => to[m] = session[r] /\ to[m] # Nobody
        /\ m \in told \/ reads[m] # 0 => to[m] # Nobody

\* It is somewhere, once its sender was told so and unless it was thrown away.
Standing(m, x, i) ==
    Filed(m, x, i) /\ Whole(x, i) /\ ~(i = 1 /\ \E t \in Handlers : Removing(t, x))
Somewhere(m) ==
    \/ \E x \in RootSessions : \E i : Standing(m, x, i)
    \/ \E t \in Handlers : \E i : Held(m, t, i)
    \/ \E r \in Roots : \E i : Boxed(m, r, i)
    \/ reads[m] # 0
Found == \A m \in told \ dropped : Somewhere(m)

MailInv ==
    /\ MailTypeOK /\ Errands /\ Lock /\ Room /\ Carried /\ AtFile
    /\ Apart /\ Addressed /\ Found

-----------------------------------------------------------------------------
(* Boxes *)

\* What is kept of a box is its end, and there is room for one more.
LEMMA KeptFacts ==
    ASSUME MailAssumption, NEW T, NEW box \in Seq(T)
    PROVE  /\ Kept(box) \in Seq(T) /\ Len(Kept(box)) < MaxInbox
           /\ \E d \in Nat : /\ Len(box) = Len(Kept(box)) + d
                            /\ \A i \in 1 .. Len(Kept(box)) : Kept(box)[i] = box[d + i]
<1>0. Len(box) \in Nat /\ MaxInbox \in Nat /\ MaxInbox > 0
    BY DEF MailAssumption
<1>1. CASE Len(box) < MaxInbox
    <2>1. Kept(box) = box /\ Len(box) = Len(box) + 0 /\ 0 \in Nat
        BY <1>0, <1>1 DEF Kept
    <2>2. \A i \in 1 .. Len(box) : box[0 + i] = box[i]
        BY <1>0
    <2>3. QED
        BY <1>1, <2>1, <2>2
<1>2. CASE ~(Len(box) < MaxInbox)
    <2> DEFINE m == Len(box) - MaxInbox + 2
               n == Len(box)
    <2>1. m \in Nat \ {0} /\ n \in Int /\ n <= Len(box)
        BY <1>0, <1>2
    <2>2. Kept(box) = SubSeq(box, m, n)
        BY <1>2 DEF Kept
    <2> HIDE DEF m, n
    <2>3. /\ Kept(box) \in Seq(T)
          /\ Len(Kept(box)) = IF m <= n THEN n - m + 1 ELSE 0
          /\ \A i \in 1 .. Len(Kept(box)) : Kept(box)[i] = box[m + i - 1]
        BY <2>1, <2>2, MembersSubSeq
    <2> DEFINE k == Len(Kept(box))
    <2>4. k = MaxInbox - 1
        BY <1>0, <1>2, <2>3 DEF m, n
    <2> HIDE DEF k
    <2>5. m - 1 \in Nat /\ Len(box) = k + (m - 1) /\ k < MaxInbox
        BY <1>0, <1>2, <2>4 DEF m
    <2>6. \A i \in 1 .. k : Kept(box)[i] = box[(m - 1) + i]
        <3> SUFFICES ASSUME NEW i \in 1 .. k PROVE Kept(box)[i] = box[(m - 1) + i]
            OBVIOUS
        <3>1. m + i - 1 = (m - 1) + i
            BY <1>0, <2>1, <2>4
        <3>2. Kept(box)[i] = box[m + i - 1]
            BY <2>3 DEF k
        <3>3. QED
            BY <3>1, <3>2
    <2>7. QED
        BY <2>3, <2>5, <2>6 DEF k
<1>3. QED
    BY <1>1, <1>2

LEMMA AppendFacts ==
    ASSUME NEW T, NEW s \in Seq(T), NEW e \in T
    PROVE  /\ Append(s, e) \in Seq(T) /\ Len(Append(s, e)) = Len(s) + 1
           /\ \A i : i \in DOMAIN Append(s, e) <=> i \in DOMAIN s \/ i = Len(s) + 1
           /\ \A i \in DOMAIN s : Append(s, e)[i] = s[i] /\ i # Len(s) + 1
           /\ Append(s, e)[Len(s) + 1] = e
<1>1. Len(s) \in Nat /\ DOMAIN s = 1 .. Len(s)
    OBVIOUS
<1>2. /\ Append(s, e) \in Seq(T) /\ Len(Append(s, e)) = Len(s) + 1
      /\ \A i \in 1 .. Len(s) : Append(s, e)[i] = s[i]
      /\ Append(s, e)[Len(s) + 1] = e
    BY AppendProperties
<1>3. DOMAIN Append(s, e) = 1 .. Len(s) + 1
    BY <1>2
<1>4. QED
    BY <1>1, <1>2, <1>3

LEMMA TailFacts ==
    ASSUME NEW T, NEW s \in Seq(T), s # <<>>
    PROVE  /\ Tail(s) \in Seq(T) /\ Len(Tail(s)) = Len(s) - 1 /\ Len(s) \in Nat \ {0}
           /\ Head(s) = s[1] /\ Head(s) \in T
           /\ \A i : i \in DOMAIN Tail(s) => i \in Nat \ {0} /\ i + 1 \in DOMAIN s /\ Tail(s)[i] = s[i + 1]
           /\ \A i \in DOMAIN s : i # 1 => i - 1 \in DOMAIN Tail(s) /\ Tail(s)[i - 1] = s[i]
<1>1. Len(s) \in Nat \ {0} /\ Tail(s) \in Seq(T) /\ Len(Tail(s)) = Len(s) - 1
    BY EmptySeq, HeadTailProperties
<1>2. \A i \in 1 .. Len(s) - 1 : Tail(s)[i] = s[i + 1]
    BY <1>1, HeadTailProperties
<1>3. DOMAIN s = 1 .. Len(s) /\ DOMAIN Tail(s) = 1 .. Len(s) - 1
    BY <1>1
<1>4. Head(s) = s[1] /\ Head(s) \in T
    BY <1>1, <1>3, HeadTailProperties
<1>5. ASSUME NEW i \in DOMAIN s, i # 1 PROVE i - 1 \in 1 .. Len(s) - 1 /\ (i - 1) + 1 = i
    BY <1>1, <1>3, <1>5
<1>6. QED
    BY <1>1, <1>2, <1>3, <1>4, <1>5

-----------------------------------------------------------------------------
(* Steps that move no message *)

LEMMA HeldSome ==
    ASSUME NEW m, NEW t, NEW i, Held(m, t, i) PROVE errand[t].got # <<>>
<1>1. DOMAIN << >> = {}
    OBVIOUS
<1>2. QED
    BY <1>1 DEF Held

Rests ==
    \A t \in Handlers :
        /\ errand'[t].got = errand[t].got
        /\ errand[t].got # <<>> => errand'[t].session = errand[t].session
        /\ errand'[t].pc \in Sending =>
              /\ errand[t].pc \in Sending
              /\ errand'[t].msg = errand[t].msg /\ errand'[t].session = errand[t].session
        /\ errand'[t].pc = "fill" <=> errand[t].pc = "fill"
        /\ errand'[t].pc = "remove" <=> errand[t].pc = "remove"
        /\ errand'[t].pc = "remove" => errand'[t].session = errand[t].session

LEMMA RestsKeeps ==
    ASSUME MailInv, Rests, UNCHANGED <<inbox, mailbox, session, to, told, reads>>,
           dropped \subseteq dropped'
    PROVE  Carried' /\ AtFile' /\ Apart' /\ Addressed' /\ Found'
<1>1. \A m, x, i : (Filed(m, x, i)' <=> Filed(m, x, i)) /\ (Whole(x, i)' <=> Whole(x, i))
    BY DEF Filed, Whole
<1>2. \A m, r, i : Boxed(m, r, i)' <=> Boxed(m, r, i)
    BY DEF Boxed
<1>3. \A m : \A t \in Handlers : \A i : Held(m, t, i)' <=> Held(m, t, i)
    BY DEF Held, Rests
<1>4. \A t \in Handlers : \A x : Removing(t, x)' <=> Removing(t, x)
    BY DEF Rests, Removing
<1>5. \A m : \A t \in Handlers : Carries(t, m)' =>
          Carries(t, m) /\ errand'[t].session = errand[t].session
    BY DEF Rests, Carries
<1>6. \A t \in Handlers : errand'[t].pc = "fill" <=> errand[t].pc = "fill"
    BY DEF Rests
<1>7. Carried'
    BY <1>1, <1>2, <1>3, <1>5, <1>6 DEF MailInv, Carried
<1>8. AtFile'
    <2>1. ASSUME NEW t \in Handlers, errand'[t].pc = "fill"
          PROVE  errand'[t].session = errand[t].session /\ errand'[t].msg = errand[t].msg
        BY <2>1, <1>6 DEF Rests, Sending
    <2>2. QED
        BY <1>1, <1>6, <2>1 DEF MailInv, AtFile, Rests
<1>9. Apart'
    BY <1>1, <1>2, <1>3, <1>4 DEF MailInv, Apart
<1>10. Addressed'
    <2>1. \A m : \A t \in Handlers : \A i :
             Held(m, t, i)' => Held(m, t, i) /\ errand'[t].session = errand[t].session
        BY <1>3, HeldSome DEF Rests
    <2>2. QED
        BY <1>1, <1>2, <2>1 DEF MailInv, Addressed
<1>11. Found'
    <2>1. \A m : Somewhere(m)' <=> Somewhere(m)
        BY <1>1, <1>2, <1>3, <1>4 DEF Somewhere, Standing
    <2>2. QED
        BY <2>1 DEF MailInv, Found
<1>12. QED
    BY <1>7, <1>8, <1>9, <1>10, <1>11

-----------------------------------------------------------------------------
(* What a thread does next *)

\* The types of all but the errands.
PlainTypes ==
    /\ running \subseteq Roots
    /\ session \in [Roots -> RootSessions \cup {Nobody}]
    /\ inbox \in [Roots -> Seq(Messages)]
    /\ located \in [RootSessions -> Roots \cup {Nobody}]
    /\ mailbox \in [RootSessions -> Seq(File)]
    /\ \A r \in Roots : Len(inbox[r]) <= MaxInbox
    /\ \A x \in RootSessions : Len(mailbox[x]) <= MaxInbox
    /\ locked \in Handlers \cup {Nobody}
    /\ to \in [Messages -> RootSessions \cup {Nobody}]
    /\ told \subseteq Messages /\ dropped \subseteq Messages
    /\ reads \in [Messages -> Nat]

LEMMA TypesApart ==
    /\ MailTypeOK <=> PlainTypes /\ errand \in [Handlers -> Errand]
    /\ MailTypeOK' <=> PlainTypes' /\ errand' \in [Handlers -> Errand]
BY DEF MailTypeOK, PlainTypes, Errand, File

\* A step of one thread: it has MAILBOX_LOCK or leaves what the lock covers alone.
LEMMA ErrandChange ==
    ASSUME MailAssumption, MailInv, NEW t \in Handlers, NEW e \in Errand, ErrandOK(e),
           errand' = [errand EXCEPT ![t] = e],
           Holds(e) => locked' = t,
           RoomFor(e, Len(mailbox'[e.session])),
           \/ locked \in {Nobody, t}
           \/ UNCHANGED <<locked, mailbox>>
    PROVE  /\ errand' \in [Handlers -> Errand] /\ Errands' /\ errand'[t] = e
           /\ \A u \in Handlers : u # t => errand'[u] = errand[u]
           /\ Lock' /\ Room'
<1>1. errand \in [Handlers -> Errand]
    BY TypesApart DEF MailInv
<1>2. /\ errand' \in [Handlers -> Errand] /\ errand'[t] = e
      /\ \A u \in Handlers : u # t => errand'[u] = errand[u]
    BY <1>1
<1>3. \A u \in Handlers : ErrandOK(errand'[u])
    BY <1>2 DEF MailInv, Errands
<1>4. Errands'
    BY <1>3 DEF Errands, ErrandOK
<1>5. ASSUME NEW u \in Handlers, u # t
      PROVE  /\ Holds(errand[u]) => locked' = u
             /\ RoomFor(errand[u], Len(mailbox'[errand[u].session]))
    <2>1. CASE UNCHANGED <<locked, mailbox>>
        BY <2>1 DEF MailInv, Lock, Room
    <2>2. CASE locked \in {Nobody, t}
        <3>1. ~Holds(errand[u])
            BY <1>5, <2>2 DEF MailInv, Lock, MailAssumption
        <3>2. Len(errand[u].got) <= MaxInbox
            BY DEF MailInv, Room, RoomFor
        <3>3. QED
            BY <3>1, <3>2 DEF RoomFor, Holds
    <2>3. QED
        BY <2>1, <2>2
<1>6. \A u \in Handlers : /\ Holds(errand'[u]) => locked' = u
                          /\ RoomFor(errand'[u], Len(mailbox'[errand'[u].session]))
    BY <1>2, <1>5
<1>7. Lock' /\ Room'
    BY <1>6 DEF Lock, Room, Holds, RoomFor
<1>8. QED
    BY <1>2, <1>4, <1>7

\* The thread goes to another stage.
At(e, pc) == [e EXCEPT !.pc = pc]

LEMMA AtFacts ==
    ASSUME NEW e \in Errand, NEW pc \in Stops
    PROVE  /\ At(e, pc) \in Errand /\ At(e, pc).pc = pc /\ At(e, pc).msg = e.msg
           /\ At(e, pc).root = e.root /\ At(e, pc).session = e.session
           /\ At(e, pc).at = e.at /\ At(e, pc).got = e.got
BY DEF At, Errand

LEMMA GoesFacts ==
    ASSUME MailInv, NEW t \in Handlers, NEW pc, Goes(t, pc)
    PROVE  errand' = [errand EXCEPT ![t] = At(errand[t], pc)] /\ errand[t] \in Errand
BY TypesApart DEF MailInv, Goes, At

LEMMA EndsFacts ==
    ASSUME MailAssumption
    PROVE  /\ NoErrand \in Errand /\ ErrandOK(NoErrand) /\ NoErrand.pc = "idle"
           /\ NoErrand.msg = Nobody /\ NoErrand.got = <<>>
<1>1. NoErrand \in Errand
    BY EmptySeq DEF NoErrand, Errand, Stops
<1>2. QED
    BY <1>1 DEF NoErrand, ErrandOK, Sending, Moving

\* A step of one thread that moves no message.
LEMMA RestsOne ==
    ASSUME NEW t \in Handlers, NEW e \in Errand, errand'[t] = e, e.got = errand[t].got,
           \A u \in Handlers : u # t => errand'[u] = errand[u],
           errand[t].got # <<>> => e.session = errand[t].session,
           e.pc \in Sending => /\ errand[t].pc \in Sending
                               /\ e.msg = errand[t].msg /\ e.session = errand[t].session,
           errand[t].pc \notin {"fill", "remove"}, e.pc \notin {"fill", "remove"}
    PROVE  Rests
BY DEF Rests

-----------------------------------------------------------------------------
(* The invariant, action by action *)

LEMMA StopRootKeeps ==
    ASSUME MailAssumption, MailInv, NEW r \in Roots, StopRoot(r) PROVE MailInv'
<1>1. UNCHANGED <<session, inbox, mailbox, locked, errand, to, told, reads, dropped>>
    BY DEF StopRoot, mailHistory
<1>2. running' \subseteq Roots /\ located' \in [RootSessions -> Roots \cup {Nobody}]
    BY DEF StopRoot, Unregistered, MailInv, MailTypeOK
<1>3. MailTypeOK' /\ Errands' /\ Lock' /\ Room'
    BY <1>1, <1>2 DEF MailInv, MailTypeOK, Errands, ErrandOK, Lock, Holds, Room, RoomFor
<1>4. Rests
    BY <1>1 DEF Rests
<1>5. QED
    BY <1>1, <1>3, <1>4, RestsKeeps DEF MailInv

LEMMA EvictKeeps ==
    ASSUME MailAssumption, MailInv, NEW x \in RootSessions, Evict(x) PROVE MailInv'
<1>1. UNCHANGED <<running, session, inbox, mailbox, locked, errand, to, told, reads, dropped>>
    BY DEF Evict, mailHistory
<1>2. located' \in [RootSessions -> Roots \cup {Nobody}]
    BY DEF Evict, MailInv, MailTypeOK
<1>3. MailTypeOK' /\ Errands' /\ Lock' /\ Room'
    BY <1>1, <1>2 DEF MailInv, MailTypeOK, Errands, ErrandOK, Lock, Holds, Room, RoomFor
<1>4. Rests
    BY <1>1 DEF Rests
<1>5. QED
    BY <1>1, <1>3, <1>4, RestsKeeps DEF MailInv

\* A step of one thread that moves no message and leaves all but locations alone.
LEMMA RestingStep ==
    ASSUME MailAssumption, MailInv, NEW t \in Handlers, NEW e \in Errand, ErrandOK(e),
           errand' = [errand EXCEPT ![t] = e],
           UNCHANGED <<running, session, inbox, mailbox, to, told, reads, dropped>>,
           located' \in [RootSessions -> Roots \cup {Nobody}],
           locked' = locked \/ (locked \in {Nobody, t} /\ locked' = Nobody),
           ~Holds(e), e.got = errand[t].got,
           errand[t].got # <<>> => e.session = errand[t].session,
           e.pc \in Sending => /\ errand[t].pc \in Sending
                               /\ e.msg = errand[t].msg /\ e.session = errand[t].session,
           errand[t].pc \notin {"fill", "remove"}
    PROVE  MailInv'
<1>1. Len(e.got) <= MaxInbox
    BY DEF MailInv, Room, RoomFor
<1>2. RoomFor(e, Len(mailbox'[e.session]))
    BY <1>1 DEF RoomFor, Holds
<1>3. /\ errand' \in [Handlers -> Errand] /\ Errands' /\ errand'[t] = e
      /\ \A u \in Handlers : u # t => errand'[u] = errand[u]
      /\ Lock' /\ Room'
    BY <1>2, ErrandChange
<1>4. e.pc \notin {"fill", "remove"}
    BY DEF Holds
<1>5. Rests
    BY <1>3, <1>4, RestsOne
<1>6. PlainTypes'
    BY TypesApart DEF MailInv, PlainTypes
<1>7. MailTypeOK'
    BY <1>3, <1>6, TypesApart
<1>8. QED
    BY <1>3, <1>5, <1>7, RestsKeeps DEF MailInv

LEMMA LocateKeeps ==
    ASSUME MailAssumption, MailInv, NEW t \in Handlers, Locate(t) PROVE MailInv'
<1> DEFINE at == located[errand[t].session]
           pc == IF at = Nobody THEN "queue" ELSE "remote"
           e == [errand[t] EXCEPT !.pc = pc, !.at = at]
<1>1. /\ errand[t] \in Errand /\ errand[t].pc = "locate"
      /\ errand[t].session \in RootSessions /\ errand[t].msg \in Messages
      /\ errand[t].got = <<>>
    BY TypesApart DEF Locate, MailInv, Errands, ErrandOK, Sending
<1>2. at \in Roots \cup {Nobody}
    BY <1>1, TypesApart DEF MailInv, PlainTypes
<1>3. errand' = [errand EXCEPT ![t] = e]
    BY TypesApart DEF MailInv, Locate
<1>4. pc \in {"queue", "remote"} /\ pc \in Stops /\ (pc = "remote" => at \in Roots)
    BY <1>2 DEF Stops
<1>5. located' \in [RootSessions -> Roots \cup {Nobody}]
    BY DEF Locate, MailInv, MailTypeOK
<1> HIDE DEF at, pc
<1>6. /\ e \in Errand /\ e.pc = pc /\ e.at = at /\ e.msg = errand[t].msg
      /\ e.session = errand[t].session /\ e.got = errand[t].got
    BY <1>1, <1>2, <1>4 DEF Errand
<1> HIDE DEF e
<1>7. ErrandOK(e) /\ ~Holds(e)
    BY <1>1, <1>4, <1>6 DEF ErrandOK, Holds, Sending, Moving
<1>8. QED
    BY <1>1, <1>3, <1>4, <1>5, <1>6, <1>7, RestingStep DEF Locate, mailHistory, Sending

LEMMA ResetKeeps ==
    ASSUME MailAssumption, MailInv, NEW t \in Handlers, NEW r \in Roots,
           NEW x \in RootSessions, Reset(t, r, x)
    PROVE  MailInv'
<1> DEFINE e == [NoErrand EXCEPT !.pc = "take", !.root = r, !.session = x]
<1>1. errand[t] = NoErrand /\ errand' = [errand EXCEPT ![t] = e]
    BY DEF Reset
<1>2. /\ e \in Errand /\ e.pc = "take" /\ e.msg = Nobody /\ e.got = <<>>
      /\ e.root = r /\ e.session = x
    BY EndsFacts DEF Errand, Stops, NoErrand
<1> HIDE DEF e
<1>3. ErrandOK(e) /\ ~Holds(e)
    BY <1>2 DEF ErrandOK, Holds, Sending, Moving
<1>4. located' \in [RootSessions -> Roots \cup {Nobody}]
    BY DEF Reset, MailInv, MailTypeOK
<1>5. QED
    BY <1>1, <1>2, <1>3, <1>4, EndsFacts, RestingStep DEF Reset, mailHistory, Sending

LEMMA AllTakenKeeps ==
    ASSUME MailAssumption, MailInv, NEW t \in Handlers, AllTaken(t) PROVE MailInv'
<1> DEFINE e == At(errand[t], "unregister")
<1>1. errand' = [errand EXCEPT ![t] = e] /\ errand[t] \in Errand
    BY GoesFacts DEF AllTaken
<1>2. /\ errand[t].pc = "take" /\ errand[t].root \in Roots
      /\ errand[t].session \in RootSessions /\ errand[t].msg = Nobody
    BY DEF AllTaken, MailInv, Errands, ErrandOK, Moving
<1>3. /\ e \in Errand /\ e.pc = "unregister" /\ e.msg = errand[t].msg
      /\ e.root = errand[t].root /\ e.session = errand[t].session /\ e.got = errand[t].got
    BY <1>1, AtFacts DEF Stops
<1> HIDE DEF e
<1>4. ErrandOK(e) /\ ~Holds(e)
    BY <1>2, <1>3 DEF ErrandOK, Holds, Sending, Moving
<1>5. located' \in [RootSessions -> Roots \cup {Nobody}]
    BY DEF AllTaken, MailInv, MailTypeOK
<1>6. QED
    BY <1>1, <1>2, <1>3, <1>4, <1>5, RestingStep DEF AllTaken, mailHistory, Sending

LEMMA UnregisterKeeps ==
    ASSUME MailAssumption, MailInv, NEW t \in Handlers, Unregister(t) PROVE MailInv'
<1> DEFINE e == At(errand[t], "register")
<1>1. errand' = [errand EXCEPT ![t] = e] /\ errand[t] \in Errand
    BY GoesFacts DEF Unregister
<1>2. /\ errand[t].pc = "unregister" /\ errand[t].root \in Roots
      /\ errand[t].session \in RootSessions /\ errand[t].msg = Nobody
    BY DEF Unregister, MailInv, Errands, ErrandOK, Moving
<1>3. /\ e \in Errand /\ e.pc = "register" /\ e.msg = errand[t].msg
      /\ e.root = errand[t].root /\ e.session = errand[t].session /\ e.got = errand[t].got
    BY <1>1, AtFacts DEF Stops
<1> HIDE DEF e
<1>4. ErrandOK(e) /\ ~Holds(e)
    BY <1>2, <1>3 DEF ErrandOK, Holds, Sending, Moving
<1>5. located' \in [RootSessions -> Roots \cup {Nobody}]
    BY DEF Unregister, Unregistered, MailInv, MailTypeOK
<1>6. QED
    BY <1>1, <1>2, <1>3, <1>4, <1>5, RestingStep DEF Unregister, mailHistory, Sending

\* What a box holds is what a thread could find in it.
LEMMA InBox ==
    ASSUME NEW m, NEW r
    PROVE  m \in ToSet(inbox[r]) <=> \E i : Boxed(m, r, i)
BY DEF ToSet, Boxed

LEMMA EmptyFits == MailAssumption => Len(<<>>) <= MaxInbox
<1>1. Len(<<>>) = 0
    OBVIOUS
<1>2. QED
    BY <1>1 DEF MailAssumption

LEMMA StartRootKeeps ==
    ASSUME MailAssumption, MailInv, NEW r \in Roots, StartRoot(r) PROVE MailInv'
<1>1. UNCHANGED <<located, mailbox, locked, errand, to, told, reads>>
    BY DEF StartRoot
<1>2. PlainTypes
    BY TypesApart DEF MailInv
<1>3. /\ inbox' \in [Roots -> Seq(Messages)] /\ inbox'[r] = <<>>
      /\ \A q \in Roots : q # r => inbox'[q] = inbox[q]
    BY <1>2, EmptySeq DEF StartRoot, PlainTypes
<1>4. /\ session' \in [Roots -> RootSessions \cup {Nobody}]
      /\ \A q \in Roots : q # r => session'[q] = session[q]
    BY <1>2 DEF StartRoot, PlainTypes
<1>5. ToSet(inbox[r]) \subseteq Messages /\ dropped' = dropped \cup ToSet(inbox[r])
    BY <1>2 DEF StartRoot, PlainTypes, ToSet
<1>6. \A q \in Roots : Len(inbox'[q]) <= MaxInbox
    <2>1. Len(inbox'[r]) <= MaxInbox
        BY <1>3, EmptyFits
    <2>2. QED
        BY <1>2, <1>3, <2>1 DEF PlainTypes
<1>7. MailTypeOK'
    <2>1. PlainTypes'
        BY <1>1, <1>2, <1>3, <1>4, <1>5, <1>6 DEF PlainTypes, StartRoot
    <2>2. QED
        BY <1>1, <2>1, TypesApart DEF MailInv
<1>8. Errands' /\ Lock' /\ Room' /\ AtFile'
    BY <1>1 DEF MailInv, Errands, ErrandOK, Lock, Holds, Room, RoomFor, AtFile, Filed
<1>9. \A m, x, i : (Filed(m, x, i)' <=> Filed(m, x, i)) /\ (Whole(x, i)' <=> Whole(x, i))
    BY <1>1 DEF Filed, Whole
<1>10. \A m, t, i : Held(m, t, i)' <=> Held(m, t, i)
    BY <1>1 DEF Held
<1>11. \A m : \A q \in Roots : \A i : Boxed(m, q, i)' <=> q # r /\ Boxed(m, q, i)
    BY <1>3 DEF Boxed
<1>12. \A t, x : (Removing(t, x)' <=> Removing(t, x)) /\ (Carries(t, x)' <=> Carries(t, x))
    BY <1>1 DEF Removing, Carries
<1>13. Carried'
    BY <1>1, <1>9, <1>10, <1>11, <1>12 DEF MailInv, Carried
<1>14. Apart'
    BY <1>1, <1>9, <1>10, <1>11, <1>12 DEF MailInv, Apart
<1>15. Addressed'
    BY <1>1, <1>4, <1>9, <1>10, <1>11 DEF MailInv, Addressed
<1>16. Found'
    <2>1. ASSUME NEW m, m \notin ToSet(inbox[r]), Somewhere(m) PROVE Somewhere(m)'
        <3>1. \A i : ~Boxed(m, r, i)
            BY <2>1, InBox
        <3>2. QED
            BY <1>1, <1>9, <1>10, <1>11, <1>12, <2>1, <3>1 DEF Somewhere, Standing
    <2>2. QED
        BY <1>1, <1>5, <2>1 DEF MailInv, Found
<1>17. QED
    BY <1>7, <1>8, <1>13, <1>14, <1>15, <1>16 DEF MailInv

LEMMA ReadKeeps ==
    ASSUME MailAssumption, MailInv, NEW r \in Roots, Read(r) PROVE MailInv'
<1>1. UNCHANGED <<running, session, located, mailbox, locked, errand, to, told, dropped>>
    BY DEF Read
<1>2. PlainTypes
    BY TypesApart DEF MailInv
<1>3. /\ inbox' \in [Roots -> Seq(Messages)] /\ inbox'[r] = <<>>
      /\ \A q \in Roots : q # r => inbox'[q] = inbox[q]
    BY <1>2, EmptySeq DEF Read, PlainTypes
<1>4. \A m \in Messages :
        reads'[m] = reads[m] + (IF \E i : Boxed(m, r, i) THEN 1 ELSE 0)
    BY InBox DEF Read
<1>5. \A m \in Messages : reads[m] \in Nat /\ reads'[m] \in Nat
    BY <1>2, <1>4 DEF PlainTypes
<1>6. \A q \in Roots : Len(inbox'[q]) <= MaxInbox
    <2>1. Len(inbox'[r]) <= MaxInbox
        BY <1>3, EmptyFits
    <2>2. QED
        BY <1>2, <1>3, <2>1 DEF PlainTypes
<1>7. MailTypeOK'
    <2>1. reads' \in [Messages -> Nat]
        BY <1>5 DEF Read
    <2>2. PlainTypes'
        BY <1>1, <1>2, <1>3, <1>6, <2>1 DEF PlainTypes
    <2>3. QED
        BY <1>1, <2>2, TypesApart DEF MailInv
<1>8. Errands' /\ Lock' /\ Room' /\ AtFile'
    BY <1>1 DEF MailInv, Errands, ErrandOK, Lock, Holds, Room, RoomFor, AtFile, Filed
<1>9. \A m, x, i : (Filed(m, x, i)' <=> Filed(m, x, i)) /\ (Whole(x, i)' <=> Whole(x, i))
    BY <1>1 DEF Filed, Whole
<1>10. \A m, t, i : Held(m, t, i)' <=> Held(m, t, i)
    BY <1>1 DEF Held
<1>11. \A m : \A q \in Roots : \A i : Boxed(m, q, i)' <=> q # r /\ Boxed(m, q, i)
    BY <1>3 DEF Boxed
<1>12. \A t, x : (Removing(t, x)' <=> Removing(t, x)) /\ (Carries(t, x)' <=> Carries(t, x))
    BY <1>1 DEF Removing, Carries
<1>13. \A m \in Messages : /\ (\E i : Boxed(m, r, i)) => reads[m] = 0 /\ reads'[m] = 1
                           /\ (\A i : ~Boxed(m, r, i)) => reads'[m] = reads[m]
    BY <1>4, <1>5 DEF MailInv, Apart
<1>14. Carried'
    BY <1>1, <1>9, <1>10, <1>11, <1>12, <1>13 DEF MailInv, Carried
<1>15. Apart'
    <2>1. SUFFICES ASSUME NEW m \in Messages
          PROVE  /\ reads'[m] \in {0, 1}
                 /\ \A q \in Roots : \A i : q # r /\ Boxed(m, q, i) => reads'[m] = 0
                 /\ \A t \in Handlers : \A i : Held(m, t, i) => reads'[m] = 0
                 /\ \A x \in RootSessions : \A i : Filed(m, x, i) => reads'[m] = 0
        BY <1>1, <1>9, <1>10, <1>11, <1>12 DEF MailInv, Apart
    <2>2. QED
        BY <1>13 DEF MailInv, Apart
<1>16. Addressed'
    BY <1>1, <1>9, <1>10, <1>11, <1>13 DEF MailInv, Addressed
<1>17. Found'
    <2>1. ASSUME NEW m \in Messages, Somewhere(m) PROVE Somewhere(m)'
        BY <1>1, <1>9, <1>10, <1>11, <1>12, <1>13, <2>1 DEF Somewhere, Standing
    <2>2. QED
        BY <1>1, <1>2, <2>1 DEF MailInv, Found, PlainTypes
<1>18. QED
    BY <1>7, <1>8, <1>14, <1>15, <1>16, <1>17 DEF MailInv

LEMMA CrashKeeps ==
    ASSUME MailAssumption, MailInv, Crash PROVE MailInv'
<1>1. /\ errand' = [t \in Handlers |-> NoErrand] /\ locked' = Nobody
      /\ inbox' = [r \in Roots |-> <<>>] /\ session' = [r \in Roots |-> Nobody]
      /\ located' = [x \in RootSessions |-> Nobody] /\ running' = {}
      /\ dropped' = dropped \cup {m \in InMemory : ~OnDisk(m)}
      /\ UNCHANGED <<mailbox, to, told, reads>>
    BY DEF Crash
<1>2. PlainTypes /\ errand \in [Handlers -> Errand]
    BY TypesApart DEF MailInv
<1>3. InMemory \subseteq Messages
    BY <1>2 DEF InMemory, ToSet, PlainTypes, Errand
<1>4. MailTypeOK'
    <2>1. \A r \in Roots : inbox'[r] \in Seq(Messages) /\ Len(inbox'[r]) <= MaxInbox
        BY <1>1, EmptySeq DEF MailAssumption
    <2>2. PlainTypes'
        BY <1>1, <1>2, <1>3, <2>1 DEF PlainTypes
    <2>3. errand' \in [Handlers -> Errand]
        BY <1>1, EndsFacts
    <2>4. QED
        BY <2>2, <2>3, TypesApart
<1>5. \A t \in Handlers : errand'[t] = NoErrand
    BY <1>1
<1>6. Errands'
    <2>1. \A t \in Handlers : ErrandOK(errand'[t])
        BY <1>5, EndsFacts
    <2>2. QED
        BY <2>1 DEF Errands, ErrandOK
<1>7. ~Holds(NoErrand) /\ \A n : RoomFor(NoErrand, n)
    BY EndsFacts, EmptySeq DEF Holds, RoomFor, MailAssumption
<1>8. Lock' /\ Room'
    <2>1. \A t \in Handlers : ~Holds(errand'[t]) /\ \A n : RoomFor(errand'[t], n)
        BY <1>5, <1>7
    <2>2. QED
        BY <2>1 DEF Lock, Room, Holds, RoomFor
<1>9. AtFile'
    BY <1>5, EndsFacts DEF AtFile
<1>10. \A m, x, i : (Filed(m, x, i)' <=> Filed(m, x, i)) /\ (Whole(x, i)' <=> Whole(x, i))
    BY <1>1 DEF Filed, Whole
<1>11. \A m : \A t \in Handlers : \A i : ~Held(m, t, i)'
    BY <1>5, EndsFacts DEF Held
<1>12. \A m : \A r \in Roots : \A i : ~Boxed(m, r, i)'
    BY <1>1 DEF Boxed
<1>13. \A t \in Handlers : \A x : ~Removing(t, x)' /\ ~Carries(t, x)'
    BY <1>5, EndsFacts DEF Removing, Carries, Sending
<1>14. Carried'
    BY <1>13 DEF Carried
<1>15. Apart'
    BY <1>1, <1>10, <1>11, <1>12 DEF MailInv, Apart
<1>16. Addressed'
    BY <1>1, <1>10, <1>11, <1>12 DEF MailInv, Addressed
<1>17. Found'
    <2>1. SUFFICES ASSUME NEW m \in told, m \notin dropped' PROVE Somewhere(m)'
        BY <1>1 DEF Found
    <2>2. m \in Messages /\ Somewhere(m) /\ (m \in InMemory => OnDisk(m))
        BY <1>1, <1>2, <2>1 DEF MailInv, Found, PlainTypes
    <2>3. OnDisk(m) <=> \E x \in RootSessions : \E i : Filed(m, x, i)
        BY DEF OnDisk, Filed
    <2>4. \A t \in Handlers : \A i : Held(m, t, i) => m \in InMemory
        <3>1. \A t \in Handlers : \A i : Held(m, t, i) => m \in ToSet(errand[t].got)
            BY DEF Held, ToSet
        <3>2. QED
            BY <3>1 DEF InMemory
    <2>5. \A r \in Roots : \A i : Boxed(m, r, i) => m \in InMemory
        BY InBox DEF InMemory
    <2>6. CASE \E x \in RootSessions : \E i : Standing(m, x, i)
        BY <1>10, <1>13, <2>6 DEF Standing, Somewhere
    <2>7. CASE \E t \in Handlers : \E i : Held(m, t, i)
        <3>1. PICK x \in RootSessions : \E i : Filed(m, x, i)
            BY <2>2, <2>3, <2>4, <2>7
        <3> PICK i : Filed(m, x, i)
            BY <3>1
        <3>2. Whole(x, i)
            BY <2>2, <2>7, <3>1 DEF MailInv, Apart
        <3>3. QED
            BY <1>10, <1>13, <3>1, <3>2 DEF Standing, Somewhere
    <2>8. CASE \E r \in Roots : \E i : Boxed(m, r, i)
        BY <2>2, <2>3, <2>5, <2>8 DEF MailInv, Apart
    <2>9. CASE reads[m] # 0
        BY <1>1, <2>9 DEF Somewhere
    <2>10. QED
        BY <2>2, <2>6, <2>7, <2>8, <2>9 DEF Somewhere
<1>18. QED
    BY <1>4, <1>6, <1>8, <1>9, <1>14, <1>15, <1>16, <1>17 DEF MailInv

LEMMA SendKeeps ==
    ASSUME MailAssumption, MailInv, NEW t \in Handlers, NEW r \in Roots, NEW m \in Messages,
           NEW x \in RootSessions, Send(t, r, m, x)
    PROVE  MailInv'
<1> DEFINE e == [NoErrand EXCEPT !.pc = "locate", !.root = r, !.msg = m, !.session = x]
<1>1. /\ errand[t] = NoErrand /\ errand' = [errand EXCEPT ![t] = e]
      /\ to[m] = Nobody /\ to' = [to EXCEPT ![m] = x]
      /\ UNCHANGED <<running, session, inbox, located, mailbox, locked, told, reads, dropped>>
    BY DEF Send
<1>2. /\ e \in Errand /\ e.pc = "locate" /\ e.msg = m /\ e.got = <<>>
      /\ e.root = r /\ e.session = x
    BY EndsFacts DEF Errand, Stops, NoErrand
<1> HIDE DEF e
<1>3. ErrandOK(e) /\ ~Holds(e) /\ e.pc \in Sending
    BY <1>2 DEF ErrandOK, Holds, Sending, Moving
<1>4. RoomFor(e, Len(mailbox'[e.session]))
    BY <1>2, EmptyFits DEF RoomFor
<1>5. /\ errand' \in [Handlers -> Errand] /\ Errands' /\ errand'[t] = e
      /\ \A u \in Handlers : u # t => errand'[u] = errand[u]
      /\ Lock' /\ Room'
    BY <1>1, <1>2, <1>3, <1>4, ErrandChange
<1>6. PlainTypes
    BY TypesApart DEF MailInv
<1>7. /\ to' \in [Messages -> RootSessions \cup {Nobody}] /\ to'[m] = x
      /\ \A n \in Messages : n # m => to'[n] = to[n]
    BY <1>1, <1>6 DEF PlainTypes
<1>8. MailTypeOK'
    <2>1. PlainTypes'
        BY <1>1, <1>6, <1>7 DEF PlainTypes
    <2>2. QED
        BY <1>5, <2>1, TypesApart
<1>9. x # Nobody /\ \A y \in RootSessions : y # Nobody
    BY DEF MailAssumption
\* Nobody has heard of m.
<1>10. /\ \A y \in RootSessions : \A i : ~Filed(m, y, i)
       /\ \A u \in Handlers : \A i : ~Held(m, u, i)
       /\ \A q \in Roots : \A i : ~Boxed(m, q, i)
       /\ m \notin told /\ reads[m] = 0
    BY <1>1, <1>9 DEF MailInv, Addressed
<1>11. \A u \in Handlers : ~Carries(u, m)
    <2>1. \A u \in Handlers : errand[u].pc \in Sending => errand[u].session \in RootSessions
        BY DEF MailInv, Errands, ErrandOK
    <2>2. QED
        BY <1>1, <1>9, <2>1 DEF MailInv, Carried, Carries
<1>12. \A n, y, i : (Filed(n, y, i)' <=> Filed(n, y, i)) /\ (Whole(y, i)' <=> Whole(y, i))
    BY <1>1 DEF Filed, Whole
<1>13. \A n : \A u \in Handlers : \A i : Held(n, u, i)' <=> Held(n, u, i)
    BY <1>1, <1>2, <1>5, EndsFacts DEF Held
<1>14. \A n, q, i : Boxed(n, q, i)' <=> Boxed(n, q, i)
    BY <1>1 DEF Boxed
<1>15. \A u \in Handlers : \A y : Removing(u, y)' <=> Removing(u, y)
    BY <1>1, <1>2, <1>5, EndsFacts DEF Removing
<1>16. \A n : \A u \in Handlers : Carries(u, n)' <=> IF u = t THEN n = m ELSE Carries(u, n)
    BY <1>2, <1>3, <1>5 DEF Carries
<1>17. Carried'
    <2>1. ASSUME NEW u \in Handlers, NEW n \in Messages, Carries(u, n)', u # t
          PROVE  Carries(u, n) /\ n # m /\ errand'[u] = errand[u]
        BY <1>5, <1>11, <1>16, <2>1
    <2>2. QED
        BY <1>1, <1>2, <1>5, <1>7, <1>10, <1>12, <1>13, <1>14, <1>16, <2>1 DEF MailInv, Carried
<1>18. AtFile'
    BY <1>1, <1>2, <1>5, <1>12 DEF MailInv, AtFile
<1>19. Apart'
    BY <1>1, <1>12, <1>13, <1>14, <1>15 DEF MailInv, Apart
<1>20. Addressed'
    <2>1. ASSUME NEW n \in Messages, NEW u \in Handlers, NEW i, Held(n, u, i)
          PROVE  errand'[u] = errand[u]
        BY <1>1, <1>5, <2>1, HeldSome, EndsFacts
    <2>2. QED
        BY <1>1, <1>7, <1>9, <1>10, <1>12, <1>13, <1>14, <2>1 DEF MailInv, Addressed
<1>21. Found'
    <2>1. \A n : Somewhere(n)' <=> Somewhere(n)
        BY <1>1, <1>12, <1>13, <1>14, <1>15 DEF Somewhere, Standing
    <2>2. QED
        BY <1>1, <2>1 DEF MailInv, Found
<1>22. QED
    BY <1>5, <1>8, <1>17, <1>18, <1>19, <1>20, <1>21 DEF MailInv

\* The new message comes last in what is kept of a full box.
MakesRoom(box, new, after, d) ==
    /\ after = Append(Kept(box), new) /\ Len(after) <= MaxInbox
    /\ Len(after) \in DOMAIN after /\ DOMAIN after \subseteq Int
    /\ \A i \in DOMAIN after :
          \/ i = Len(after) /\ after[i] = new
          \/ i # Len(after) /\ i + d \in DOMAIN box /\ after[i] = box[i + d]
    /\ ToSet(after) = ToSet(Kept(box)) \cup {new}

LEMMA BoxAfter ==
    ASSUME MailAssumption, NEW T, NEW box \in Seq(T), NEW new \in T
    PROVE  \E after \in Seq(T), d \in Nat : MakesRoom(box, new, after, d)
<1>1. /\ Kept(box) \in Seq(T) /\ Len(Kept(box)) < MaxInbox
      /\ \E d \in Nat : /\ Len(box) = Len(Kept(box)) + d
                       /\ \A i \in 1 .. Len(Kept(box)) : Kept(box)[i] = box[d + i]
    BY KeptFacts
<1>2. PICK kept \in Seq(T) : kept = Kept(box)
    BY <1>1
<1>3. PICK k \in Nat : k = Len(kept) /\ DOMAIN kept = 1 .. k
    OBVIOUS
<1>4. PICK d \in Nat : Len(box) = k + d /\ \A i \in 1 .. k : kept[i] = box[d + i]
    BY <1>1, <1>2, <1>3
<1>5. PICK after \in Seq(T) : after = Append(kept, new) /\ DOMAIN after = 1 .. k + 1
        /\ Len(after) = k + 1 /\ (\A i \in 1 .. k : after[i] = kept[i]) /\ after[k + 1] = new
    <2>1. Append(kept, new) \in Seq(T) /\ Len(Append(kept, new)) = k + 1
        BY <1>3, AppendFacts
    <2>2. DOMAIN Append(kept, new) = 1 .. k + 1
        BY <2>1
    <2>3. \A i \in 1 .. k : Append(kept, new)[i] = kept[i]
        BY <1>3, AppendFacts
    <2>4. Append(kept, new)[k + 1] = new
        BY <1>3, AppendFacts
    <2>5. QED
        BY <2>1, <2>2, <2>3, <2>4
<1>6. ASSUME NEW i \in DOMAIN after, i # k + 1
      PROVE  i + d \in DOMAIN box /\ after[i] = box[i + d]
    <2>1. i \in 1 .. k /\ d + i = i + d /\ i + d \in 1 .. k + d
        BY <1>5, <1>6
    <2>2. DOMAIN box = 1 .. k + d
        BY <1>4
    <2>3. QED
        BY <1>4, <1>5, <2>1, <2>2
<1>7. k + 1 <= MaxInbox
    BY <1>1, <1>2, <1>3 DEF MailAssumption
<1>8. ToSet(after) = ToSet(Kept(box)) \cup {new}
    BY <1>2, <1>5, MembersAppend
<1>9. /\ after = Append(Kept(box), new) /\ Len(after) <= MaxInbox
      /\ Len(after) \in DOMAIN after /\ DOMAIN after \subseteq Int
    BY <1>2, <1>5, <1>7
<1>10. \A i \in DOMAIN after :
          \/ i = Len(after) /\ after[i] = new
          \/ i # Len(after) /\ i + d \in DOMAIN box /\ after[i] = box[i + d]
    BY <1>5, <1>6
<1>11. QED
    BY <1>8, <1>9, <1>10 DEF MakesRoom

\* A thread that has sent, found nobody any more, or is done has nothing left.
LEMMA EndsChange ==
    ASSUME MailAssumption, MailInv, NEW t \in Handlers, Ends(t),
           locked \in {Nobody, t} \/ UNCHANGED <<locked, mailbox>>
    PROVE  /\ errand' \in [Handlers -> Errand] /\ Errands' /\ errand'[t] = NoErrand
           /\ \A u \in Handlers : u # t => errand'[u] = errand[u]
           /\ Lock' /\ Room'
<1>1. NoErrand \in Errand /\ ErrandOK(NoErrand) /\ errand' = [errand EXCEPT ![t] = NoErrand]
    BY EndsFacts DEF Ends
<1>2. ~Holds(NoErrand) /\ \A n : RoomFor(NoErrand, n)
    BY EndsFacts, EmptyFits DEF Holds, RoomFor
<1>3. QED
    BY <1>1, <1>2, ErrandChange

LEMMA DeliverKeeps ==
    ASSUME MailAssumption, MailInv, NEW t \in Handlers, NEW q \in Roots,
           errand[t].pc = "remote", session[q] = errand[t].session, Deliver(t, q), Ends(t),
           UNCHANGED <<running, session, located, mailbox, locked, to, reads>>
    PROVE  MailInv'
<1>1. PICK m \in Messages : m = errand[t].msg
    BY DEF MailInv, Errands, ErrandOK, Sending
<1>2. /\ inbox' = [inbox EXCEPT ![q] = Append(Kept(inbox[q]), m)]
      /\ dropped' = dropped \cup Thrown(inbox[q]) /\ told' = told \cup {m}
    BY <1>1 DEF Deliver
<1>3. PlainTypes
    BY TypesApart DEF MailInv
<1>4. inbox[q] \in Seq(Messages)
    BY <1>3 DEF PlainTypes
<1>0. PICK after \in Seq(Messages), d \in Nat : MakesRoom(inbox[q], m, after, d)
    BY <1>4, BoxAfter
<1>5. /\ after = Append(Kept(inbox[q]), m) /\ Len(after) <= MaxInbox
      /\ Len(after) \in DOMAIN after /\ DOMAIN after \subseteq Int
      /\ \A i \in DOMAIN after :
            \/ i = Len(after) /\ after[i] = m
            \/ i # Len(after) /\ i + d \in DOMAIN inbox[q] /\ after[i] = inbox[q][i + d]
      /\ ToSet(after) = ToSet(Kept(inbox[q])) \cup {m}
    BY <1>0 DEF MakesRoom
<1>6. inbox'[q] = after /\ \A p \in Roots : p # q => inbox'[p] = inbox[p]
    BY <1>2, <1>3, <1>5 DEF PlainTypes
<1>7. Thrown(inbox[q]) \subseteq Messages
    BY <1>4 DEF Thrown, ToSet
<1>8. /\ errand' \in [Handlers -> Errand] /\ Errands' /\ errand'[t] = NoErrand
      /\ \A u \in Handlers : u # t => errand'[u] = errand[u]
      /\ Lock' /\ Room'
    BY EndsChange
<1>9. MailTypeOK'
    <2>1. inbox' \in [Roots -> Seq(Messages)]
        BY <1>2, <1>3, <1>5 DEF PlainTypes
    <2>2. \A p \in Roots : Len(inbox'[p]) <= MaxInbox
        BY <1>3, <1>5, <1>6 DEF PlainTypes
    <2>3. PlainTypes'
        BY <1>2, <1>3, <1>7, <2>1, <2>2 DEF PlainTypes
    <2>4. QED
        BY <1>8, <2>3, TypesApart
\* Before, the message was nowhere.
<1>10. Carries(t, m) /\ errand[t].got = <<>>
    BY <1>1 DEF Carries, Sending, MailInv, Errands, ErrandOK
<1>11. /\ to[m] = session[q] /\ to[m] # Nobody /\ reads[m] = 0
       /\ \A u \in Handlers : Carries(u, m) => u = t
       /\ \A u \in Handlers : \A i : ~Held(m, u, i)
       /\ \A p \in Roots : \A i : ~Boxed(m, p, i)
       /\ \A x \in RootSessions : \A i : ~Filed(m, x, i)
    <2>1. errand[t].session \in RootSessions
        BY DEF MailInv, Errands, ErrandOK, Sending
    <2>2. QED
        BY <1>10, <2>1 DEF MailInv, Carried, MailAssumption
<1>12. \A n, x, i : (Filed(n, x, i)' <=> Filed(n, x, i)) /\ (Whole(x, i)' <=> Whole(x, i))
    BY DEF Filed, Whole
<1>13. \A n : \A u \in Handlers : \A i : Held(n, u, i)' <=> Held(n, u, i)
    BY <1>8, <1>10, EndsFacts DEF Held
<1>14. \A u \in Handlers : \A x : Removing(u, x)' <=> Removing(u, x)
    BY <1>8, EndsFacts DEF Removing
<1>15. \A n : \A u \in Handlers : Carries(u, n)' => u # t /\ Carries(u, n)
    BY <1>8, EndsFacts DEF Carries, Sending
\* Who is in a box now was in it, or is the message.
<1>16. \A n : \A p \in Roots : \A i : Boxed(n, p, i)' <=>
          IF p # q THEN Boxed(n, p, i)
          ELSE i \in DOMAIN after /\ after[i] = n
    BY <1>6 DEF Boxed
<1>17. \A n, i : i \in DOMAIN after /\ after[i] = n =>
          i \in Int /\ IF i = Len(after) THEN n = m ELSE Boxed(n, q, i + d)
    BY <1>5 DEF Boxed
<1>18. \A n : \A p \in Roots : \A i : Boxed(n, p, i)' =>
          \/ n = m /\ p = q /\ i = Len(after)
          \/ n # m /\ p # q /\ Boxed(n, p, i)
          \/ n # m /\ p = q /\ i \in Int /\ Boxed(n, q, i + d)
    BY <1>11, <1>16, <1>17
<1>19. Carried'
    BY <1>2, <1>8, <1>11, <1>12, <1>13, <1>15, <1>18 DEF MailInv, Carried
<1>20. AtFile'
    BY <1>8, <1>12, EndsFacts DEF MailInv, AtFile
<1>21. Apart'
    <2>1. \A n \in Messages : \A p, s \in Roots : \A i, j :
             Boxed(n, p, i)' /\ Boxed(n, s, j)' => p = s /\ i = j
        <3>1. \A n \in Messages : \A p, s \in Roots : \A i, j :
                 Boxed(n, p, i) /\ Boxed(n, s, j) => p = s /\ i = j
            BY DEF MailInv, Apart
        <3>2. \A i, j \in Int : i + d = j + d => i = j
            OBVIOUS
        <3>3. QED
            BY <1>18, <3>1, <3>2
    <2>2. \A n \in Messages : \A p \in Roots : \A i : Boxed(n, p, i)' =>
             n = m \/ \E j : Boxed(n, p, j)
        BY <1>18
    <2>3. QED
        BY <1>11, <1>12, <1>13, <1>14, <2>1, <2>2 DEF MailInv, Apart
<1>22. Addressed'
    <2>1. \A n \in Messages : \A p \in Roots : \A i : Boxed(n, p, i)' =>
             (n = m /\ p = q) \/ \E j : Boxed(n, p, j)
        BY <1>18
    <2>2. ASSUME NEW n \in Messages, NEW u \in Handlers, NEW i, Held(n, u, i)
          PROVE  errand'[u] = errand[u]
        BY <1>8, <1>10, <2>2, HeldSome
    <2>3. QED
        BY <1>2, <1>11, <1>12, <1>13, <2>1, <2>2 DEF MailInv, Addressed
<1>23. Found'
    <2>1. SUFFICES ASSUME NEW n \in told', n \notin dropped' PROVE Somewhere(n)'
        BY DEF Found
    <2>2. CASE n \in ToSet(after)
        <3>1. PICK i \in DOMAIN after : after[i] = n
            BY <2>2 DEF ToSet
        <3>2. QED
            BY <1>16, <3>1 DEF Somewhere
    <2>3. CASE n \notin ToSet(after)
        <3>1. n \in told /\ n \notin dropped /\ n \notin ToSet(inbox[q])
            BY <1>2, <1>5, <2>1, <2>3 DEF Thrown
        <3>2. Somewhere(n) /\ \A i : ~Boxed(n, q, i)
            BY <3>1, InBox DEF MailInv, Found
        <3>3. QED
            BY <1>12, <1>13, <1>14, <1>16, <3>2 DEF Somewhere, Standing
    <2>4. QED
        BY <2>2, <2>3
<1>24. QED
    BY <1>8, <1>9, <1>19, <1>20, <1>21, <1>22, <1>23 DEF MailInv

LEMMA RemoteKeeps ==
    ASSUME MailAssumption, MailInv, NEW t \in Handlers, Remote(t) PROVE MailInv'
<1> DEFINE q == errand[t].at
<1>1. errand[t].pc = "remote" /\ q \in Roots /\ Ends(t)
    BY DEF Remote, MailInv, Errands, ErrandOK
<1>2. UNCHANGED <<running, session, located, mailbox, locked, to, reads>>
    BY DEF Remote
<1>3. CASE session[q] = errand[t].session /\ Deliver(t, q)
    BY <1>1, <1>2, <1>3, DeliverKeeps
<1>4. CASE UNCHANGED <<inbox, dropped, told>>
    <2>1. NoErrand \in Errand /\ ErrandOK(NoErrand) /\ errand' = [errand EXCEPT ![t] = NoErrand]
        BY <1>1, EndsFacts DEF Ends
    <2>2. ~Holds(NoErrand) /\ NoErrand.pc \notin Sending /\ NoErrand.got = <<>>
        BY EndsFacts DEF Holds, Sending
    <2>3. errand[t].got = <<>>
        BY <1>1 DEF MailInv, Errands, ErrandOK, Sending
    <2>4. located' \in [RootSessions -> Roots \cup {Nobody}]
        BY <1>2, TypesApart DEF MailInv, PlainTypes
    <2>5. QED
        BY <1>1, <1>2, <1>4, <2>1, <2>2, <2>3, <2>4, RestingStep
<1>5. QED
    BY <1>3, <1>4 DEF Remote

\* While one thread has MAILBOX_LOCK, or nobody, no other writes or removes a file.
LEMMA Alone ==
    ASSUME MailAssumption, MailInv, NEW t \in Handlers, locked \in {Nobody, t},
           NEW u \in Handlers, u # t
    PROVE  errand[u].pc \notin {"create", "fill", "remove"} /\ \A x : ~Removing(u, x)
<1>1. ~Holds(errand[u])
    BY DEF MailInv, Lock, MailAssumption
<1>2. QED
    BY <1>1 DEF Holds, Removing

LEMMA MakeRoomKeeps ==
    ASSUME MailAssumption, MailInv, NEW t \in Handlers, MakeRoom(t) PROVE MailInv'
<1>1. PICK x \in RootSessions : x = errand[t].session
    BY DEF MakeRoom, MailInv, Errands, ErrandOK, Sending
<1>2. PlainTypes
    BY TypesApart DEF MailInv
<1>3. PICK box \in Seq(File) : box = mailbox[x]
    BY <1>2 DEF PlainTypes
<1> DEFINE e == At(errand[t], "create")
           old == {box[i].msg : i \in 1 .. (Len(box) - Len(Kept(box)))}
<1>4. /\ errand[t].pc = "queue" /\ locked = Nobody /\ locked' = t
      /\ mailbox' = [mailbox EXCEPT ![x] = Kept(box)] /\ dropped' = dropped \cup old
      /\ UNCHANGED <<running, session, inbox, located, to, told, reads>>
    BY <1>1, <1>2, <1>3 DEF MakeRoom, PlainTypes
<1>5. /\ errand' = [errand EXCEPT ![t] = e] /\ errand[t] \in Errand
      /\ errand[t].msg \in Messages /\ errand[t].got = <<>>
    BY <1>4, GoesFacts DEF MakeRoom, MailInv, Errands, ErrandOK, Sending
<1>6. /\ Kept(box) \in Seq(File) /\ Len(Kept(box)) < MaxInbox
      /\ \E d \in Nat : /\ Len(box) = Len(Kept(box)) + d
                       /\ \A i \in 1 .. Len(Kept(box)) : Kept(box)[i] = box[d + i]
    BY KeptFacts
<1>7. PICK kept \in Seq(File), k \in Nat : kept = Kept(box) /\ k = Len(kept) /\ DOMAIN kept = 1 .. k
    BY <1>6
<1>8. PICK d \in Nat : Len(box) = k + d /\ \A i \in 1 .. k : kept[i] = box[d + i]
    BY <1>6, <1>7
<1>9. mailbox'[x] = kept /\ \A y \in RootSessions : y # x => mailbox'[y] = mailbox[y]
    BY <1>2, <1>4, <1>7 DEF PlainTypes
<1>10. old = {box[i].msg : i \in 1 .. d} /\ DOMAIN box = 1 .. k + d
    <2>1. Len(box) - Len(Kept(box)) = d
        BY <1>7, <1>8
    <2>2. QED
        BY <1>8, <2>1
<1>11. old \subseteq Messages
    <2>1. \A i \in DOMAIN box : box[i] \in File
        OBVIOUS
    <2>2. 1 .. d \subseteq DOMAIN box
        BY <1>10
    <2>3. \A f \in File : f.msg \in Messages
        BY DEF File
    <2>4. QED
        BY <1>10, <2>1, <2>2, <2>3
<1>12. mailbox' \in [RootSessions -> Seq(File)]
    BY <1>2, <1>4, <1>6 DEF PlainTypes
<1> HIDE DEF e, old
<1>13. /\ e \in Errand /\ e.pc = "create" /\ e.msg = errand[t].msg
       /\ e.session = x /\ e.got = <<>>
    BY <1>1, <1>5, AtFacts DEF e, Stops
<1>14. ErrandOK(e)
    BY <1>5, <1>13 DEF ErrandOK, Sending, Moving
<1>15. RoomFor(e, Len(mailbox'[e.session]))
    BY <1>6, <1>7, <1>9, <1>13, EmptyFits DEF RoomFor
<1>16. /\ errand' \in [Handlers -> Errand] /\ Errands' /\ errand'[t] = e
       /\ \A u \in Handlers : u # t => errand'[u] = errand[u]
       /\ Lock' /\ Room'
    BY <1>4, <1>5, <1>13, <1>14, <1>15, ErrandChange
<1>17. MailTypeOK'
    <2>1. \A y \in RootSessions : Len(mailbox'[y]) <= MaxInbox
        <3>1. k <= MaxInbox
            BY <1>6, <1>7 DEF MailAssumption
        <3>2. QED
            BY <1>2, <1>7, <1>9, <3>1 DEF PlainTypes
    <2>2. PlainTypes'
        BY <1>2, <1>4, <1>11, <1>12, <2>1 DEF PlainTypes
    <2>3. QED
        BY <1>16, <2>2, TypesApart
\* The files of x move up by d, those that fall out are old.
<1>18. \A y \in RootSessions : y # x => \A n, i :
          (Filed(n, y, i)' <=> Filed(n, y, i)) /\ (Whole(y, i)' <=> Whole(y, i))
    BY <1>9 DEF Filed, Whole
<1>19. \A n, i : Filed(n, x, i)' => /\ i \in 1 .. k /\ Filed(n, x, i + d)
                                  /\ (Whole(x, i)' <=> Whole(x, i + d))
    <2>1. ASSUME NEW i \in 1 .. k PROVE i + d \in 1 .. k + d /\ i + d = d + i
        BY <2>1
    <2>2. QED
        BY <1>3, <1>7, <1>8, <1>9, <1>10, <2>1 DEF Filed, Whole
<1>20. \A n, i : Filed(n, x, i) => n \in old \/ (i - d \in 1 .. k /\ Filed(n, x, i - d)')
    <2>1. SUFFICES ASSUME NEW i \in 1 .. k + d, i \notin 1 .. d
                   PROVE  i - d \in 1 .. k /\ d + (i - d) = i
        BY <1>3, <1>7, <1>8, <1>9, <1>10 DEF Filed
    <2>2. QED
        BY <2>1
<1>21. \A n : \A u \in Handlers : \A i : Held(n, u, i)' <=> Held(n, u, i)
    BY <1>5, <1>13, <1>16 DEF Held
<1>22. \A n, q, i : Boxed(n, q, i)' <=> Boxed(n, q, i)
    BY <1>4 DEF Boxed
<1>23. \A u \in Handlers : /\ errand[u].pc \notin {"fill", "remove"}
                           /\ errand'[u].pc \notin {"fill", "remove"}
                           /\ \A y : ~Removing(u, y) /\ ~Removing(u, y)'
    BY <1>4, <1>13, <1>16, Alone DEF Removing
<1>24. \A n : \A u \in Handlers : Carries(u, n)' =>
          Carries(u, n) /\ errand'[u].session = errand[u].session
    BY <1>1, <1>4, <1>13, <1>16 DEF Carries, Sending
<1>25. \A n : \A y \in RootSessions : \A i : Filed(n, y, i)' => \E j : Filed(n, y, j)
    BY <1>18, <1>19
<1>26. Carried'
    BY <1>4, <1>21, <1>22, <1>23, <1>24, <1>25 DEF MailInv, Carried
<1>27. AtFile'
    BY <1>23 DEF AtFile
<1>28. Apart'
    <2>1. \A n \in Messages : \A y, z \in RootSessions : \A i, j :
             Filed(n, y, i)' /\ Filed(n, z, j)' => y = z /\ i = j
        <3>1. SUFFICES ASSUME NEW n \in Messages, NEW y \in RootSessions, NEW z \in RootSessions,
                              NEW i, NEW j, Filed(n, y, i)', Filed(n, z, j)'
                       PROVE  y = z /\ i = j
            OBVIOUS
        <3>2. y = z
            BY <1>25, <3>1 DEF MailInv, Apart
        <3>3. CASE y # x
            BY <1>18, <3>1, <3>2, <3>3 DEF MailInv, Apart
        <3>4. CASE y = x
            <4>1. /\ i \in 1 .. k /\ j \in 1 .. k
                  /\ Filed(n, x, i + d) /\ Filed(n, x, j + d)
                BY <1>19, <3>1, <3>2, <3>4
            <4>2. i + d = j + d
                BY <4>1 DEF MailInv, Apart
            <4>3. QED
                BY <3>2, <4>1, <4>2
        <3>5. QED
            BY <3>3, <3>4
    <2>2. QED
        BY <1>4, <1>21, <1>22, <1>23, <1>25, <2>1 DEF MailInv, Apart
<1>29. Addressed'
    <2>1. \A u \in Handlers : errand'[u].session = errand[u].session
        BY <1>1, <1>13, <1>16
    <2>2. QED
        BY <1>4, <1>21, <1>22, <1>25, <2>1 DEF MailInv, Addressed
<1>30. Found'
    <2>1. SUFFICES ASSUME NEW n \in told, n \notin dropped, n \notin old PROVE Somewhere(n)'
        BY <1>4 DEF Found
    <2>2. Somewhere(n)
        BY <2>1 DEF MailInv, Found
    <2>3. ASSUME NEW y \in RootSessions, NEW i, Filed(n, y, i), Whole(y, i)
          PROVE  \E j : Filed(n, y, j)' /\ Whole(y, j)'
        <3>1. CASE y # x
            BY <1>18, <2>3, <3>1
        <3>2. CASE y = x
            <4>0. i \in Int
                BY <1>3, <1>10, <2>3, <3>2 DEF Filed
            <4>1. i - d \in 1 .. k /\ Filed(n, x, i - d)'
                BY <1>20, <2>1, <2>3, <3>2
            <4>2. (i - d) + d = i
                BY <4>0
            <4>3. Whole(x, i - d)' <=> Whole(x, i)
                BY <1>19, <4>1, <4>2
            <4>4. QED
                BY <2>3, <3>2, <4>1, <4>3
        <3>3. QED
            BY <3>1, <3>2
    <2>4. QED
        BY <1>4, <1>21, <1>22, <1>23, <2>2, <2>3 DEF Somewhere, Standing
<1>31. QED
    BY <1>16, <1>17, <1>26, <1>27, <1>28, <1>29, <1>30 DEF MailInv

LEMMA CreateKeeps ==
    ASSUME MailAssumption, MailInv, NEW t \in Handlers, Create(t) PROVE MailInv'
<1>1. PICK x \in RootSessions, m \in Messages : x = errand[t].session /\ m = errand[t].msg
    BY DEF Create, MailInv, Errands, ErrandOK, Sending
<1>2. PlainTypes
    BY TypesApart DEF MailInv
<1>3. PICK box \in Seq(File) : box = mailbox[x]
    BY <1>2 DEF PlainTypes
<1> DEFINE e == At(errand[t], "fill")
           f == [msg |-> m, whole |-> FALSE]
<1>4. /\ errand[t].pc = "create" /\ locked = t
      /\ mailbox' = [mailbox EXCEPT ![x] = Append(box, f)]
      /\ UNCHANGED <<running, session, inbox, located, locked, to, told, reads, dropped>>
    BY <1>1, <1>2, <1>3 DEF Create, PlainTypes, mailHistory, MailInv, Lock, Holds
<1>5. /\ errand' = [errand EXCEPT ![t] = e] /\ errand[t] \in Errand /\ errand[t].got = <<>>
    BY <1>4, GoesFacts DEF Create, MailInv, Errands, ErrandOK, Sending
<1>6. f \in File /\ f.msg = m /\ f.whole = FALSE
    BY DEF File
<1>0. PICK after \in Seq(File), k \in Nat : after = Append(box, f) /\ k = Len(box)
    <2>1. Append(box, f) \in Seq(File) /\ Len(box) \in Nat
        BY <1>6, AppendProperties
    <2>2. QED
        BY <2>1, Zenon
<1>7. /\ Len(after) = k + 1
      /\ \A i : i \in DOMAIN after <=> i \in DOMAIN box \/ i = k + 1
      /\ \A i \in DOMAIN box : after[i] = box[i] /\ i # k + 1
      /\ after[k + 1] = f
    BY <1>0, <1>6, AppendFacts
<1>8. mailbox'[x] = after /\ \A y \in RootSessions : y # x => mailbox'[y] = mailbox[y]
    BY <1>0, <1>2, <1>4 DEF PlainTypes
<1>9. mailbox' \in [RootSessions -> Seq(File)]
    BY <1>0, <1>2, <1>4 DEF PlainTypes
<1> HIDE DEF e, f
<1>10. /\ e \in Errand /\ e.pc = "fill" /\ e.msg = m /\ e.session = x /\ e.got = <<>>
    BY <1>1, <1>5, AtFacts DEF e, Stops
<1>11. ErrandOK(e)
    BY <1>10 DEF ErrandOK, Sending, Moving
<1>12. RoomFor(e, Len(mailbox'[e.session]))
    BY <1>10, EmptyFits DEF RoomFor
<1>13. /\ errand' \in [Handlers -> Errand] /\ Errands' /\ errand'[t] = e
       /\ \A u \in Handlers : u # t => errand'[u] = errand[u]
       /\ Lock' /\ Room'
    BY <1>4, <1>5, <1>10, <1>11, <1>12, ErrandChange
<1>14. MailTypeOK'
    <2>1. k < MaxInbox
        BY <1>0, <1>1, <1>3, <1>4 DEF MailInv, Room, RoomFor
    <2>2. Len(mailbox'[x]) <= MaxInbox
        BY <1>0, <1>7, <1>8, <2>1 DEF MailAssumption
    <2>3. \A y \in RootSessions : Len(mailbox'[y]) <= MaxInbox
        BY <1>2, <1>8, <2>2 DEF PlainTypes
    <2>4. PlainTypes'
        BY <1>2, <1>4, <1>9, <2>3 DEF PlainTypes
    <2>5. QED
        BY <1>13, <2>4, TypesApart
\* One file more.
<1>15. \A n : \A y \in RootSessions : \A i :
          /\ Filed(n, y, i)' <=> Filed(n, y, i) \/ (y = x /\ n = m /\ i = k + 1)
          /\ Filed(n, y, i) => (Whole(y, i)' <=> Whole(y, i))
    BY <1>3, <1>6, <1>7, <1>8 DEF Filed, Whole
<1>16. ~Whole(x, k + 1)' /\ Len(mailbox'[x]) = k + 1
    BY <1>6, <1>7, <1>8 DEF Whole
<1>17. \A n : \A u \in Handlers : \A i : Held(n, u, i)' <=> Held(n, u, i)
    BY <1>5, <1>10, <1>13 DEF Held
<1>18. \A n, q, i : Boxed(n, q, i)' <=> Boxed(n, q, i)
    BY <1>4 DEF Boxed
<1>19. \A u \in Handlers : /\ errand[u].pc \notin {"fill", "remove"}
                           /\ u # t => errand'[u].pc \notin {"fill", "remove"}
                           /\ \A y : ~Removing(u, y) /\ ~Removing(u, y)'
    BY <1>4, <1>10, <1>13, Alone DEF Removing
<1>20. \A n : \A u \in Handlers : Carries(u, n)' =>
          Carries(u, n) /\ errand'[u].session = errand[u].session
    BY <1>1, <1>4, <1>10, <1>13 DEF Carries, Sending
<1>21. Carries(t, m)
    BY <1>1, <1>4 DEF Carries, Sending
<1>22. /\ to[m] = x /\ reads[m] = 0
       /\ \A u \in Handlers : Carries(u, m) => u = t
       /\ \A u \in Handlers : \A i : ~Held(m, u, i)
       /\ \A q \in Roots : \A i : ~Boxed(m, q, i)
       /\ \A y \in RootSessions : \A i : ~Filed(m, y, i)
    BY <1>1, <1>4, <1>21 DEF MailInv, Carried
<1>23. \A n \in Messages : \A u \in Handlers : Carries(u, n)' =>
          \A y \in RootSessions : \A i : Filed(n, y, i)' =>
              n = m /\ u = t /\ y = x /\ i = k + 1
    <2>1. \A n \in Messages : \A u \in Handlers : Carries(u, n) =>
             \A y \in RootSessions : \A i : ~Filed(n, y, i)
        BY <1>19 DEF MailInv, Carried
    <2>2. QED
        BY <1>15, <1>20, <1>22, <2>1
<1>24. Carried'
    BY <1>4, <1>10, <1>13, <1>16, <1>17, <1>18, <1>20, <1>22, <1>23 DEF MailInv, Carried
<1>25. AtFile'
    BY <1>10, <1>13, <1>15, <1>16, <1>19 DEF AtFile
<1>26. Apart'
    <2>1. \A n \in Messages : \A u \in Handlers : \A i, j : \A y \in RootSessions :
             Held(n, u, j) => ~Filed(n, y, i)'
        BY <1>15, <1>19, <1>22 DEF MailInv, Apart
    <2>2. QED
        BY <1>4, <1>15, <1>17, <1>18, <1>22, <2>1 DEF MailInv, Apart
<1>27. Addressed'
    <2>1. \A u \in Handlers : errand'[u].session = errand[u].session
        BY <1>1, <1>10, <1>13
    <2>2. QED
        BY <1>4, <1>15, <1>17, <1>18, <1>22, <2>1 DEF MailInv, Addressed
<1>28. Found'
    BY <1>4, <1>15, <1>17, <1>18, <1>19 DEF MailInv, Found, Somewhere, Standing
<1>29. QED
    BY <1>13, <1>14, <1>24, <1>25, <1>26, <1>27, <1>28 DEF MailInv

LEMMA FillKeeps ==
    ASSUME MailAssumption, MailInv, NEW t \in Handlers, Fill(t) PROVE MailInv'
<1>1. PICK x \in RootSessions, m \in Messages : x = errand[t].session /\ m = errand[t].msg
    BY DEF Fill, MailInv, Errands, ErrandOK, Sending
<1>2. PlainTypes
    BY TypesApart DEF MailInv
<1>3. PICK box \in Seq(File) : box = mailbox[x]
    BY <1>2 DEF PlainTypes
<1>4. PICK k : k = Len(box)
    OBVIOUS
<1>5. errand[t].pc = "fill" /\ locked = t /\ errand[t].got = <<>>
    BY DEF Fill, MailInv, Lock, Holds, Errands, ErrandOK, Sending
<1>6. Filed(m, x, k) /\ k \in DOMAIN box
    BY <1>1, <1>3, <1>4, <1>5 DEF MailInv, AtFile, Filed
<1> DEFINE f == [box[k] EXCEPT !.whole = TRUE]
<1>7. f \in File /\ f.msg = box[k].msg /\ f.whole = TRUE
    <2>1. box[k] \in File
        BY <1>6
    <2>2. \A g \in File : /\ [g EXCEPT !.whole = TRUE] \in File
                          /\ [g EXCEPT !.whole = TRUE].msg = g.msg
                          /\ [g EXCEPT !.whole = TRUE].whole = TRUE
        BY DEF File
    <2>3. QED
        BY <2>1, <2>2
<1>8. PICK after : /\ after \in Seq(File) /\ after = [box EXCEPT ![k] = f]
                   /\ Len(after) = Len(box) /\ DOMAIN after = DOMAIN box
                   /\ after[k] = f /\ \A i \in DOMAIN box : i # k => after[i] = box[i]
    <2>1. k \in 1 .. Len(box)
        BY <1>6
    <2> DEFINE new == [box EXCEPT ![k] = f]
    <2>2. /\ new \in Seq(File) /\ Len(new) = Len(box)
          /\ \A i \in 1 .. Len(box) : new[i] = IF i = k THEN f ELSE box[i]
        BY <1>7, <2>1, ExceptSeq
    <2>3. DOMAIN new = DOMAIN box /\ DOMAIN box = 1 .. Len(box)
        OBVIOUS
    <2>4. QED
        BY <1>6, <2>2, <2>3, Zenon
<1>9. /\ mailbox' = [mailbox EXCEPT ![x] = after] /\ locked' = Nobody
      /\ told' = told \cup {m}
      /\ UNCHANGED <<running, session, inbox, located, to, reads, dropped>>
    BY <1>1, <1>2, <1>3, <1>4, <1>8 DEF Fill, PlainTypes
<1>10. mailbox'[x] = after /\ \A y \in RootSessions : y # x => mailbox'[y] = mailbox[y]
    BY <1>2, <1>9 DEF PlainTypes
<1>11. mailbox' \in [RootSessions -> Seq(File)]
    <2>1. after \in Seq(File)
        BY <1>8
    <2>2. QED
        BY <1>2, <1>9, <2>1 DEF PlainTypes
<1>12. /\ errand' \in [Handlers -> Errand] /\ Errands' /\ errand'[t] = NoErrand
       /\ \A u \in Handlers : u # t => errand'[u] = errand[u]
       /\ Lock' /\ Room'
    BY <1>5, EndsChange DEF Fill
<1>13. MailTypeOK'
    <2>1. \A y \in RootSessions : Len(mailbox'[y]) <= MaxInbox
        BY <1>2, <1>3, <1>8, <1>10 DEF PlainTypes
    <2>2. PlainTypes'
        BY <1>2, <1>9, <1>11, <2>1 DEF PlainTypes
    <2>3. QED
        BY <1>12, <2>2, TypesApart
<1> HIDE DEF f
<1>14. \A n : \A y \in RootSessions : \A i :
          /\ Filed(n, y, i)' <=> Filed(n, y, i)
          /\ Filed(n, y, i) => (Whole(y, i)' <=> Whole(y, i) \/ (y = x /\ i = k))
    <2>1. \A i \in DOMAIN box : /\ after[i].msg = box[i].msg
                                /\ after[i].whole <=> box[i].whole \/ i = k
        BY <1>7, <1>8
    <2>2. QED
        BY <1>3, <1>8, <1>10, <2>1 DEF Filed, Whole
<1>15. \A n : \A u \in Handlers : \A i : Held(n, u, i)' <=> Held(n, u, i)
    BY <1>5, <1>12, EndsFacts DEF Held
<1>16. \A n, q, i : Boxed(n, q, i)' <=> Boxed(n, q, i)
    BY <1>9 DEF Boxed
<1>17. \A u \in Handlers : /\ u # t => errand[u].pc \notin {"fill", "remove"}
                           /\ errand'[u].pc \notin {"fill", "remove"}
                           /\ \A y : ~Removing(u, y) /\ ~Removing(u, y)'
    BY <1>5, <1>12, Alone, EndsFacts DEF Removing
<1>18. \A n : \A u \in Handlers : Carries(u, n)' => u # t /\ Carries(u, n)
    BY <1>12, EndsFacts DEF Carries, Sending
<1>19. Carries(t, m)
    BY <1>1, <1>5 DEF Carries, Sending
<1>20. to[m] # Nobody /\ \A u \in Handlers : Carries(u, m) => u = t
    BY <1>1, <1>19 DEF MailInv, Carried, MailAssumption
<1>21. Carried'
    BY <1>9, <1>12, <1>14, <1>15, <1>16, <1>17, <1>18, <1>20 DEF MailInv, Carried
<1>22. AtFile'
    BY <1>17 DEF AtFile
<1>23. Apart'
    BY <1>9, <1>14, <1>15, <1>16, <1>17 DEF MailInv, Apart
<1>24. Addressed'
    <2>1. ASSUME NEW n, NEW u \in Handlers, NEW i, Held(n, u, i)
          PROVE  errand'[u].session = errand[u].session
        BY <1>5, <1>12, <2>1, HeldSome
    <2>2. QED
        BY <1>9, <1>14, <1>15, <1>16, <1>20, <2>1 DEF MailInv, Addressed
<1>25. Found'
    <2>1. Somewhere(m)'
        BY <1>6, <1>14, <1>17 DEF Somewhere, Standing
    <2>2. \A n : Somewhere(n) => Somewhere(n)'
        BY <1>9, <1>14, <1>15, <1>16, <1>17 DEF Somewhere, Standing
    <2>3. QED
        BY <1>9, <2>1, <2>2 DEF MailInv, Found
<1>26. QED
    BY <1>12, <1>13, <1>21, <1>22, <1>23, <1>24, <1>25 DEF MailInv

LEMMA ReadFileKeeps ==
    ASSUME MailAssumption, MailInv, NEW t \in Handlers, ReadFile(t) PROVE MailInv'
<1>1. PICK x \in RootSessions : x = errand[t].session
    BY DEF ReadFile, MailInv, Errands, ErrandOK, Moving
<1>2. PlainTypes /\ errand[t] \in Errand
    BY TypesApart DEF MailInv
<1>3. PICK box \in Seq(File) : box = mailbox[x]
    BY <1>2 DEF PlainTypes
<1>4. PICK had \in Seq(Messages) : had = errand[t].got
    BY <1>2 DEF Errand
<1>5. /\ errand[t].pc = "take" /\ locked \in {Nobody, t} /\ locked' = t /\ box # <<>>
      /\ errand[t].root \in Roots /\ errand[t].msg = Nobody
      /\ UNCHANGED <<running, session, inbox, located, mailbox, to, told, reads, dropped>>
    BY <1>1, <1>3 DEF ReadFile, mailHistory, MailInv, Errands, ErrandOK, Moving
<1>6. PICK k \in Nat, h \in Messages :
          k = Len(had) /\ h = Head(box).msg /\ Filed(h, x, 1) /\ Head(box) = box[1]
    <2>1. Head(box) = box[1] /\ Head(box) \in File /\ Len(box) \in Nat \ {0}
        BY <1>5, TailFacts
    <2>2. 1 \in DOMAIN box /\ Head(box).msg \in Messages /\ Len(had) \in Nat
        BY <2>1 DEF File
    <2>3. Filed(Head(box).msg, x, 1)
        BY <1>3, <2>1, <2>2 DEF Filed
    <2>4. QED
        BY <2>1, <2>2, <2>3
\* The hands after it.
<1>7. PICK got \in Seq(Messages) :
          /\ got = IF Head(box).whole THEN Append(had, h) ELSE had
          /\ Len(got) = IF Whole(x, 1) THEN k + 1 ELSE k
          /\ \A n, i : i \in DOMAIN got /\ got[i] = n <=>
                \/ i \in DOMAIN had /\ had[i] = n
                \/ Whole(x, 1) /\ n = h /\ i = k + 1
    <2>1. Whole(x, 1) <=> Head(box).whole
        BY <1>3, <1>6 DEF Whole
    <2>2. CASE Head(box).whole
        <3>1. /\ Append(had, h) \in Seq(Messages) /\ Len(Append(had, h)) = k + 1
              /\ \A i : i \in DOMAIN Append(had, h) <=> i \in DOMAIN had \/ i = k + 1
              /\ \A i \in DOMAIN had : Append(had, h)[i] = had[i] /\ i # k + 1
              /\ Append(had, h)[k + 1] = h
            BY <1>6, AppendFacts
        <3>2. PICK got \in Seq(Messages) : got = Append(had, h)
            BY <3>1
        <3>3. \A n, i : i \in DOMAIN got /\ got[i] = n <=>
                 (i \in DOMAIN had /\ had[i] = n) \/ (n = h /\ i = k + 1)
            BY <3>1, <3>2
        <3>4. /\ got = IF Head(box).whole THEN Append(had, h) ELSE had
              /\ Len(got) = IF Whole(x, 1) THEN k + 1 ELSE k
            BY <2>1, <2>2, <3>1, <3>2
        <3>5. \A n, i : i \in DOMAIN got /\ got[i] = n <=>
                 \/ i \in DOMAIN had /\ had[i] = n
                 \/ Whole(x, 1) /\ n = h /\ i = k + 1
            BY <2>1, <2>2, <3>3
        <3>6. QED
            BY <3>4, <3>5, Zenon
    <2>3. CASE ~Head(box).whole
        BY <1>6, <2>1, <2>3
    <2>4. QED
        BY <2>2, <2>3
<1> DEFINE e == [errand[t] EXCEPT !.pc = "remove", !.got = got]
<1>8. errand' = [errand EXCEPT ![t] = e]
    <2>1. got = IF Head(mailbox[x]).whole THEN Append(errand[t].got, Head(mailbox[x]).msg)
                ELSE errand[t].got
        BY <1>3, <1>4, <1>6, <1>7
    <2>2. errand \in [Handlers -> Errand]
        BY TypesApart DEF MailInv
    <2>3. errand' = [errand EXCEPT ![t] = [@ EXCEPT !.pc = "remove", !.got = got]]
        BY <1>1, <2>1, <2>2 DEF ReadFile, Errand
    <2>4. QED
        BY <2>2, <2>3
<1>9. /\ e \in Errand /\ e.pc = "remove" /\ e.msg = Nobody /\ e.session = x
      /\ e.root = errand[t].root /\ e.got = got
    BY <1>1, <1>2, <1>5 DEF Errand, Stops
<1> HIDE DEF e
<1>10. ErrandOK(e)
    BY <1>5, <1>9 DEF ErrandOK, Sending, Moving
<1>11. RoomFor(e, Len(mailbox'[e.session]))
    <2>1. Len(box) \in Nat \ {0} /\ Len(box) <= MaxInbox /\ MaxInbox \in Nat
        BY <1>2, <1>3, <1>5, TailFacts DEF PlainTypes, MailAssumption
    <2>2. had # <<>> => k + Len(box) <= MaxInbox
        BY <1>1, <1>3, <1>4, <1>5, <1>6 DEF MailInv, Room, RoomFor
    <2>3. had = <<>> => k = 0
        BY <1>6
    <2>4. k + Len(box) <= MaxInbox
        BY <1>6, <2>1, <2>2, <2>3
    <2>5. Len(got) + Len(box) <= MaxInbox + 1 /\ Len(got) <= MaxInbox
        BY <1>6, <1>7, <2>1, <2>4
    <2>6. QED
        BY <1>3, <1>5, <1>9, <2>5 DEF RoomFor
<1>12. /\ errand' \in [Handlers -> Errand] /\ Errands' /\ errand'[t] = e
       /\ \A u \in Handlers : u # t => errand'[u] = errand[u]
       /\ Lock' /\ Room'
    BY <1>5, <1>8, <1>9, <1>10, <1>11, ErrandChange
<1>13. MailTypeOK'
    <2>1. PlainTypes'
        BY <1>2, <1>5 DEF PlainTypes
    <2>2. QED
        BY <1>12, <2>1, TypesApart
<1>14. \A n, y, i : (Filed(n, y, i)' <=> Filed(n, y, i)) /\ (Whole(y, i)' <=> Whole(y, i))
    BY <1>5 DEF Filed, Whole
<1>15. \A n, q, i : Boxed(n, q, i)' <=> Boxed(n, q, i)
    BY <1>5 DEF Boxed
\* A whole file's message is in hand too,
<1>16. \A n : \A u \in Handlers : \A i : Held(n, u, i)' <=>
          Held(n, u, i) \/ (Whole(x, 1) /\ n = h /\ u = t /\ i = k + 1)
    <2>1. \A n, i : (Held(n, t, i)' <=> i \in DOMAIN got /\ got[i] = n)
                  /\ (Held(n, t, i) <=> i \in DOMAIN had /\ had[i] = n)
        BY <1>4, <1>9, <1>12 DEF Held
    <2>2. \A n : \A u \in Handlers : \A i : u # t => (Held(n, u, i)' <=> Held(n, u, i))
        BY <1>12 DEF Held
    <2>3. \A n, i : i \in DOMAIN got /\ got[i] = n <=>
             (i \in DOMAIN had /\ had[i] = n) \/ (Whole(x, 1) /\ n = h /\ i = k + 1)
        BY <1>7
    <2>4. \A n, i : Held(n, t, i)' <=>
             Held(n, t, i) \/ (Whole(x, 1) /\ n = h /\ i = k + 1)
        BY <2>1, <2>3, Zenon
    <2>5. QED
        BY <2>2, <2>4
\* and the file is being removed.
<1>17. \A u \in Handlers : \A y : ~Removing(u, y) /\ (Removing(u, y)' <=> u = t /\ y = x)
    BY <1>5, <1>9, <1>12, Alone DEF Removing
<1>18. \A n : \A u \in Handlers : Carries(u, n)' => Carries(u, n) /\ u # t
    BY <1>9, <1>12 DEF Carries, Sending
<1>19. \A u \in Handlers : /\ errand[u].pc # "fill" /\ errand'[u].pc # "fill"
                           /\ ~Carries(u, h)
                           /\ errand'[u].session = errand[u].session
    <2>1. \A u \in Handlers : errand[u].pc # "fill" /\ errand'[u].pc # "fill"
        BY <1>5, <1>9, <1>12, Alone
    <2>2. QED
        BY <1>1, <1>6, <1>9, <1>12, <2>1 DEF MailInv, Carried
\* Nobody else had it.
<1>20. /\ to[h] = x /\ x # Nobody /\ reads[h] = 0
       /\ \A u \in Handlers : \A i : ~Held(h, u, i)
       /\ \A q \in Roots : \A i : ~Boxed(h, q, i)
    BY <1>6, <1>17 DEF MailInv, Apart, Addressed, MailAssumption
<1>21. Carried'
    <2>1. \A n : \A u \in Handlers : Carries(u, n)' =>
             /\ Carries(u, n) /\ n # h /\ errand'[u].session = errand[u].session
             /\ \A v \in Handlers : \A i : Held(n, v, i)' <=> Held(n, v, i)
        BY <1>16, <1>18, <1>19
    <2>2. QED
        BY <1>5, <1>14, <1>15, <1>18, <1>19, <2>1 DEF MailInv, Carried
<1>22. AtFile'
    <2>1. \A u \in Handlers : errand'[u].pc = "remove" => errand'[u].session = x
        BY <1>5, <1>9, <1>12, Alone
    <2>2. QED
        BY <1>3, <1>5, <1>19, <2>1 DEF AtFile
<1>23. Apart'
    <2>1. \A n \in Messages : \A u, v \in Handlers : \A i, j :
             Held(n, u, i)' /\ Held(n, v, j)' => u = v /\ i = j
        BY <1>16, <1>20 DEF MailInv, Apart
    <2>2. \A n \in Messages : \A u \in Handlers : \A i : Held(n, u, i)' =>
             reads[n] = 0 /\ \A q \in Roots : \A j : ~Boxed(n, q, j)
        BY <1>16, <1>20 DEF MailInv, Apart
    <2>3. \A n \in Messages : \A y \in RootSessions : \A i : \A u \in Handlers : \A j :
             Filed(n, y, i) /\ Held(n, u, j)' => u = t /\ y = x /\ i = 1 /\ Whole(y, i)
        <3>1. \A n \in Messages : \A y \in RootSessions : \A i : \A u \in Handlers : \A j :
                 Filed(n, y, i) => ~Held(n, u, j)
            BY <1>17 DEF MailInv, Apart
        <3>2. \A y \in RootSessions : \A i : Filed(h, y, i) => y = x /\ i = 1
            BY <1>6 DEF MailInv, Apart
        <3>3. QED
            BY <1>16, <3>1, <3>2
    <2>4. QED
        BY <1>5, <1>14, <1>15, <1>17, <2>1, <2>2, <2>3 DEF MailInv, Apart
<1>24. Addressed'
    BY <1>1, <1>5, <1>14, <1>15, <1>16, <1>19, <1>20 DEF MailInv, Addressed
<1>25. Found'
    <2>1. SUFFICES ASSUME NEW n, Somewhere(n) PROVE Somewhere(n)'
        BY <1>5 DEF MailInv, Found
    <2>2. CASE \E y \in RootSessions : \E i : Standing(n, y, i)
        <3>1. PICK y \in RootSessions : \E i : Standing(n, y, i)
            BY <2>2
        <3>2. PICK i : Filed(n, y, i) /\ Whole(y, i)
            BY <3>1 DEF Standing
        <3>3. CASE y = x /\ i = 1
            <4>1. n = h
                BY <1>6, <3>2, <3>3 DEF Filed
            <4>2. QED
                BY <1>16, <3>2, <3>3, <4>1 DEF Somewhere
        <3>4. CASE ~(y = x /\ i = 1)
            <4>1. Standing(n, y, i)'
                BY <1>14, <1>17, <3>2, <3>4 DEF Standing
            <4>2. QED
                BY <4>1 DEF Somewhere
        <3>5. QED
            BY <3>3, <3>4
    <2>3. QED
        BY <1>5, <1>15, <1>16, <2>1, <2>2 DEF Somewhere
<1>26. QED
    BY <1>12, <1>13, <1>21, <1>22, <1>23, <1>24, <1>25 DEF MailInv

LEMMA RemoveFileKeeps ==
    ASSUME MailAssumption, MailInv, NEW t \in Handlers, RemoveFile(t) PROVE MailInv'
<1>1. PICK x \in RootSessions : x = errand[t].session
    BY DEF RemoveFile, MailInv, Errands, ErrandOK, Moving
<1>2. PlainTypes
    BY TypesApart DEF MailInv
<1>3. PICK box \in Seq(File) : box = mailbox[x]
    BY <1>2 DEF PlainTypes
<1> DEFINE e == At(errand[t], "take")
<1>4. /\ errand[t].pc = "remove" /\ locked = t /\ box # <<>>
      /\ errand[t].root \in Roots /\ errand[t].msg = Nobody
      /\ mailbox' = [mailbox EXCEPT ![x] = Tail(box)]
      /\ UNCHANGED <<running, session, inbox, located, locked, to, told, reads, dropped>>
    BY <1>1, <1>2, <1>3
    DEF RemoveFile, PlainTypes, mailHistory, MailInv, Lock, Holds, AtFile, Errands, ErrandOK, Moving
<1>5. errand' = [errand EXCEPT ![t] = e] /\ errand[t] \in Errand
    BY GoesFacts DEF RemoveFile
<1>6. /\ e \in Errand /\ e.pc = "take" /\ e.msg = Nobody /\ e.session = x
      /\ e.root = errand[t].root /\ e.got = errand[t].got
    BY <1>1, <1>4, <1>5, AtFacts DEF Stops
<1> HIDE DEF e
<1>7. /\ Tail(box) \in Seq(File) /\ Len(Tail(box)) = Len(box) - 1 /\ Len(box) \in Nat \ {0}
      /\ \A i : i \in DOMAIN Tail(box) =>
            i \in Nat \ {0} /\ i + 1 \in DOMAIN box /\ Tail(box)[i] = box[i + 1]
      /\ \A i \in DOMAIN box : i # 1 => i - 1 \in DOMAIN Tail(box) /\ Tail(box)[i - 1] = box[i]
    BY <1>4, TailFacts
<1>8. mailbox'[x] = Tail(box) /\ \A y \in RootSessions : y # x => mailbox'[y] = mailbox[y]
    BY <1>2, <1>4 DEF PlainTypes
<1>9. ErrandOK(e)
    BY <1>4, <1>6 DEF ErrandOK, Sending, Moving
<1>10. RoomFor(e, Len(mailbox'[e.session]))
    <2>0. errand[t].got \in Seq(Messages)
        BY <1>5 DEF Errand
    <2>1. Len(errand[t].got) + Len(box) <= MaxInbox + 1 /\ Len(errand[t].got) <= MaxInbox
        BY <1>1, <1>3, <1>4 DEF MailInv, Room, RoomFor
    <2>2. Len(errand[t].got) + Len(Tail(box)) <= MaxInbox
        BY <1>7, <2>0, <2>1 DEF MailAssumption
    <2>3. QED
        BY <1>6, <1>8, <2>1, <2>2 DEF RoomFor
<1>11. /\ errand' \in [Handlers -> Errand] /\ Errands' /\ errand'[t] = e
       /\ \A u \in Handlers : u # t => errand'[u] = errand[u]
       /\ Lock' /\ Room'
    BY <1>4, <1>5, <1>6, <1>9, <1>10, ErrandChange
<1>12. MailTypeOK'
    <2>1. mailbox' \in [RootSessions -> Seq(File)]
        BY <1>2, <1>4, <1>7 DEF PlainTypes
    <2>2. Len(box) <= MaxInbox
        BY <1>2, <1>3 DEF PlainTypes
    <2>3. Len(mailbox'[x]) <= MaxInbox
        BY <1>7, <1>8, <2>2 DEF MailAssumption
    <2>4. \A y \in RootSessions : Len(mailbox'[y]) <= MaxInbox
        BY <1>2, <1>8, <2>3 DEF PlainTypes
    <2>5. PlainTypes'
        BY <1>2, <1>4, <2>1, <2>4 DEF PlainTypes
    <2>6. QED
        BY <1>11, <2>5, TypesApart
\* The files of x move up by one, but for the first.
<1>13. \A y \in RootSessions : y # x => \A n, i :
          (Filed(n, y, i)' <=> Filed(n, y, i)) /\ (Whole(y, i)' <=> Whole(y, i))
    BY <1>8 DEF Filed, Whole
<1>14. \A n, i : Filed(n, x, i)' => i \in Nat \ {0} /\ Filed(n, x, i + 1)
    BY <1>3, <1>7, <1>8 DEF Filed
<1>15. \A n, i : Filed(n, x, i) /\ Whole(x, i) /\ i # 1 =>
          Filed(n, x, i - 1)' /\ Whole(x, i - 1)'
    BY <1>3, <1>7, <1>8 DEF Filed, Whole
<1>16. \A n : \A u \in Handlers : \A i : Held(n, u, i)' <=> Held(n, u, i)
    BY <1>6, <1>11 DEF Held
<1>17. \A n, q, i : Boxed(n, q, i)' <=> Boxed(n, q, i)
    BY <1>4 DEF Boxed
<1>18. \A u \in Handlers : /\ errand[u].pc # "fill"
                           /\ errand'[u].pc \notin {"fill", "remove"}
                           /\ \A y : ~Removing(u, y)' /\ (Removing(u, y) <=> u = t /\ y = x)
    BY <1>1, <1>4, <1>6, <1>11, Alone DEF Removing
<1>19. \A n : \A u \in Handlers : Carries(u, n)' =>
          Carries(u, n) /\ errand'[u].session = errand[u].session
    BY <1>1, <1>4, <1>6, <1>11 DEF Carries, Sending
<1>20. \A n : \A y \in RootSessions : \A i : Filed(n, y, i)' => \E j : Filed(n, y, j)
    BY <1>13, <1>14
<1>21. Carried'
    BY <1>4, <1>16, <1>17, <1>18, <1>19, <1>20 DEF MailInv, Carried
<1>22. AtFile'
    BY <1>18 DEF AtFile
<1>23. Apart'
    <2>1. \A n \in Messages : \A y, z \in RootSessions : \A i, j :
             Filed(n, y, i)' /\ Filed(n, z, j)' => y = z /\ i = j
        <3>1. SUFFICES ASSUME NEW n \in Messages, NEW y \in RootSessions, NEW z \in RootSessions,
                              NEW i, NEW j, Filed(n, y, i)', Filed(n, z, j)'
                       PROVE  y = z /\ i = j
            OBVIOUS
        <3>2. y = z
            BY <1>20, <3>1 DEF MailInv, Apart
        <3>3. CASE y # x
            BY <1>13, <3>1, <3>2, <3>3 DEF MailInv, Apart
        <3>4. CASE y = x
            <4>1. /\ i \in Nat /\ j \in Nat
                  /\ Filed(n, x, i + 1) /\ Filed(n, x, j + 1)
                BY <1>14, <3>1, <3>2, <3>4
            <4>2. i + 1 = j + 1
                BY <4>1 DEF MailInv, Apart
            <4>3. QED
                BY <3>2, <4>1, <4>2
        <3>5. QED
            BY <3>3, <3>4
    \* Whose file was being removed has none now.
    <2>2. \A n \in Messages : \A y \in RootSessions : \A i : \A u \in Handlers : \A j :
             Filed(n, y, i)' => ~Held(n, u, j)
        <3>1. SUFFICES ASSUME NEW n \in Messages, NEW y \in RootSessions, NEW i,
                              NEW u \in Handlers, NEW j, Filed(n, y, i)', Held(n, u, j)
                       PROVE  FALSE
            OBVIOUS
        <3>2. y = x
            BY <1>18, <1>20, <3>1 DEF MailInv, Apart
        <3>3. i \in Nat \ {0} /\ Filed(n, x, i + 1)
            BY <1>14, <3>1, <3>2
        <3>4. i + 1 = 1
            BY <3>1, <3>3 DEF MailInv, Apart
        <3>5. QED
            BY <3>3, <3>4
    <2>3. QED
        BY <1>4, <1>16, <1>17, <1>18, <1>20, <2>1, <2>2 DEF MailInv, Apart
<1>24. Addressed'
    <2>1. \A u \in Handlers : errand'[u].session = errand[u].session
        BY <1>1, <1>6, <1>11
    <2>2. QED
        BY <1>4, <1>16, <1>17, <1>20, <2>1 DEF MailInv, Addressed
<1>25. Found'
    <2>1. SUFFICES ASSUME NEW n, Somewhere(n) PROVE Somewhere(n)'
        BY <1>4 DEF MailInv, Found
    <2>2. CASE \E y \in RootSessions : \E i : Standing(n, y, i)
        <3>1. PICK y \in RootSessions : \E i : Standing(n, y, i)
            BY <2>2
        <3>2. PICK i : Filed(n, y, i) /\ Whole(y, i) /\ (i = 1 => y # x)
            BY <1>18, <3>1 DEF Standing
        <3>3. \E j : Filed(n, y, j)' /\ Whole(y, j)'
            BY <1>13, <1>15, <3>2
        <3>4. QED
            BY <1>18, <3>3 DEF Somewhere, Standing
    <2>3. QED
        BY <1>4, <1>16, <1>17, <2>1, <2>2 DEF Somewhere
<1>26. QED
    BY <1>11, <1>12, <1>21, <1>22, <1>23, <1>24, <1>25 DEF MailInv

LEMMA RegisterKeeps ==
    ASSUME MailAssumption, MailInv, NEW t \in Handlers, Register(t) PROVE MailInv'
<1>1. PICK r \in Roots, x \in RootSessions : r = errand[t].root /\ x = errand[t].session
    BY DEF Register, MailInv, Errands, ErrandOK, Moving
<1>2. PlainTypes /\ errand[t] \in Errand
    BY TypesApart DEF MailInv
<1>3. PICK got \in Seq(Messages) : got = errand[t].got /\ Len(got) <= MaxInbox
    BY <1>2 DEF Errand, MailInv, Room, RoomFor
<1>4. /\ errand[t].pc = "register" /\ Ends(t)
      /\ session' = [session EXCEPT ![r] = x] /\ inbox' = [inbox EXCEPT ![r] = got]
      /\ dropped' = dropped \cup ToSet(inbox[r]) /\ located' = [located EXCEPT ![x] = r]
      /\ UNCHANGED <<running, mailbox, locked, to, told, reads>>
    BY <1>1, <1>3 DEF Register
<1>5. /\ inbox'[r] = got /\ \A q \in Roots : q # r => inbox'[q] = inbox[q]
      /\ inbox' \in [Roots -> Seq(Messages)]
    BY <1>2, <1>4 DEF PlainTypes
<1>6. /\ session'[r] = x /\ \A q \in Roots : q # r => session'[q] = session[q]
      /\ session' \in [Roots -> RootSessions \cup {Nobody}]
    BY <1>2, <1>4 DEF PlainTypes
<1>7. /\ errand' \in [Handlers -> Errand] /\ Errands' /\ errand'[t] = NoErrand
      /\ \A u \in Handlers : u # t => errand'[u] = errand[u]
      /\ Lock' /\ Room'
    BY <1>4, EndsChange
<1>8. MailTypeOK'
    <2>1. ToSet(inbox[r]) \subseteq Messages
        BY <1>2 DEF PlainTypes, ToSet
    <2>2. \A q \in Roots : Len(inbox'[q]) <= MaxInbox
        BY <1>2, <1>3, <1>5 DEF PlainTypes
    <2>3. located' \in [RootSessions -> Roots \cup {Nobody}]
        BY <1>2, <1>4 DEF PlainTypes
    <2>4. PlainTypes'
        BY <1>2, <1>4, <1>5, <1>6, <2>1, <2>2, <2>3 DEF PlainTypes
    <2>5. QED
        BY <1>7, <2>4, TypesApart
<1>9. \A n, y, i : (Filed(n, y, i)' <=> Filed(n, y, i)) /\ (Whole(y, i)' <=> Whole(y, i))
    BY <1>4 DEF Filed, Whole
\* What was in hand is in the inbox, and what was in the inbox is nowhere.
<1>10. \A n : \A u \in Handlers : \A i : Held(n, u, i)' <=> u # t /\ Held(n, u, i)
    BY <1>7, EndsFacts DEF Held
<1>11. \A n : \A q \in Roots : \A i : Boxed(n, q, i)' <=>
          IF q = r THEN Held(n, t, i) ELSE Boxed(n, q, i)
    BY <1>3, <1>5 DEF Boxed, Held
<1>12. \A u \in Handlers : \A y : /\ Removing(u, y)' <=> Removing(u, y)
                                  /\ ~Removing(t, y)
    BY <1>4, <1>7, EndsFacts DEF Removing
<1>13. \A n : \A u \in Handlers : Carries(u, n)' => u # t /\ Carries(u, n)
    BY <1>7, EndsFacts DEF Carries, Sending
<1>14. Carried'
    BY <1>4, <1>7, <1>9, <1>10, <1>11, <1>13 DEF MailInv, Carried
<1>15. AtFile'
    BY <1>4, <1>7, <1>9, EndsFacts DEF MailInv, AtFile
<1>16. Apart'
    <2>1. \A n \in Messages : \A p, q \in Roots : \A i, j :
             Boxed(n, p, i)' /\ Boxed(n, q, j)' => p = q /\ i = j
        BY <1>11 DEF MailInv, Apart
    <2>2. \A n \in Messages : \A p \in Roots : \A i : Boxed(n, p, i)' =>
             reads[n] = 0 /\ \A u \in Handlers : \A j : u # t => ~Held(n, u, j)
        BY <1>11 DEF MailInv, Apart
    <2>3. \A n \in Messages : \A y \in RootSessions : \A i : Filed(n, y, i) =>
             \A p \in Roots : \A j : ~Boxed(n, p, j)'
        BY <1>11, <1>12 DEF MailInv, Apart
    <2>4. QED
        BY <1>4, <1>9, <1>10, <1>12, <2>1, <2>2, <2>3 DEF MailInv, Apart
<1>17. Addressed'
    BY <1>1, <1>4, <1>6, <1>7, <1>9, <1>10, <1>11 DEF MailInv, Addressed
<1>18. Found'
    <2>1. SUFFICES ASSUME NEW n, Somewhere(n), n \notin ToSet(inbox[r]) PROVE Somewhere(n)'
        BY <1>4 DEF MailInv, Found
    <2>2. \A i : ~Boxed(n, r, i)
        BY <2>1, InBox
    <2>3. CASE \E y \in RootSessions : \E i : Standing(n, y, i)
        BY <1>9, <1>12, <2>3 DEF Somewhere, Standing
    <2>4. CASE \E u \in Handlers : \E i : Held(n, u, i)
        BY <1>10, <1>11, <2>4 DEF Somewhere
    <2>5. CASE \E q \in Roots : \E i : Boxed(n, q, i)
        BY <1>11, <2>2, <2>5 DEF Somewhere
    <2>6. CASE reads[n] # 0
        BY <1>4, <2>6 DEF Somewhere
    <2>7. QED
        BY <2>1, <2>3, <2>4, <2>5, <2>6 DEF Somewhere
<1>19. QED
    BY <1>7, <1>8, <1>14, <1>15, <1>16, <1>17, <1>18 DEF MailInv

-----------------------------------------------------------------------------
(* The theorems *)

LEMMA MailInitInv == MailAssumption /\ MailInit => MailInv
<1> SUFFICES ASSUME MailAssumption, MailInit PROVE MailInv
    OBVIOUS
<1>1. /\ errand = [t \in Handlers |-> NoErrand] /\ locked = Nobody /\ running = {}
      /\ inbox = [r \in Roots |-> <<>>] /\ session = [r \in Roots |-> Nobody]
      /\ located = [x \in RootSessions |-> Nobody] /\ mailbox = [x \in RootSessions |-> <<>>]
      /\ to = [m \in Messages |-> Nobody] /\ told = {} /\ dropped = {}
      /\ reads = [m \in Messages |-> 0]
    BY DEF MailInit
<1>2. /\ \A r \in Roots : inbox[r] = <<>>
      /\ \A x \in RootSessions : mailbox[x] = <<>>
      /\ \A t \in Handlers : errand[t] = NoErrand
    BY <1>1
<1>3. <<>> \in Seq(Messages) /\ <<>> \in Seq(File) /\ Len(<<>>) <= MaxInbox
    BY EmptySeq, EmptyFits
<1>4. MailTypeOK
    <2>1. PlainTypes
        BY <1>1, <1>2, <1>3 DEF PlainTypes
    <2>2. errand \in [Handlers -> Errand]
        BY <1>1, EndsFacts
    <2>3. QED
        BY <2>1, <2>2, TypesApart
<1>5. Errands
    BY <1>2, EndsFacts DEF Errands
<1>6. Lock /\ Room
    BY <1>2, EndsFacts, EmptyFits DEF Lock, Room, Holds, RoomFor
<1>7. /\ \A n, i : \A x \in RootSessions : ~Filed(n, x, i)
      /\ \A n, i : \A r \in Roots : ~Boxed(n, r, i)
      /\ \A n, i : \A t \in Handlers : ~Held(n, t, i)
    <2>1. DOMAIN <<>> = {}
        OBVIOUS
    <2>2. QED
        BY <1>2, <2>1, EndsFacts DEF Filed, Boxed, Held
<1>8. \A t \in Handlers : \A m : ~Carries(t, m)
    BY <1>2, EndsFacts DEF Carries, Sending
<1>9. Carried /\ AtFile
    BY <1>2, <1>8, EndsFacts DEF Carried, AtFile
<1>10. Apart /\ Addressed /\ Found
    BY <1>1, <1>7 DEF Apart, Addressed, Found
<1>11. QED
    BY <1>4, <1>5, <1>6, <1>9, <1>10 DEF MailInv

LEMMA MailStepInv == MailAssumption /\ MailInv /\ [MailNext]_mailVars => MailInv'
<1> SUFFICES ASSUME MailAssumption, MailInv, [MailNext]_mailVars PROVE MailInv'
    OBVIOUS
<1>1. CASE UNCHANGED mailVars
    <2>1. UNCHANGED <<running, session, inbox, located, mailbox, locked, errand,
                      to, told, reads, dropped>>
        BY <1>1 DEF mailVars, mailHistory
    <2>2. MailTypeOK' /\ Errands' /\ Lock' /\ Room'
        BY <2>1 DEF MailInv, MailTypeOK, Errands, ErrandOK, Lock, Holds, Room, RoomFor
    <2>3. Rests
        BY <2>1 DEF Rests
    <2>4. QED
        BY <2>1, <2>2, <2>3, RestsKeeps DEF MailInv
<1>2. CASE \E r \in Roots : StartRoot(r) \/ StopRoot(r) \/ Read(r)
    BY <1>2, StartRootKeeps, StopRootKeeps, ReadKeeps
<1>3. CASE Crash
    BY <1>3, CrashKeeps
<1>4. CASE \E x \in RootSessions : Evict(x)
    BY <1>4, EvictKeeps
<1>5. ASSUME NEW t \in Handlers, NEW r \in Roots, NEW x \in RootSessions,
             Reset(t, r, x) \/ \E m \in Messages : Send(t, r, m, x)
      PROVE  MailInv'
    BY <1>5, ResetKeeps, SendKeeps
<1>6. ASSUME NEW t \in Handlers,
             Locate(t) \/ Remote(t) \/ MakeRoom(t) \/ Create(t) \/ Fill(t)
      PROVE  MailInv'
    BY <1>6, LocateKeeps, RemoteKeeps, MakeRoomKeeps, CreateKeeps, FillKeeps
<1>7. ASSUME NEW t \in Handlers,
             ReadFile(t) \/ RemoveFile(t) \/ AllTaken(t) \/ Unregister(t) \/ Register(t)
      PROVE  MailInv'
    BY <1>7, ReadFileKeeps, RemoveFileKeeps, AllTakenKeeps, UnregisterKeeps, RegisterKeeps
<1>8. QED
    BY <1>1, <1>2, <1>3, <1>4, <1>5, <1>6, <1>7 DEF MailNext

\* MAILBOX_LOCK is held wherever a file is half written or half taken over, there is room for
\* what a thread is about to add, a message that is being sent is with its sender only, and
\* otherwise in one place, for the session it was sent to, until it is read or thrown away.
THEOREM MailInvariant == ASSUME MailAssumption PROVE MailSpec => []MailInv
<1>1. MailInit => MailInv
    BY MailInitInv
<1>2. MailInv /\ [MailNext]_mailVars => MailInv'
    BY MailStepInv
<1>3. QED
    BY <1>1, <1>2, PTL DEF MailSpec

\* No inbox and no mailbox ever outgrows MAX_INBOX_MESSAGES, whoever fills it: senders, the file
\* queue, or a reset that takes the queue over.
THEOREM MailTypes == ASSUME MailAssumption PROVE MailSpec => []MailTypeOK
<1>1. MailInv => MailTypeOK
    BY DEF MailInv
<1>2. QED
    BY <1>1, MailInvariant, PTL

LEMMA PlacesOf ==
    ASSUME NEW m, NEW p
    PROVE  p \in Places(m) <=>
             \/ \E x \in RootSessions : \E i : /\ p = <<"file", x, i>> /\ i \in DOMAIN mailbox[x]
                                               /\ mailbox[x][i] = [msg |-> m, whole |-> TRUE]
                                               /\ ~BeingRemoved(x, i)
             \/ \E t \in Handlers : \E i : p = <<"hands", t, i>> /\ Held(m, t, i)
             \/ \E r \in Roots : \E i : p = <<"inbox", r, i>> /\ Boxed(m, r, i)
             \/ \E n \in 1 .. reads[m] : p = <<"read", n, n>>
<1> DEFINE files(x) == {j \in DOMAIN mailbox[x] :
                            mailbox[x][j] = [msg |-> m, whole |-> TRUE] /\ ~BeingRemoved(x, j)}
           F == UNION {{<<"file", x, i>> : i \in files(x)} : x \in RootSessions}
           H == UNION {{<<"hands", t, i>> : i \in {j \in DOMAIN errand[t].got : errand[t].got[j] = m}} :
                       t \in Handlers}
           B == UNION {{<<"inbox", r, i>> : i \in {j \in DOMAIN inbox[r] : inbox[r][j] = m}} :
                       r \in Roots}
           R == {<<"read", n, n>> : n \in 1 .. reads[m]}
<1>1. p \in Places(m) <=> p \in F \/ p \in H \/ p \in B \/ p \in R
    <2>1. Places(m) = F \cup H \cup B \cup R
        BY DEF Places
    <2> HIDE DEF F, H, B, R
    <2>2. QED
        BY <2>1
<1>2. p \in F <=> \E x \in RootSessions : \E i : p = <<"file", x, i>> /\ i \in files(x)
    <2> HIDE DEF files
    <2>1. QED
        OBVIOUS
<1>3. p \in H <=> \E t \in Handlers : \E i : p = <<"hands", t, i>> /\ Held(m, t, i)
    BY DEF Held
<1>4. p \in B <=> \E r \in Roots : \E i : p = <<"inbox", r, i>> /\ Boxed(m, r, i)
    BY DEF Boxed
<1>5. p \in R <=> \E n \in 1 .. reads[m] : p = <<"read", n, n>>
    OBVIOUS
<1>6. \A x, i : i \in files(x) <=> /\ i \in DOMAIN mailbox[x]
                                  /\ mailbox[x][i] = [msg |-> m, whole |-> TRUE]
                                  /\ ~BeingRemoved(x, i)
    OBVIOUS
<1> HIDE DEF files, F, H, B, R
<1>7. QED
    BY <1>1, <1>2, <1>3, <1>4, <1>5, <1>6, Zenon

LEMMA FilePlace ==
    ASSUME MailTypeOK, NEW m \in Messages, NEW x \in RootSessions, NEW i
    PROVE  /\ i \in DOMAIN mailbox[x] /\ mailbox[x][i] = [msg |-> m, whole |-> TRUE]
           /\ ~BeingRemoved(x, i)
           <=> Standing(m, x, i)
<1>1. i \in DOMAIN mailbox[x] => mailbox[x][i] \in File
    <2>1. mailbox[x] \in Seq(File)
        BY DEF MailTypeOK, File
    <2>2. QED
        BY <2>1
<1>2. \A f \in File : f = [msg |-> m, whole |-> TRUE] <=> f.msg = m /\ f.whole
    BY DEF File
<1>3. QED
    BY <1>1, <1>2 DEF Standing, Filed, Whole, BeingRemoved, Removing

LEMMA OnePlace ==
    ASSUME MailInv, NEW m \in Messages
    PROVE  /\ \A p, q \in Places(m) : p = q
           /\ Somewhere(m) => Places(m) # {}
<1>0. MailTypeOK /\ reads[m] \in {0, 1}
    BY DEF MailInv, Apart
<1> DEFINE InFile(p) == \E x \in RootSessions : \E i : p = <<"file", x, i>> /\ Standing(m, x, i)
           InHand(p) == \E t \in Handlers : \E i : p = <<"hands", t, i>> /\ Held(m, t, i)
           InInbox(p) == \E r \in Roots : \E i : p = <<"inbox", r, i>> /\ Boxed(m, r, i)
           IsRead(p) == reads[m] = 1 /\ p = <<"read", 1, 1>>
<1>1. \A p : p \in Places(m) <=> InFile(p) \/ InHand(p) \/ InInbox(p) \/ IsRead(p)
    <2>1. \A n : n \in 1 .. reads[m] <=> reads[m] = 1 /\ n = 1
        BY <1>0
    <2>2. \A x \in RootSessions : \A i :
             /\ i \in DOMAIN mailbox[x] /\ mailbox[x][i] = [msg |-> m, whole |-> TRUE]
             /\ ~BeingRemoved(x, i)
             <=> Standing(m, x, i)
        BY <1>0, FilePlace
    <2>3. \A p : (\E n \in 1 .. reads[m] : p = <<"read", n, n>>) <=> IsRead(p)
        BY <2>1
    <2> HIDE DEF IsRead
    <2>4. QED
        BY <2>2, <2>3, PlacesOf, Zenon
<1>2. \A x \in RootSessions : \A i : Standing(m, x, i) =>
         /\ Filed(m, x, i) /\ reads[m] = 0
         /\ \A t \in Handlers : \A j : ~Held(m, t, j)
         /\ \A r \in Roots : \A j : ~Boxed(m, r, j)
    BY DEF MailInv, Apart, Standing
<1>3. \A t \in Handlers : \A i : Held(m, t, i) =>
         reads[m] = 0 /\ \A r \in Roots : \A j : ~Boxed(m, r, j)
    BY DEF MailInv, Apart
<1>4. \A r \in Roots : \A i : Boxed(m, r, i) => reads[m] = 0
    BY DEF MailInv, Apart
<1>5. \A p, q : InFile(p) /\ InFile(q) => p = q
    BY <1>2 DEF MailInv, Apart
<1>6. \A p, q : InHand(p) /\ InHand(q) => p = q
    BY DEF MailInv, Apart
<1>7. \A p, q : InInbox(p) /\ InInbox(q) => p = q
    BY DEF MailInv, Apart
<1>8. \A p, q : InFile(p) => ~InHand(q) /\ ~InInbox(q) /\ ~IsRead(q)
    BY <1>2
<1>9. \A p, q : InHand(p) => ~InInbox(q) /\ ~IsRead(q)
    BY <1>3
<1>10. \A p, q : InInbox(p) => ~IsRead(q)
    BY <1>4
<1>11. Somewhere(m) => \E p : InFile(p) \/ InHand(p) \/ InInbox(p) \/ IsRead(p)
    BY <1>0 DEF Somewhere
<1>12. \A p, q : IsRead(p) /\ IsRead(q) => p = q
    OBVIOUS
<1> HIDE DEF InFile, InHand, InInbox, IsRead
<1>13. QED
    BY <1>1, <1>5, <1>6, <1>7, <1>8, <1>9, <1>10, <1>11, <1>12

\* A message between roots is never in two places or handed over twice: not while its file is
\* read and removed, not across a crash in between, nor when two roots claim one session.  One
\* whose sender was told "delivered" is somewhere until a full box, a reset or a crash throws it
\* away, and an inbox holds messages for the session its root is on, however stale the location
\* the sender found.
THEOREM MailEachInOnePlace == ASSUME MailAssumption PROVE MailSpec => []EachInOnePlace
<1>1. MailInv => EachInOnePlace
    <2>1. SUFFICES ASSUME MailInv, NEW m \in Messages
          PROVE  /\ Cardinality(Places(m)) <= 1
                 /\ m \in told \ dropped => Places(m) # {}
                 /\ \A r \in Roots : m \in ToSet(inbox[r]) => session[r] = to[m]
        BY DEF EachInOnePlace
    <2>2. Cardinality(Places(m)) <= 1
        <3>1. Places(m) = {} \/ \E p : Places(m) = {p}
            BY <2>1, OnePlace
        <3>2. QED
            BY <3>1, FS_EmptySet, FS_Singleton
    <2>3. m \in told \ dropped => Places(m) # {}
        BY <2>1, OnePlace DEF MailInv, Found
    <2>4. \A r \in Roots : m \in ToSet(inbox[r]) => session[r] = to[m]
        BY <2>1, InBox DEF MailInv, Addressed
    <2>5. QED
        BY <2>2, <2>3, <2>4
<1>2. QED
    BY <1>1, MailInvariant, PTL
=============================================================================
