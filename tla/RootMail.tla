------------------------------ MODULE RootMail ------------------------------
(***************************************************************************)
(* Messages between level-0 sessions: send_message with the session id of  *)
(* another root, read_messages and reset_team in lib.rs of                 *)
(* pi-whim-agent-team, with the catalog of active sessions and the mailbox *)
(* files of catalog.rs.                                                    *)
(*                                                                         *)
(* A root registers the session it is on in the catalog.  Another root     *)
(* finds it there and puts a message into its inbox, under the mutex of    *)
(* the other team; when it finds nobody, it leaves the message in a file,  *)
(* which the root that resumes the session takes over before it registers. *)
(* MAILBOX_LOCK covers the files, each team's mutex its root, and a third  *)
(* mutex the catalog.  The application may crash at any step; the files    *)
(* survive.  The recipient is a session Pi has a file of.                  *)
(***************************************************************************)
EXTENDS Naturals, Sequences, FiniteSets, SequencesExt

CONSTANTS
    Roots,          \* supervisors
    RootSessions,   \* level-0 sessions with a file
    Recipients,     \* those of them messages are sent to: a bound, for they are all alike
    Messages,       \* fresh messages: a bound on how many are sent
    Handlers,       \* request threads
    MaxInbox,       \* MAX_INBOX_MESSAGES
    Nobody

MailAssumption ==
    /\ Nobody \notin Roots \cup RootSessions \cup Messages \cup Handlers
    /\ Recipients \subseteq RootSessions
    /\ MaxInbox \in Nat \ {0}

VARIABLES
    running,    \* the supervisors that accept calls
    session,    \* session[r]: the session its root is on; Nobody, one without a file
    inbox,      \* inbox[r]: of its root
    located,    \* located[x]: CatalogState::active
    mailbox,    \* mailbox[x]: the files of session x, the oldest first
    locked,     \* the thread that holds MAILBOX_LOCK
    errand,     \* errand[t]: what the thread does
    to,         \* history: to[m]: the session m was sent to
    told,       \* history: the messages whose send has answered "delivered"
    reads,      \* history: reads[m]: how often m was handed to a session
    dropped     \* history: those a full box, a reset or a crash has thrown away

mailHistory == <<to, told, reads, dropped>>
mailVars == <<running, session, inbox, located, mailbox, locked, errand, mailHistory>>

NoErrand ==
    [pc |-> "idle", root |-> Nobody, msg |-> Nobody, session |-> Nobody, at |-> Nobody,
     got |-> <<>>]
Goes(t, pc) == errand' = [errand EXCEPT ![t].pc = pc]
Ends(t) == errand' = [errand EXCEPT ![t] = NoErrand]

MailInit ==
    /\ running = {}
    /\ session = [r \in Roots |-> Nobody]
    /\ inbox = [r \in Roots |-> <<>>]
    /\ located = [x \in RootSessions |-> Nobody]
    /\ mailbox = [x \in RootSessions |-> <<>>]
    /\ locked = Nobody
    /\ errand = [t \in Handlers |-> NoErrand]
    /\ to = [m \in Messages |-> Nobody]
    /\ told = {}
    /\ reads = [m \in Messages |-> 0]
    /\ dropped = {}

\* The mutex of r's team is free: reset_team holds it while it changes the catalog.
TeamFree(r) == \A t \in Handlers : ~(errand[t].pc = "register" /\ errand[t].root = r)

\* Making room in a full box: what is left of it, and what goes.
Kept(box) == IF Len(box) < MaxInbox THEN box ELSE SubSeq(box, Len(box) - MaxInbox + 2, Len(box))
Thrown(box) == ToSet(box) \ ToSet(Kept(box))

-----------------------------------------------------------------------------
(* Supervisors start, stop and crash *)

\* A supervisor is a new one: nobody knows the one that had its name here before.
StartRoot(r) ==
    /\ r \notin running
    /\ \A t \in Handlers : r \notin {errand[t].root, errand[t].at}
    /\ \A x \in RootSessions : located[x] # r
    /\ running' = running \cup {r}
    /\ session' = [session EXCEPT ![r] = Nobody]
    /\ inbox' = [inbox EXCEPT ![r] = <<>>]
    /\ dropped' = dropped \cup ToSet(inbox[r])
    /\ UNCHANGED <<located, mailbox, locked, errand, to, told, reads>>

\* unregister_active asks nobody whose the entry is.
Unregistered(x) == IF x = Nobody THEN located ELSE [located EXCEPT ![x] = Nobody]

\* AgentSupervisor::stop; calls already accepted go on.
StopRoot(r) ==
    /\ r \in running
    /\ TeamFree(r)
    /\ running' = running \ {r}
    /\ located' = Unregistered(session[r])
    /\ UNCHANGED <<session, inbox, mailbox, locked, errand, mailHistory>>

OnDisk(m) == \E x \in RootSessions : \E i \in DOMAIN mailbox[x] : mailbox[x][i].msg = m
InMemory == UNION ({ToSet(inbox[r]) : r \in Roots} \cup {ToSet(errand[t].got) : t \in Handlers})

Crash ==
    /\ running # {}
    /\ running' = {}
    /\ session' = [r \in Roots |-> Nobody]
    /\ inbox' = [r \in Roots |-> <<>>]
    /\ located' = [x \in RootSessions |-> Nobody]
    /\ locked' = Nobody
    /\ errand' = [t \in Handlers |-> NoErrand]
    /\ dropped' = dropped \cup {m \in InMemory : ~OnDisk(m)}
    /\ UNCHANGED <<mailbox, to, told, reads>>

\* Sessions published by others push x out of the catalog, its active entry with it.
Evict(x) ==
    /\ located[x] # Nobody
    /\ located' = [located EXCEPT ![x] = Nobody]
    /\ UNCHANGED <<running, session, inbox, mailbox, locked, errand, mailHistory>>

-----------------------------------------------------------------------------
(* send_message to another root *)

Send(t, r, m, x) ==
    /\ errand[t] = NoErrand
    /\ r \in running
    /\ x \in Recipients
    /\ to[m] = Nobody
    /\ session[r] # x
    /\ to' = [to EXCEPT ![m] = x]
    /\ errand' = [errand EXCEPT ![t] =
                  [NoErrand EXCEPT !.pc = "locate", !.root = r, !.msg = m, !.session = x]]
    /\ UNCHANGED <<running, session, inbox, located, mailbox, locked, told, reads, dropped>>

Locate(t) ==
    LET at == located[errand[t].session] IN
    /\ errand[t].pc = "locate"
    /\ errand' = [errand EXCEPT ![t].pc = IF at = Nobody THEN "queue" ELSE "remote", ![t].at = at]
    /\ UNCHANGED <<running, session, inbox, located, mailbox, locked, mailHistory>>

Deliver(t, q) ==
    /\ inbox' = [inbox EXCEPT ![q] = Append(Kept(@), errand[t].msg)]
    /\ dropped' = dropped \cup Thrown(inbox[q])
    /\ told' = told \cup {errand[t].msg}

\* Mutant: the root that was found gets the message, whatever session it is on by now.
RemoteAnywhere(t) ==
    LET q == errand[t].at IN
    /\ errand[t].pc = "remote"
    /\ TeamFree(q)
    /\ \/ Deliver(t, q)
       \/ q \notin running /\ UNCHANGED <<inbox, dropped, told>>
    /\ Ends(t)
    /\ UNCHANGED <<running, session, located, mailbox, locked, to, reads>>

\* send_remote_message: the location may be stale.  What is left of a supervisor that has
\* stopped may still be there.
Remote(t) ==
    LET q == errand[t].at IN
    /\ errand[t].pc = "remote"
    /\ TeamFree(q)
    /\ \/ session[q] = errand[t].session /\ Deliver(t, q)
       \/ (session[q] # errand[t].session \/ q \notin running) /\ UNCHANGED <<inbox, dropped, told>>
    /\ Ends(t)
    /\ UNCHANGED <<running, session, located, mailbox, locked, to, reads>>

\* enqueue_root_message: the oldest files make room,
MakeRoom(t) ==
    LET x == errand[t].session
        old == {mailbox[x][i].msg : i \in 1 .. (Len(mailbox[x]) - Len(Kept(mailbox[x])))} IN
    /\ errand[t].pc = "queue"
    /\ locked = Nobody
    /\ locked' = t
    /\ mailbox' = [mailbox EXCEPT ![x] = Kept(@)]
    /\ dropped' = dropped \cup old
    /\ Goes(t, "create")
    /\ UNCHANGED <<running, session, inbox, located, to, told, reads>>

\* the new one is created,
Create(t) ==
    /\ errand[t].pc = "create"
    /\ mailbox' = [mailbox EXCEPT ![errand[t].session] =
                     Append(@, [msg |-> errand[t].msg, whole |-> FALSE])]
    /\ Goes(t, "fill")
    /\ UNCHANGED <<running, session, inbox, located, locked, mailHistory>>

\* and written.
Fill(t) ==
    LET x == errand[t].session IN
    /\ errand[t].pc = "fill"
    /\ mailbox' = [mailbox EXCEPT ![x][Len(mailbox[x])].whole = TRUE]
    /\ locked' = Nobody
    /\ told' = told \cup {errand[t].msg}
    /\ Ends(t)
    /\ UNCHANGED <<running, session, inbox, located, to, reads, dropped>>

-----------------------------------------------------------------------------
(* reset_team: the root goes to session x *)

Reset(t, r, x) ==
    /\ errand[t] = NoErrand
    /\ r \in running
    /\ errand' = [errand EXCEPT ![t] = [NoErrand EXCEPT !.pc = "take", !.root = r, !.session = x]]
    /\ UNCHANGED <<running, session, inbox, located, mailbox, locked, mailHistory>>

\* take_root_messages, file by file: claimed and read,
ReadFile(t) ==
    LET x == errand[t].session IN
    /\ errand[t].pc = "take"
    /\ locked \in {Nobody, t}
    /\ mailbox[x] # <<>>
    /\ locked' = t
    /\ errand' = [errand EXCEPT ![t].pc = "remove",
                  ![t].got = IF Head(mailbox[x]).whole THEN Append(@, Head(mailbox[x]).msg) ELSE @]
    /\ UNCHANGED <<running, session, inbox, located, mailbox, mailHistory>>

\* then removed, whether it could be read or not; a claimed file is one of the mailbox's.
RemoveFile(t) ==
    /\ errand[t].pc = "remove"
    /\ mailbox' = [mailbox EXCEPT ![errand[t].session] = Tail(@)]
    /\ Goes(t, "take")
    /\ UNCHANGED <<running, session, inbox, located, locked, mailHistory>>

AllTaken(t) ==
    /\ errand[t].pc = "take"
    /\ locked \in {Nobody, t}
    /\ mailbox[errand[t].session] = <<>>
    /\ locked' = Nobody
    /\ Goes(t, "unregister")
    /\ UNCHANGED <<running, session, inbox, located, mailbox, mailHistory>>

\* The old session leaves the catalog and the new one enters it under the team's mutex.
Unregister(t) ==
    /\ errand[t].pc = "unregister"
    /\ TeamFree(errand[t].root)
    /\ located' = Unregistered(session[errand[t].root])
    /\ Goes(t, "register")
    /\ UNCHANGED <<running, session, inbox, mailbox, locked, mailHistory>>

Register(t) ==
    LET r == errand[t].root  x == errand[t].session IN
    /\ errand[t].pc = "register"
    /\ session' = [session EXCEPT ![r] = x]
    /\ inbox' = [inbox EXCEPT ![r] = errand[t].got]
    /\ dropped' = dropped \cup ToSet(inbox[r])
    /\ located' = [located EXCEPT ![x] = r]
    /\ Ends(t)
    /\ UNCHANGED <<running, mailbox, locked, to, told, reads>>

\* read_messages and take_peer_messages: a root's inbox goes to its session.
Read(r) ==
    /\ r \in running
    /\ TeamFree(r)
    /\ inbox[r] # <<>>
    /\ inbox' = [inbox EXCEPT ![r] = <<>>]
    /\ reads' = [m \in Messages |-> reads[m] + IF m \in ToSet(inbox[r]) THEN 1 ELSE 0]
    /\ UNCHANGED <<running, session, located, mailbox, locked, errand, to, told, dropped>>

-----------------------------------------------------------------------------
MailNext ==
    \/ \E r \in Roots : StartRoot(r) \/ StopRoot(r) \/ Read(r)
    \/ Crash
    \/ \E x \in RootSessions : Evict(x)
    \/ \E t \in Handlers :
        \/ \E r \in Roots, x \in RootSessions :
            Reset(t, r, x) \/ \E m \in Messages : Send(t, r, m, x)
        \/ Locate(t) \/ Remote(t) \/ MakeRoom(t) \/ Create(t) \/ Fill(t)
        \/ ReadFile(t) \/ RemoveFile(t) \/ AllTaken(t) \/ Unregister(t) \/ Register(t)

MailSpec == MailInit /\ [][MailNext]_mailVars

-----------------------------------------------------------------------------
Stops == {"idle", "locate", "remote", "queue", "create", "fill", "take", "remove", "unregister",
        "register"}

MailTypeOK ==
    /\ running \subseteq Roots
    /\ session \in [Roots -> RootSessions \cup {Nobody}]
    /\ inbox \in [Roots -> Seq(Messages)]
    /\ located \in [RootSessions -> Roots \cup {Nobody}]
    /\ mailbox \in [RootSessions -> Seq([msg : Messages, whole : BOOLEAN])]
    /\ \A r \in Roots : Len(inbox[r]) <= MaxInbox
    /\ \A x \in RootSessions : Len(mailbox[x]) <= MaxInbox
    /\ locked \in Handlers \cup {Nobody}
    /\ errand \in [Handlers -> [pc : Stops, root : Roots \cup {Nobody},
                                msg : Messages \cup {Nobody},
                                session : RootSessions \cup {Nobody},
                                at : Roots \cup {Nobody}, got : Seq(Messages)]]
    /\ to \in [Messages -> RootSessions \cup {Nobody}]
    /\ told \subseteq Messages /\ dropped \subseteq Messages
    /\ reads \in [Messages -> Nat]

\* Where m is: a whole file that is not being removed, the hands of a reset, an inbox, or a
\* session that has read it.
BeingRemoved(x, i) == i = 1 /\ \E t \in Handlers : errand[t].pc = "remove" /\ errand[t].session = x
Places(m) ==
    (UNION {{<<"file", x, i>> : i \in {j \in DOMAIN mailbox[x] :
                mailbox[x][j] = [msg |-> m, whole |-> TRUE] /\ ~BeingRemoved(x, j)}} :
            x \in RootSessions})
    \cup (UNION {{<<"hands", t, i>> : i \in {j \in DOMAIN errand[t].got : errand[t].got[j] = m}} :
                 t \in Handlers})
    \cup (UNION {{<<"inbox", r, i>> : i \in {j \in DOMAIN inbox[r] : inbox[r][j] = m}} : r \in Roots})
    \cup {<<"read", n, n>> : n \in 1 .. reads[m]}

\* A message is never in two places or read twice, crashes between reading and removing its
\* file included; one whose sender was told "delivered" is somewhere, unless a full box, a reset
\* or a crash has thrown it away; and an inbox holds messages for the session its root is on
\* now, however stale the location its sender found.
EachInOnePlace ==
    \A m \in Messages :
        /\ Cardinality(Places(m)) <= 1
        /\ m \in told \ dropped => Places(m) # {}
        /\ \A r \in Roots : m \in ToSet(inbox[r]) => session[r] = to[m]
=============================================================================
