------------------------------ MODULE FileLane ------------------------------
(***************************************************************************)
(* The per-file lanes of the Rust file coordinator                         *)
(* (pi-whim-agent-team/src/file_dispatch.rs).  A lane is one mutex and one *)
(* condition variable: readers share it, a writer has it alone, and        *)
(* writers take a ticket and are served in ticket order ahead of every     *)
(* reader that is not yet inside.                                          *)
(*                                                                         *)
(* A thread is one request thread of a supervisor.  Taking the mutex,      *)
(* testing the loop condition and either going on or falling asleep is one *)
(* critical section of the code and one action here; what wakes a sleeper  *)
(* is only the notify_all of another thread (or a spurious wakeup).        *)
(***************************************************************************)
EXTENDS Naturals, Sequences, FiniteSets

CONSTANTS
    Threads,        \* request threads that may call the coordinator
    Paths,          \* canonical paths of files
    TicketModulus   \* the range of next_ticket: 2^64 in the code (wrapping_add)

ASSUME LaneAssumption ==
    /\ IsFiniteSet(Threads)
    /\ TicketModulus \in Nat \ {0}

VARIABLES
    lane,      \* lane[p]: the LaneState of path p
    phase,     \* phase[t]: where t is in the permit protocol
    lanePath,  \* lanePath[t]: the path whose lane t uses or used last
    ticket,    \* ticket[t]: the ticket of t's last acquire_write
    parked     \* threads asleep in condition.wait

laneVars == <<lane, phase, lanePath, ticket, parked>>

Tickets == 0 .. TicketModulus - 1
Phases == {"idle", "wantRead", "reading", "wantWrite", "writing"}

LaneState == [activeReaders : Nat, activeWriter : BOOLEAN,
              nextTicket : Tickets, writers : Seq(Tickets)]

EmptyLane == [activeReaders |-> 0, activeWriter |-> FALSE,
              nextTicket |-> 0, writers |-> <<>>]

\* Threads that hold a permit of path p, or wait for one.
Users(p, ph) == {t \in Threads : phase[t] = ph /\ lanePath[t] = p}

Waiting(t) == phase[t] \in {"wantRead", "wantWrite"}

\* Mutants of ReadAdmits and WriteAdmits: a reader that does not see the active writer, one
\* that does not queue behind waiting writers, a writer that sees only the ticket queue.
ReadAdmitsDuringWrite(p) == lane[p].writers = <<>>
ReadAdmitsAhead(p) == ~lane[p].activeWriter
WriteAdmitsAlways(p, k) == lane[p].writers # <<>> /\ Head(lane[p].writers) = k

\* The condition that ends the wait loop of acquire_read and acquire_write.
ReadAdmits(p) == ~lane[p].activeWriter /\ lane[p].writers = <<>>

WriteAdmits(p, k) ==
    /\ ~lane[p].activeWriter
    /\ lane[p].activeReaders = 0
    /\ lane[p].writers # <<>>
    /\ Head(lane[p].writers) = k

Admits(t) == IF phase[t] = "wantRead" THEN ReadAdmits(lanePath[t])
                                      ELSE WriteAdmits(lanePath[t], ticket[t])

\* condition.notify_all() of path p's lane.
Woken(p) == {t \in parked : lanePath[t] # p}

LaneInit ==
    /\ lane = [p \in Paths |-> EmptyLane]
    /\ phase = [t \in Threads |-> "idle"]
    /\ lanePath \in [Threads -> Paths]
    /\ ticket = [t \in Threads |-> 0]
    /\ parked = {}

-----------------------------------------------------------------------------
(* acquire_read *)

\* A read reaches acquire_read; it has not looked at the lane yet.
WantRead(t, p) ==
    /\ phase[t] = "idle"
    /\ phase' = [phase EXCEPT ![t] = "wantRead"]
    /\ lanePath' = [lanePath EXCEPT ![t] = p]
    /\ UNCHANGED <<lane, ticket, parked>>

AcquireRead(t) ==
    LET p == lanePath[t] IN
    /\ phase[t] = "wantRead"
    /\ t \notin parked
    /\ ReadAdmits(p)
    /\ lane' = [lane EXCEPT ![p].activeReaders = @ + 1]
    /\ phase' = [phase EXCEPT ![t] = "reading"]
    /\ UNCHANGED <<lanePath, ticket, parked>>

\* Mutant of DropRead: the last reader does not count itself out.
DropReadKeepsLast(t) ==
    LET p == lanePath[t] IN
    /\ phase[t] = "reading"
    /\ lane' = [lane EXCEPT ![p].activeReaders = IF @ <= 1 THEN @ ELSE @ - 1]
    /\ phase' = [phase EXCEPT ![t] = "idle"]
    /\ parked' = Woken(p)
    /\ UNCHANGED <<lanePath, ticket>>

\* Drop of a ReadPermit; the subtraction saturates.
DropRead(t) ==
    LET p == lanePath[t] IN
    /\ phase[t] = "reading"
    /\ lane' = [lane EXCEPT ![p].activeReaders = IF @ = 0 THEN 0 ELSE @ - 1]
    /\ phase' = [phase EXCEPT ![t] = "idle"]
    /\ parked' = Woken(p)
    /\ UNCHANGED <<lanePath, ticket>>

-----------------------------------------------------------------------------
(* acquire_write *)

\* The ticket after k.  Its mutants: an addition that does not wrap, a counter that stands.
TicketAfterUnwrapped(k) == k + 1
TicketAfterSame(k) == k
TicketAfter(k) == (k + 1) % TicketModulus

\* The start of acquire_write, up to its wait loop: take a ticket, queue it.
WantWrite(t, p) ==
    /\ phase[t] = "idle"
    /\ ticket' = [ticket EXCEPT ![t] = lane[p].nextTicket]
    /\ lane' = [lane EXCEPT ![p].nextTicket = TicketAfter(@),
                            ![p].writers = Append(@, lane[p].nextTicket)]
    /\ phase' = [phase EXCEPT ![t] = "wantWrite"]
    /\ lanePath' = [lanePath EXCEPT ![t] = p]
    /\ UNCHANGED parked

AcquireWrite(t) ==
    LET p == lanePath[t] IN
    /\ phase[t] = "wantWrite"
    /\ t \notin parked
    /\ WriteAdmits(p, ticket[t])
    /\ lane' = [lane EXCEPT ![p].writers = Tail(@), ![p].activeWriter = TRUE]
    /\ phase' = [phase EXCEPT ![t] = "writing"]
    /\ UNCHANGED <<lanePath, ticket, parked>>

\* Mutant of DropWrite: nobody is notified.
DropWriteSilently(t) ==
    LET p == lanePath[t] IN
    /\ phase[t] = "writing"
    /\ lane' = [lane EXCEPT ![p].activeWriter = FALSE]
    /\ phase' = [phase EXCEPT ![t] = "idle"]
    /\ UNCHANGED <<lanePath, ticket, parked>>

\* Drop of a WritePermit.
DropWrite(t) ==
    LET p == lanePath[t] IN
    /\ phase[t] = "writing"
    /\ lane' = [lane EXCEPT ![p].activeWriter = FALSE]
    /\ phase' = [phase EXCEPT ![t] = "idle"]
    /\ parked' = Woken(p)
    /\ UNCHANGED <<lanePath, ticket>>

-----------------------------------------------------------------------------
(* condition.wait and what ends it *)

Park(t) ==
    /\ Waiting(t)
    /\ t \notin parked
    /\ ~Admits(t)
    /\ parked' = parked \cup {t}
    /\ UNCHANGED <<lane, phase, lanePath, ticket>>

SpuriousWakeup(t) ==
    /\ t \in parked
    /\ parked' = parked \ {t}
    /\ UNCHANGED <<lane, phase, lanePath, ticket>>

\* record_mutation notifies the lane while its writer still has it.
NotifyLane(t) ==
    /\ phase[t] = "writing"
    /\ parked' = Woken(lanePath[t])
    /\ UNCHANGED <<lane, phase, lanePath, ticket>>

LaneNext ==
    \E t \in Threads :
        \/ \E p \in Paths : WantRead(t, p)
        \/ \E p \in Paths : WantWrite(t, p)
        \/ AcquireRead(t)
        \/ AcquireWrite(t)
        \/ DropRead(t)
        \/ DropWrite(t)
        \/ Park(t)
        \/ SpuriousWakeup(t)
        \/ NotifyLane(t)

LaneSpec == LaneInit /\ [][LaneNext]_laneVars

\* The scheduler runs every runnable thread, and a thread that has a permit
\* finishes its file operation.  Nothing forces a new call, or a spurious wakeup.
LaneFairness ==
    \A t \in Threads :
        /\ WF_laneVars(AcquireRead(t))
        /\ WF_laneVars(AcquireWrite(t))
        /\ WF_laneVars(DropRead(t))
        /\ WF_laneVars(DropWrite(t))

FairLaneSpec == LaneSpec /\ LaneFairness

-----------------------------------------------------------------------------
(* Properties *)

LaneTypeOK ==
    /\ lane \in [Paths -> LaneState]
    /\ phase \in [Threads -> Phases]
    /\ lanePath \in [Threads -> Paths]
    /\ ticket \in [Threads -> Tickets]
    /\ parked \subseteq Threads

\* While one thread has a write permit of a file, no other thread has a read or
\* a write permit of that file (FileLane's doc: same-file reads run together,
\* a write runs alone).
Exclusion ==
    \A t, u \in Threads :
        (t # u /\ phase[t] = "writing" /\ lanePath[t] = lanePath[u])
            => phase[u] \notin {"reading", "writing"}

\* The two counters the wait loops test tell the truth: active_readers is the
\* number of read permits alive and active_writer says whether a write permit is.
\* The saturating subtraction of ReadPermit::drop therefore never saturates.
CountersExact ==
    \A p \in Paths :
        /\ lane[p].activeReaders = Cardinality(Users(p, "reading"))
        /\ lane[p].activeWriter <=> Users(p, "writing") # {}

\* The ticket queue of a lane holds exactly one entry for each thread that waits
\* to write, and no two waiting writers share a ticket even after the counter
\* wraps: no writer is forgotten, none is served twice, none takes another's turn.
QueueExact ==
    \A p \in Paths :
        /\ Len(lane[p].writers) = Cardinality(Users(p, "wantWrite"))
        /\ \A t \in Users(p, "wantWrite") :
              \E i \in 1 .. Len(lane[p].writers) : lane[p].writers[i] = ticket[t]
        /\ \A t, u \in Users(p, "wantWrite") : t # u => ticket[t] # ticket[u]

\* Every queued writer gets its permit, however many readers and writers keep
\* arriving, with nothing but weak fairness: a queued writer stops later readers,
\* the queue is FIFO, and the notify_all calls wake it when its turn comes.
WriterServed ==
    \A t \in Threads : phase[t] = "wantWrite" ~> phase[t] = "writing"

\* A reader waits for ever only if writers keep queueing for its file: no
\* notification that would admit it is lost.
ReaderServed ==
    \A t \in Threads :
        \/ []<>(phase[t] # "wantRead")
        \/ []<>(lane[lanePath[t]].writers # <<>>)

\* Nobody waits for ever for a permit, but for readers that writers keep overtaking.
EveryoneServed == WriterServed /\ ReaderServed

=============================================================================
