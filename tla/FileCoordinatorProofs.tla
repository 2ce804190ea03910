----------------------- MODULE FileCoordinatorProofs -----------------------
(***************************************************************************)
(* TLAPS proofs about FileLane, for any finite set of threads, any paths   *)
(* and any ticket range, and about FileCoordinator, for any agents,        *)
(* contents, edits and ring length besides.                                *)
(*                                                                         *)
(* Of the lanes: the state is well typed, the two counters are exact, and  *)
(* a write permit excludes every other permit of its file.  Exclusion is   *)
(* not inductive: a lane whose counters were wrong would let a second      *)
(* thread in.  The inductive invariant is LaneInv, the three properties    *)
(* together.  That the queue holds exactly the tickets of those who wait   *)
(* is proved beside it, if tickets suffice for the threads.                *)
(*                                                                         *)
(* Of the coordinator, first: every step is a step of its lanes or leaves  *)
(* them alone, so what is shown of the lanes holds inside the coordinator. *)
(* Second, CommitFresh: it is inductive together with Holding, which ties  *)
(* the step a call has reached to the permit it has.  Third, the history   *)
(* of a file: with what a change in flight replaced and what agents took   *)
(* the file to hold, the chain of mutations is inductive.  Last, the       *)
(* refinement of FileRegister: a call begins when it has fixed its         *)
(* expected revision, takes effect when it renames, and every other step   *)
(* is a stutter.                                                           *)
(***************************************************************************)
EXTENDS FileCoordinator, FiniteSetTheorems, SequenceTheorems, TLAPS

-----------------------------------------------------------------------------
(* The lanes *)

LaneInv == LaneTypeOK /\ CountersExact /\ Exclusion

\* The ticket counter stays in its range, wrapping at its end (wrapping_add).
LEMMA TicketAfterType ==
    ASSUME NEW k \in Tickets
    PROVE  TicketAfter(k) \in Tickets
<1>1. TicketModulus \in Nat /\ TicketModulus > 0 /\ k \in Nat
    BY LaneAssumption DEF Tickets
<1>2. (k + 1) % TicketModulus \in 0 .. TicketModulus - 1
    BY <1>1, SMT
<1>3. QED
    BY <1>2 DEF TicketAfter, Tickets

\* Sets of users are finite, because there are finitely many threads.
LEMMA UsersFinite ==
    ASSUME NEW p, NEW ph
    PROVE  IsFiniteSet(Users(p, ph))
<1>1. Users(p, ph) \subseteq Threads
    BY DEF Users
<1>2. QED
    BY <1>1, LaneAssumption, FS_Subset

LEMMA LaneInitInv == LaneInit => LaneInv
<1> SUFFICES ASSUME LaneInit PROVE LaneInv
    OBVIOUS
<1>1. LaneTypeOK
    <2>1. 0 \in Tickets
        BY LaneAssumption DEF Tickets
    <2>2. EmptyLane \in LaneState
        BY <2>1 DEF EmptyLane, LaneState
    <2>3. QED
        BY <2>1, <2>2 DEF LaneInit, LaneTypeOK, Phases
<1>2. CountersExact
    <2> SUFFICES ASSUME NEW p \in Paths
                 PROVE  /\ lane[p].activeReaders = Cardinality(Users(p, "reading"))
                        /\ lane[p].activeWriter <=> Users(p, "writing") # {}
        BY DEF CountersExact
    <2>1. Users(p, "reading") = {} /\ Users(p, "writing") = {}
        BY DEF Users, LaneInit
    <2>2. Cardinality(Users(p, "reading")) = 0
        BY <2>1, FS_EmptySet
    <2>3. QED
        BY <2>1, <2>2 DEF LaneInit, EmptyLane
<1>3. Exclusion
    BY DEF LaneInit, Exclusion
<1>4. QED
    BY <1>1, <1>2, <1>3 DEF LaneInv

-----------------------------------------------------------------------------
(* Every step keeps the types. *)

LEMMA LaneStepType ==
    ASSUME LaneTypeOK, [LaneNext]_laneVars
    PROVE  LaneTypeOK'
<1> USE DEF LaneTypeOK, Phases
<1>1. ASSUME NEW t \in Threads, NEW p \in Paths, WantRead(t, p) PROVE LaneTypeOK'
    BY <1>1 DEF WantRead
<1>2. ASSUME NEW t \in Threads, NEW p \in Paths, WantWrite(t, p) PROVE LaneTypeOK'
    <2>1. lane[p] \in LaneState /\ lane[p].nextTicket \in Tickets
        BY DEF LaneState
    <2>2. TicketAfter(lane[p].nextTicket) \in Tickets
        BY <2>1, TicketAfterType
    <2>3. Append(lane[p].writers, lane[p].nextTicket) \in Seq(Tickets)
        BY <2>1, AppendProperties DEF LaneState
    <2>4. lane' \in [Paths -> LaneState]
        BY <1>2, <2>1, <2>2, <2>3 DEF WantWrite, LaneState
    <2>5. QED
        BY <1>2, <2>1, <2>4 DEF WantWrite
<1>3. ASSUME NEW t \in Threads, AcquireRead(t) PROVE LaneTypeOK'
    <2>1. lanePath[t] \in Paths /\ lane[lanePath[t]] \in LaneState
        OBVIOUS
    <2>2. lane[lanePath[t]].activeReaders + 1 \in Nat
        BY <2>1 DEF LaneState
    <2>3. lane' \in [Paths -> LaneState]
        BY <1>3, <2>1, <2>2 DEF AcquireRead, LaneState
    <2>4. QED
        BY <1>3, <2>3 DEF AcquireRead
<1>4. ASSUME NEW t \in Threads, AcquireWrite(t) PROVE LaneTypeOK'
    <2>1. lanePath[t] \in Paths /\ lane[lanePath[t]] \in LaneState
        OBVIOUS
    <2>2. lane[lanePath[t]].writers \in Seq(Tickets) /\ lane[lanePath[t]].writers # <<>>
        BY <1>4, <2>1 DEF AcquireWrite, WriteAdmits, LaneState
    <2>3. Tail(lane[lanePath[t]].writers) \in Seq(Tickets)
        BY <2>2, HeadTailProperties
    <2>4. lane' \in [Paths -> LaneState]
        BY <1>4, <2>1, <2>3 DEF AcquireWrite, LaneState
    <2>5. QED
        BY <1>4, <2>4 DEF AcquireWrite
<1>5. ASSUME NEW t \in Threads, DropRead(t) PROVE LaneTypeOK'
    <2> DEFINE n == lane[lanePath[t]].activeReaders
    <2>1. lanePath[t] \in Paths /\ lane[lanePath[t]] \in LaneState
        OBVIOUS
    <2>2. (IF n = 0 THEN 0 ELSE n - 1) \in Nat
        BY <2>1 DEF LaneState
    <2>3. lane' \in [Paths -> LaneState]
        BY <1>5, <2>1, <2>2 DEF DropRead, LaneState
    <2>4. QED
        BY <1>5, <2>3 DEF DropRead, Woken
<1>6. ASSUME NEW t \in Threads, DropWrite(t) PROVE LaneTypeOK'
    <2>1. lane' \in [Paths -> LaneState]
        BY <1>6 DEF DropWrite, LaneState
    <2>2. QED
        BY <1>6, <2>1 DEF DropWrite, Woken
<1>7. ASSUME NEW t \in Threads, Park(t) \/ SpuriousWakeup(t) \/ NotifyLane(t) PROVE LaneTypeOK'
    BY <1>7 DEF Park, SpuriousWakeup, NotifyLane, Woken
<1>8. CASE UNCHANGED laneVars
    BY <1>8 DEF laneVars
<1>9. QED
    BY <1>1, <1>2, <1>3, <1>4, <1>5, <1>6, <1>7, <1>8 DEF LaneNext

-----------------------------------------------------------------------------
(* Every step keeps the counters exact.  Each action adds one thread to one *)
(* set of users, removes one from it, or leaves the sets as they are.       *)

\* The two counters of path p, as CountersExact states them.
CountsOf(p) ==
    /\ lane[p].activeReaders = Cardinality(Users(p, "reading"))
    /\ lane[p].activeWriter <=> Users(p, "writing") # {}

\* A path whose counters and permit holders a step leaves alone stays exact.
LEMMA CountsUntouched ==
    ASSUME NEW p, CountsOf(p),
           lane'[p].activeReaders = lane[p].activeReaders,
           lane'[p].activeWriter = lane[p].activeWriter,
           Users(p, "reading")' = Users(p, "reading"),
           Users(p, "writing")' = Users(p, "writing")
    PROVE  CountsOf(p)'
BY DEF CountsOf

\* acquire_read adds the thread to the readers and one to the count.
LEMMA AcquireReadCounts ==
    ASSUME LaneTypeOK, CountersExact, NEW t \in Threads, AcquireRead(t), NEW p \in Paths
    PROVE  CountsOf(p)'
<1>0. CountsOf(p) /\ lanePath[t] \in Paths /\ lane[p] \in LaneState
    BY DEF CountersExact, CountsOf, LaneTypeOK
<1>1. CASE p # lanePath[t]
    <2>1. lane'[p] = lane[p]
        BY <1>0, <1>1 DEF AcquireRead, LaneTypeOK
    <2>2. Users(p, "reading")' = Users(p, "reading") /\ Users(p, "writing")' = Users(p, "writing")
        BY <1>1 DEF AcquireRead, Users, LaneTypeOK
    <2>3. QED
        BY <1>0, <2>1, <2>2, CountsUntouched
<1>2. CASE p = lanePath[t]
    <2>1. lane'[p].activeReaders = lane[p].activeReaders + 1
        BY <1>0, <1>2 DEF AcquireRead, LaneTypeOK, LaneState
    <2>2. lane'[p].activeWriter = lane[p].activeWriter
        BY <1>0, <1>2 DEF AcquireRead, LaneTypeOK, LaneState
    <2>3. Users(p, "reading")' = Users(p, "reading") \cup {t} /\ t \notin Users(p, "reading")
        BY <1>2 DEF AcquireRead, Users, LaneTypeOK
    <2>4. Users(p, "writing")' = Users(p, "writing")
        BY <1>2 DEF AcquireRead, Users, LaneTypeOK
    <2>5. Cardinality(Users(p, "reading")') = Cardinality(Users(p, "reading")) + 1
        BY <2>3, UsersFinite, FS_AddElement
    <2>6. QED
        BY <1>0, <2>1, <2>2, <2>4, <2>5 DEF CountsOf
<1>3. QED
    BY <1>1, <1>2

\* Drop of a ReadPermit removes the thread from the readers; as the count is
\* exact the subtraction does not saturate.
LEMMA DropReadCounts ==
    ASSUME LaneTypeOK, CountersExact, NEW t \in Threads, DropRead(t), NEW p \in Paths
    PROVE  CountsOf(p)'
<1>0. CountsOf(p) /\ lanePath[t] \in Paths /\ lane[p] \in LaneState
    BY DEF CountersExact, CountsOf, LaneTypeOK
<1>1. CASE p # lanePath[t]
    <2>1. lane'[p] = lane[p]
        BY <1>0, <1>1 DEF DropRead, LaneTypeOK
    <2>2. Users(p, "reading")' = Users(p, "reading") /\ Users(p, "writing")' = Users(p, "writing")
        BY <1>1 DEF DropRead, Users, LaneTypeOK
    <2>3. QED
        BY <1>0, <2>1, <2>2, CountsUntouched
<1>2. CASE p = lanePath[t]
    <2>1. Users(p, "reading")' = Users(p, "reading") \ {t} /\ t \in Users(p, "reading")
        BY <1>2 DEF DropRead, Users, LaneTypeOK
    <2>2. Users(p, "writing")' = Users(p, "writing")
        BY <1>2 DEF DropRead, Users, LaneTypeOK
    <2>3. Cardinality(Users(p, "reading")') = Cardinality(Users(p, "reading")) - 1
        BY <2>1, UsersFinite, FS_RemoveElement
    <2>4. Cardinality(Users(p, "reading")) # 0
        BY <2>1, UsersFinite, FS_EmptySet
    <2>5. lane[p].activeReaders # 0
        BY <1>0, <2>4 DEF CountsOf
    <2>6. lane'[p].activeReaders = lane[p].activeReaders - 1
        BY <1>0, <1>2, <2>5 DEF DropRead, LaneTypeOK, LaneState
    <2>7. lane'[p].activeWriter = lane[p].activeWriter
        BY <1>0, <1>2 DEF DropRead, LaneTypeOK, LaneState
    <2>8. QED
        BY <1>0, <2>2, <2>3, <2>6, <2>7 DEF CountsOf
<1>3. QED
    BY <1>1, <1>2

\* acquire_write raises the flag as its thread becomes a writer.
LEMMA AcquireWriteCounts ==
    ASSUME LaneTypeOK, CountersExact, NEW t \in Threads, AcquireWrite(t), NEW p \in Paths
    PROVE  CountsOf(p)'
<1>0. CountsOf(p) /\ lanePath[t] \in Paths /\ lane[p] \in LaneState
    BY DEF CountersExact, CountsOf, LaneTypeOK
<1>1. Users(p, "reading")' = Users(p, "reading")
    BY DEF AcquireWrite, Users, LaneTypeOK
<1>2. lane'[p].activeReaders = lane[p].activeReaders
    BY <1>0 DEF AcquireWrite, LaneTypeOK, LaneState
<1>3. CASE p # lanePath[t]
    <2>1. lane'[p] = lane[p]
        BY <1>0, <1>3 DEF AcquireWrite, LaneTypeOK
    <2>2. Users(p, "writing")' = Users(p, "writing")
        BY <1>3 DEF AcquireWrite, Users, LaneTypeOK
    <2>3. QED
        BY <1>0, <1>1, <2>1, <2>2, CountsUntouched
<1>4. CASE p = lanePath[t]
    <2>1. lane'[p].activeWriter = TRUE
        BY <1>0, <1>4 DEF AcquireWrite, LaneTypeOK, LaneState
    <2>2. t \in Users(p, "writing")'
        BY <1>4 DEF AcquireWrite, Users, LaneTypeOK
    <2>3. QED
        BY <1>0, <1>1, <1>2, <2>1, <2>2 DEF CountsOf
<1>5. QED
    BY <1>3, <1>4

\* Drop of a WritePermit lowers the flag; by Exclusion there was one writer.
LEMMA DropWriteCounts ==
    ASSUME LaneInv, NEW t \in Threads, DropWrite(t), NEW p \in Paths
    PROVE  CountsOf(p)'
<1>0. CountsOf(p) /\ lanePath[t] \in Paths /\ lane[p] \in LaneState
    BY DEF LaneInv, CountersExact, CountsOf, LaneTypeOK
<1>1. Users(p, "reading")' = Users(p, "reading")
    BY DEF LaneInv, DropWrite, Users, LaneTypeOK
<1>2. lane'[p].activeReaders = lane[p].activeReaders
    BY <1>0 DEF LaneInv, DropWrite, LaneTypeOK, LaneState
<1>3. CASE p # lanePath[t]
    <2>1. lane'[p] = lane[p]
        BY <1>0, <1>3 DEF LaneInv, DropWrite, LaneTypeOK
    <2>2. Users(p, "writing")' = Users(p, "writing")
        BY <1>3 DEF LaneInv, DropWrite, Users, LaneTypeOK
    <2>3. QED
        BY <1>0, <1>1, <2>1, <2>2, CountsUntouched
<1>4. CASE p = lanePath[t]
    <2>1. lane'[p].activeWriter = FALSE
        BY <1>0, <1>4 DEF LaneInv, DropWrite, LaneTypeOK, LaneState
    <2>2. Users(p, "writing")' = {}
        BY <1>4 DEF LaneInv, Exclusion, DropWrite, Users, LaneTypeOK
    <2>3. QED
        BY <1>0, <1>1, <1>2, <2>1, <2>2 DEF CountsOf
<1>5. QED
    BY <1>3, <1>4

LEMMA LaneStepCounters ==
    ASSUME LaneInv, [LaneNext]_laneVars
    PROVE  CountersExact'
<1> SUFFICES ASSUME NEW p \in Paths PROVE CountsOf(p)'
    BY DEF CountersExact, CountsOf
<1>0. LaneTypeOK /\ CountersExact /\ CountsOf(p)
    BY DEF LaneInv, CountersExact, CountsOf
<1>1. ASSUME NEW t \in Threads, NEW q \in Paths, WantRead(t, q) PROVE CountsOf(p)'
    <2>1. Users(p, "reading")' = Users(p, "reading") /\ Users(p, "writing")' = Users(p, "writing")
        BY <1>0, <1>1 DEF WantRead, Users, LaneTypeOK
    <2>2. QED
        BY <1>0, <1>1, <2>1, CountsUntouched DEF WantRead
<1>2. ASSUME NEW t \in Threads, NEW q \in Paths, WantWrite(t, q) PROVE CountsOf(p)'
    <2>1. Users(p, "reading")' = Users(p, "reading") /\ Users(p, "writing")' = Users(p, "writing")
        BY <1>0, <1>2 DEF WantWrite, Users, LaneTypeOK
    <2>2. /\ lane'[p].activeReaders = lane[p].activeReaders
          /\ lane'[p].activeWriter = lane[p].activeWriter
        BY <1>0, <1>2 DEF WantWrite, LaneTypeOK, LaneState
    <2>3. QED
        BY <1>0, <2>1, <2>2, CountsUntouched
<1>3. ASSUME NEW t \in Threads, Park(t) \/ SpuriousWakeup(t) \/ NotifyLane(t) PROVE CountsOf(p)'
    <2>1. UNCHANGED <<lane, phase, lanePath>>
        BY <1>3 DEF Park, SpuriousWakeup, NotifyLane
    <2>2. QED
        BY <1>0, <2>1 DEF CountsOf, Users
<1>4. CASE UNCHANGED laneVars
    BY <1>0, <1>4 DEF laneVars, CountsOf, Users
<1>5. QED
    BY <1>0, <1>1, <1>2, <1>3, <1>4, AcquireReadCounts, DropReadCounts,
       AcquireWriteCounts, DropWriteCounts DEF LaneNext

-----------------------------------------------------------------------------
(* Every step keeps Exclusion: exact counters make the wait loops sound. *)

LEMMA LaneStepExclusion ==
    ASSUME LaneInv, [LaneNext]_laneVars
    PROVE  Exclusion'
<1>0. LaneTypeOK /\ CountersExact /\ Exclusion
    BY DEF LaneInv
<1>1. ASSUME NEW t \in Threads, AcquireRead(t) PROVE Exclusion'
    <2>1. Users(lanePath[t], "writing") = {}
        BY <1>0, <1>1 DEF AcquireRead, ReadAdmits, CountersExact, LaneTypeOK
    <2>2. \A u \in Threads : lanePath[u] = lanePath[t] => phase[u] # "writing"
        BY <2>1 DEF Users
    <2>3. QED
        BY <1>0, <1>1, <2>2 DEF AcquireRead, Exclusion, LaneTypeOK
<1>2. ASSUME NEW t \in Threads, AcquireWrite(t) PROVE Exclusion'
    <2>1. lanePath[t] \in Paths
        BY <1>0 DEF LaneTypeOK
    <2>2. Users(lanePath[t], "writing") = {}
        BY <1>0, <1>2, <2>1 DEF AcquireWrite, WriteAdmits, CountersExact
    <2>3. Cardinality(Users(lanePath[t], "reading")) = 0
        BY <1>0, <1>2, <2>1 DEF AcquireWrite, WriteAdmits, CountersExact
    <2>4. Users(lanePath[t], "reading") = {}
        BY <2>3, UsersFinite, FS_EmptySet
    <2>5. \A u \in Threads : lanePath[u] = lanePath[t] => phase[u] \notin {"reading", "writing"}
        BY <2>2, <2>4 DEF Users
    <2>6. QED
        BY <1>0, <1>2, <2>5 DEF AcquireWrite, Exclusion, LaneTypeOK
<1>3. ASSUME NEW t \in Threads, DropRead(t) \/ DropWrite(t) PROVE Exclusion'
    BY <1>0, <1>3 DEF DropRead, DropWrite, Exclusion, LaneTypeOK
<1>4. ASSUME NEW t \in Threads, NEW p \in Paths, WantRead(t, p) \/ WantWrite(t, p)
      PROVE  Exclusion'
    BY <1>0, <1>4 DEF WantRead, WantWrite, Exclusion, LaneTypeOK
<1>5. ASSUME NEW t \in Threads, Park(t) \/ SpuriousWakeup(t) \/ NotifyLane(t)
      PROVE  Exclusion'
    BY <1>0, <1>5 DEF Park, SpuriousWakeup, NotifyLane, Exclusion
<1>6. CASE UNCHANGED laneVars
    BY <1>0, <1>6 DEF laneVars, Exclusion
<1>7. QED
    BY <1>1, <1>2, <1>3, <1>4, <1>5, <1>6 DEF LaneNext

\* LaneInv is inductive.
LEMMA LaneStepInv ==
    ASSUME LaneInv, [LaneNext]_laneVars
    PROVE  LaneInv'
<1>1. LaneTypeOK'
    BY LaneStepType DEF LaneInv
<1>2. QED
    BY <1>1, LaneStepCounters, LaneStepExclusion DEF LaneInv

-----------------------------------------------------------------------------
(* The ticket queue.  QueueExact is not inductive: that a new ticket is not *)
(* already queued follows only from where the counter stands, once round    *)
(* the ticket range after the tickets that it has given out.  That is       *)
(* TicketsConsecutive; it keeps tickets apart as long as there are no more  *)
(* threads than tickets.                                                    *)

TicketsSuffice == Cardinality(Threads) <= TicketModulus

\* Entry i of a queue of n was taken n - i + 1 tickets before the next one.
Consecutive(p) ==
    LET n == Len(lane[p].writers) IN
    \A i \in 1 .. n :
        \/ lane[p].nextTicket = lane[p].writers[i] + (n - i + 1)
        \/ lane[p].nextTicket = lane[p].writers[i] + (n - i + 1) - TicketModulus

TicketsConsecutive == \A p \in Paths : Consecutive(p)

\* QueueExact, of one path.
QueueOf(p) ==
    /\ Len(lane[p].writers) = Cardinality(Users(p, "wantWrite"))
    /\ \A t \in Users(p, "wantWrite") :
          \E i \in 1 .. Len(lane[p].writers) : lane[p].writers[i] = ticket[t]
    /\ \A t, u \in Users(p, "wantWrite") : t # u => ticket[t] # ticket[u]

QueueInv == LaneTypeOK /\ TicketsConsecutive /\ QueueExact

\* A queue that a step leaves alone, with the threads that wait in it, stays exact.
LEMMA QueueUntouched ==
    ASSUME NEW p, QueueOf(p), Consecutive(p),
           lane'[p].writers = lane[p].writers,
           lane'[p].nextTicket = lane[p].nextTicket,
           Users(p, "wantWrite")' = Users(p, "wantWrite"),
           \A t \in Users(p, "wantWrite") : ticket'[t] = ticket[t]
    PROVE  QueueOf(p)' /\ Consecutive(p)'
BY DEF QueueOf, Consecutive

\* (k + 1) % TicketModulus is k + 1, but at the end of the range.
LEMMA TicketAfterValue ==
    ASSUME NEW k \in Tickets
    PROVE  TicketAfter(k) = IF k + 1 = TicketModulus THEN 0 ELSE k + 1
<1>1. TicketModulus \in Nat /\ TicketModulus > 0 /\ k \in Nat /\ k < TicketModulus
    BY LaneAssumption DEF Tickets
<1>2. CASE k + 1 = TicketModulus
    BY <1>1, <1>2, SMT DEF TicketAfter
<1>3. CASE k + 1 # TicketModulus
    BY <1>1, <1>3, SMT DEF TicketAfter
<1>4. QED
    BY <1>2, <1>3

\* A ticket taken fewer than m tickets before k, counted round the range, is not k ...
LEMMA TicketsApart ==
    ASSUME NEW m \in Nat, NEW n \in Nat, NEW i \in Nat, NEW x \in Nat, NEW k \in Nat,
           1 <= i, i <= n, n < m, k = x + (n - i + 1) \/ k = x + (n - i + 1) - m
    PROVE  x # k
OBVIOUS

\* ... and one ticket further away from the ticket after k.
LEMMA TicketsFurther ==
    ASSUME NEW m \in Nat, NEW n \in Nat, NEW i \in Nat, NEW x \in Nat, NEW k \in Nat, NEW next,
           1 <= i, i <= n, n < m, k < m, x < m,
           k = x + (n - i + 1) \/ k = x + (n - i + 1) - m,
           next = IF k + 1 = m THEN 0 ELSE k + 1
    PROVE  next = x + (n + 1 - i + 1) \/ next = x + (n + 1 - i + 1) - m
OBVIOUS

\* The start of acquire_write: the new ticket is not in the queue yet.
LEMMA WantWriteQueue ==
    ASSUME TicketsSuffice, QueueInv, NEW t \in Threads, NEW q \in Paths, WantWrite(t, q),
           NEW p \in Paths
    PROVE  QueueOf(p)' /\ Consecutive(p)'
<1> DEFINE w == lane[q].writers
           k == lane[q].nextTicket
           n == Len(w)
<1>0. /\ QueueOf(p) /\ Consecutive(p) /\ QueueOf(q) /\ Consecutive(q)
      /\ lane[q] \in LaneState /\ lane[p] \in LaneState
      /\ k \in Tickets /\ w \in Seq(Tickets) /\ n \in Nat
    BY LenProperties DEF QueueInv, QueueExact, TicketsConsecutive, QueueOf, LaneTypeOK, LaneState
<1>1. CASE p # q
    <2>1. lane'[p] = lane[p]
        BY <1>1 DEF WantWrite, QueueInv, LaneTypeOK
    <2>2. Users(p, "wantWrite")' = Users(p, "wantWrite") /\ t \notin Users(p, "wantWrite")
        BY <1>1 DEF WantWrite, Users, QueueInv, LaneTypeOK
    <2>3. \A u \in Users(p, "wantWrite") : ticket'[u] = ticket[u]
        BY <2>2 DEF WantWrite, Users, QueueInv, LaneTypeOK
    <2>4. QED
        BY <1>0, <2>1, <2>2, <2>3, QueueUntouched
<1>2. CASE p = q
    <2>1. /\ Users(q, "wantWrite")' = Users(q, "wantWrite") \cup {t}
          /\ t \notin Users(q, "wantWrite")
        BY DEF WantWrite, Users, QueueInv, LaneTypeOK
    <2>2. Cardinality(Users(q, "wantWrite")') = Cardinality(Users(q, "wantWrite")) + 1
        BY <2>1, UsersFinite, FS_AddElement
    <2>3. n < TicketModulus
        <3>1. Users(q, "wantWrite") \subseteq Threads \ {t}
            BY <2>1 DEF Users
        <3>2. IsFiniteSet(Threads \ {t}) /\ Cardinality(Threads \ {t}) = Cardinality(Threads) - 1
            BY LaneAssumption, FS_RemoveElement
        <3>3. Cardinality(Users(q, "wantWrite")) <= Cardinality(Threads \ {t})
            BY <3>1, <3>2, FS_Subset
        <3>4. Cardinality(Threads) \in Nat /\ TicketModulus \in Nat
            BY LaneAssumption, FS_CardinalityType
        <3>5. QED
            BY <1>0, <3>2, <3>3, <3>4 DEF QueueOf, TicketsSuffice
    <2>4. /\ lane'[q].writers = Append(w, k)
          /\ lane'[q].nextTicket = TicketAfter(k)
          /\ ticket'[t] = k
          /\ \A u \in Threads \ {t} : ticket'[u] = ticket[u]
        BY <1>0 DEF WantWrite, QueueInv, LaneTypeOK, LaneState
    <2>5. /\ Len(Append(w, k)) = n + 1
          /\ \A i \in 1 .. n : Append(w, k)[i] = w[i]
          /\ Append(w, k)[n + 1] = k
        BY <1>0, AppendProperties
    <2>6. /\ TicketModulus \in Nat /\ k \in 0 .. TicketModulus - 1
          /\ \A i \in 1 .. n : w[i] \in 0 .. TicketModulus - 1
        BY <1>0, LaneAssumption, ElementOfSeq DEF Tickets
    <2>7. ASSUME NEW i \in 1 .. n PROVE w[i] # k
        <3>1. k = w[i] + (n - i + 1) \/ k = w[i] + (n - i + 1) - TicketModulus
            BY <1>0 DEF Consecutive
        <3>2. i \in Nat /\ i <= n /\ i >= 1 /\ w[i] \in Nat
            BY <1>0, <2>6
        <3>3. QED
            BY <1>0, <2>3, <2>6, <3>1, <3>2, TicketsApart
    <2>8. Consecutive(q)'
        <3>1. TicketAfter(k) = IF k + 1 = TicketModulus THEN 0 ELSE k + 1
            BY <1>0, TicketAfterValue
        <3>2. ASSUME NEW i \in 1 .. n
              PROVE  \/ TicketAfter(k) = w[i] + (n + 1 - i + 1)
                     \/ TicketAfter(k) = w[i] + (n + 1 - i + 1) - TicketModulus
            <4>1. k = w[i] + (n - i + 1) \/ k = w[i] + (n - i + 1) - TicketModulus
                BY <1>0 DEF Consecutive
            <4>2. /\ i \in Nat /\ i <= n /\ 1 <= i /\ n \in Nat /\ TicketModulus \in Nat
                  /\ w[i] \in Nat /\ k \in Nat /\ w[i] < TicketModulus /\ k < TicketModulus
                BY <1>0, <2>6
            <4> HIDE DEF n, k, w
            <4>3. QED
                BY <2>3, <3>1, <4>1, <4>2, TicketsFurther
        <3>3. TicketAfter(k) = k + 1 \/ TicketAfter(k) = k + 1 - TicketModulus
            BY <2>6, <3>1
        <3>4. ASSUME NEW i \in 1 .. n + 1
              PROVE  \/ TicketAfter(k) = Append(w, k)[i] + (n + 1 - i + 1)
                     \/ TicketAfter(k) = Append(w, k)[i] + (n + 1 - i + 1) - TicketModulus
            <4>1. CASE i = n + 1
                BY <1>0, <2>5, <2>6, <3>3, <4>1
            <4>2. CASE i \in 1 .. n
                BY <2>5, <3>2, <4>2
            <4>3. QED
                BY <1>0, <4>1, <4>2
        <3>5. QED
            <4> DEFINE v == Append(w, k)
                       l == n + 1
            <4>1. lane'[q].writers = v /\ Len(v) = l /\ lane'[q].nextTicket = TicketAfter(k)
                BY <2>4, <2>5
            <4>2. \A i \in 1 .. l : \/ TicketAfter(k) = v[i] + (l - i + 1)
                                    \/ TicketAfter(k) = v[i] + (l - i + 1) - TicketModulus
                BY <3>4
            <4> HIDE DEF v, l
            <4>3. QED
                BY <4>1, <4>2 DEF Consecutive
    <2>9. QueueOf(q)'
        <3>1. \A u \in Users(q, "wantWrite") : ticket'[u] = ticket[u] /\ ticket[u] # k
            BY <1>0, <2>1, <2>4, <2>7 DEF QueueOf, Users
        <3>2. \A u \in Users(q, "wantWrite")' :
                 \E i \in 1 .. Len(lane'[q].writers) : lane'[q].writers[i] = ticket'[u]
            <4>1. n + 1 \in 1 .. n + 1 /\ 1 .. n \subseteq 1 .. n + 1
                BY <1>0
            <4>2. ASSUME NEW u \in Users(q, "wantWrite")
                  PROVE  \E i \in 1 .. n + 1 : Append(w, k)[i] = ticket'[u]
                BY <1>0, <2>5, <3>1, <4>1 DEF QueueOf
            <4>3. QED
                BY <2>1, <2>4, <2>5, <4>1, <4>2
        <3>3. \A u, v \in Users(q, "wantWrite")' : u # v => ticket'[u] # ticket'[v]
            BY <1>0, <2>1, <2>4, <3>1 DEF QueueOf
        <3>4. QED
            BY <1>0, <2>2, <2>4, <2>5, <3>2, <3>3 DEF QueueOf
    <2>10. QED
        BY <1>2, <2>8, <2>9
<1>3. QED
    BY <1>1, <1>2

\* acquire_write lets the thread with the first ticket in, and takes that ticket out.
LEMMA AcquireWriteQueue ==
    ASSUME QueueInv, NEW t \in Threads, AcquireWrite(t), NEW p \in Paths
    PROVE  QueueOf(p)' /\ Consecutive(p)'
<1> DEFINE q == lanePath[t]
           w == lane[q].writers
           n == Len(w)
<1>0. /\ q \in Paths /\ QueueOf(p) /\ Consecutive(p) /\ QueueOf(q) /\ Consecutive(q)
      /\ lane[q] \in LaneState /\ lane[p] \in LaneState
      /\ w \in Seq(Tickets) /\ n \in Nat /\ w # <<>> /\ Head(w) = ticket[t]
    BY LenProperties DEF QueueInv, QueueExact, TicketsConsecutive, QueueOf, LaneTypeOK, LaneState,
       AcquireWrite, WriteAdmits
<1>1. CASE p # q
    <2>1. lane'[p] = lane[p] /\ ticket' = ticket
        BY <1>1 DEF AcquireWrite, QueueInv, LaneTypeOK
    <2>2. Users(p, "wantWrite")' = Users(p, "wantWrite")
        BY <1>1 DEF AcquireWrite, Users, QueueInv, LaneTypeOK
    <2>3. QED
        BY <1>0, <2>1, <2>2, QueueUntouched
<1>2. CASE p = q
    <2>1. /\ Users(p, "wantWrite")' = Users(p, "wantWrite") \ {t}
          /\ t \in Users(p, "wantWrite")
        BY <1>0, <1>2 DEF AcquireWrite, Users, QueueInv, LaneTypeOK
    <2>2. Cardinality(Users(p, "wantWrite")') = Cardinality(Users(p, "wantWrite")) - 1
        BY <2>1, UsersFinite, FS_RemoveElement
    <2>3. /\ lane'[p].writers = Tail(w) /\ lane'[p].nextTicket = lane[p].nextTicket
          /\ ticket' = ticket /\ w = lane[p].writers
        BY <1>0, <1>2 DEF AcquireWrite, QueueInv, LaneTypeOK, LaneState
    <2>4. /\ Len(Tail(w)) = n - 1 /\ n - 1 \in Nat
          /\ \A i \in 1 .. n - 1 : Tail(w)[i] = w[i + 1]
          /\ Head(w) = w[1]
        BY <1>0, HeadTailProperties, EmptySeq, LenProperties
    <2>5. Consecutive(p)'
        <3>1. ASSUME NEW i \in 1 .. n - 1
              PROVE  \/ lane[p].nextTicket = w[i + 1] + (n - 1 - i + 1)
                     \/ lane[p].nextTicket = w[i + 1] + (n - 1 - i + 1) - TicketModulus
            <4>1. i + 1 \in 1 .. n /\ n - (i + 1) + 1 = n - 1 - i + 1
                BY <1>0
            <4>2. QED
                BY <1>0, <2>3, <4>1 DEF Consecutive
        <3>2. QED
            BY <2>3, <2>4, <3>1 DEF Consecutive
    <2>6. ASSUME NEW u \in Users(p, "wantWrite"), u # t
          PROVE  \E i \in 1 .. n - 1 : Tail(w)[i] = ticket[u]
        <3>1. ticket[u] # ticket[t]
            BY <1>0, <2>1, <2>6 DEF QueueOf
        <3>2. PICK i \in 1 .. n : w[i] = ticket[u]
            BY <1>0, <2>3 DEF QueueOf
        <3>3. i # 1
            BY <1>0, <2>4, <3>1, <3>2
        <3>4. i - 1 \in 1 .. n - 1 /\ (i - 1) + 1 = i
            BY <1>0, <3>3
        <3>5. QED
            BY <2>4, <3>2, <3>4
    <2>7. QueueOf(p)'
        BY <1>0, <2>1, <2>2, <2>3, <2>4, <2>6 DEF QueueOf
    <2>8. QED
        BY <2>5, <2>7
<1>3. QED
    BY <1>1, <1>2

\* QueueInv is inductive.
LEMMA QueueStepInv ==
    ASSUME TicketsSuffice, QueueInv, [LaneNext]_laneVars
    PROVE  QueueInv'
<1>0. LaneTypeOK /\ \A p \in Paths : QueueOf(p) /\ Consecutive(p)
    BY DEF QueueInv, QueueExact, TicketsConsecutive, QueueOf
<1>1. LaneTypeOK'
    BY <1>0, LaneStepType
<1> SUFFICES ASSUME NEW p \in Paths PROVE QueueOf(p)' /\ Consecutive(p)'
    BY <1>1 DEF QueueInv, QueueExact, TicketsConsecutive, QueueOf
<1>2. ASSUME /\ lane'[p].writers = lane[p].writers
             /\ lane'[p].nextTicket = lane[p].nextTicket
             /\ Users(p, "wantWrite")' = Users(p, "wantWrite")
             /\ ticket' = ticket
      PROVE  QueueOf(p)' /\ Consecutive(p)'
    BY <1>0, <1>2, QueueUntouched
<1>3. ASSUME NEW t \in Threads, NEW q \in Paths, WantRead(t, q)
      PROVE  QueueOf(p)' /\ Consecutive(p)'
    <2>1. Users(p, "wantWrite")' = Users(p, "wantWrite")
        BY <1>0, <1>3 DEF WantRead, Users, LaneTypeOK
    <2>2. QED
        BY <1>2, <1>3, <2>1 DEF WantRead
<1>4. ASSUME NEW t \in Threads, AcquireRead(t) \/ DropRead(t) \/ DropWrite(t)
      PROVE  QueueOf(p)' /\ Consecutive(p)'
    <2>1. Users(p, "wantWrite")' = Users(p, "wantWrite")
        BY <1>0, <1>4 DEF AcquireRead, DropRead, DropWrite, Users, LaneTypeOK
    <2>2. lane[p] \in LaneState /\ lane[lanePath[t]] \in LaneState /\ lanePath[t] \in Paths
        BY <1>0 DEF LaneTypeOK
    <2>3. \/ \E n : lane' = [lane EXCEPT ![lanePath[t]].activeReaders = n]
          \/ \E b : lane' = [lane EXCEPT ![lanePath[t]].activeWriter = b]
        BY <1>4 DEF AcquireRead, DropRead, DropWrite
    <2>4. lane'[p].writers = lane[p].writers /\ lane'[p].nextTicket = lane[p].nextTicket
        <3>1. CASE p # lanePath[t]
            BY <1>0, <2>3, <3>1 DEF LaneTypeOK
        <3>2. CASE p = lanePath[t]
            BY <1>0, <2>2, <2>3, <3>2 DEF LaneTypeOK, LaneState
        <3>3. QED
            BY <3>1, <3>2
    <2>5. QED
        BY <1>2, <1>4, <2>1, <2>4 DEF AcquireRead, DropRead, DropWrite
<1>5. ASSUME NEW t \in Threads, Park(t) \/ SpuriousWakeup(t) \/ NotifyLane(t)
      PROVE  QueueOf(p)' /\ Consecutive(p)'
    <2>1. UNCHANGED <<lane, phase, lanePath, ticket>>
        BY <1>5 DEF Park, SpuriousWakeup, NotifyLane
    <2>2. QED
        BY <1>2, <2>1 DEF Users
<1>6. CASE UNCHANGED laneVars
    BY <1>2, <1>6 DEF laneVars, Users
<1>7. QED
    BY <1>3, <1>4, <1>5, <1>6, WantWriteQueue, AcquireWriteQueue DEF LaneNext

-----------------------------------------------------------------------------
(* The theorems. *)

\* The inductive invariant of the lanes holds in every behaviour.
THEOREM LaneInvariant == LaneSpec => []LaneInv
<1>1. LaneInit => LaneInv
    BY LaneInitInv
<1>2. LaneInv /\ [LaneNext]_laneVars => LaneInv'
    BY LaneStepInv
<1>3. QED
    BY <1>1, <1>2, PTL DEF LaneSpec

\* Every LaneState stays well typed; in particular tickets stay in the range
\* of next_ticket and active_readers never goes below zero.
THEOREM LaneTypes == LaneSpec => []LaneTypeOK
<1>1. LaneInv => LaneTypeOK
    BY DEF LaneInv
<1>2. QED
    BY <1>1, LaneInvariant, PTL

\* active_readers and active_writer agree with the permits that are alive, so
\* ReadPermit::drop never saturates.
THEOREM LaneCounters == LaneSpec => []CountersExact
<1>1. LaneInv => CountersExact
    BY DEF LaneInv
<1>2. QED
    BY <1>1, LaneInvariant, PTL

\* A write permit of a file is alone: no second writer, no reader.
THEOREM LaneExclusion == LaneSpec => []Exclusion
<1>1. LaneInv => Exclusion
    BY DEF LaneInv
<1>2. QED
    BY <1>1, LaneInvariant, PTL

\* However the counter wraps, a queued writer has an entry of its own in its lane's
\* queue and a ticket nobody else waits with, if there are at most as many request
\* threads as tickets: 2^64 in the code.
THEOREM LaneQueue ==
    ASSUME TicketsSuffice
    PROVE  LaneSpec => []QueueExact
<1>1. LaneInit => QueueInv
    <2> SUFFICES ASSUME LaneInit PROVE QueueInv
        OBVIOUS
    <2>1. LaneTypeOK
        BY LaneInitInv DEF LaneInv
    <2>2. ASSUME NEW p \in Paths PROVE QueueOf(p) /\ Consecutive(p)
        <3>1. lane[p].writers = <<>> /\ Len(lane[p].writers) = 0
            BY DEF LaneInit, EmptyLane
        <3>2. Users(p, "wantWrite") = {} /\ Cardinality(Users(p, "wantWrite")) = 0
            BY FS_EmptySet DEF LaneInit, Users
        <3>3. QED
            BY <3>1, <3>2 DEF QueueOf, Consecutive
    <2>3. QED
        BY <2>1, <2>2 DEF QueueInv, QueueExact, TicketsConsecutive, QueueOf
<1>2. QueueInv /\ [LaneNext]_laneVars => QueueInv'
    BY QueueStepInv
<1>3. QueueInv => QueueExact
    BY DEF QueueInv
<1>4. QED
    BY <1>1, <1>2, <1>3, PTL DEF LaneSpec

-----------------------------------------------------------------------------
(* The coordinator *)

\* What the records of calls hold at each step.
CallTyped ==
    \A t \in Threads :
        /\ step[t] # "idle" => call[t] \in Call
        /\ step[t] # "idle" /\ call[t].op = "write" => call[t].new \in Contents
        /\ step[t] \in {"commit", "record", "observe"} => call[t].new \in Contents
        /\ step[t] \in {"commit", "record"} => call[t].current \in Disk

\* A call waits at, and then holds, the lane of its own path; from its comparison
\* to its record it holds the write permit.
Holding ==
    \A t \in Threads :
        /\ step[t] = "open" => lanePath[t] = call[t].path
        /\ step[t] \in {"commit", "record"} =>
              phase[t] = "writing" /\ lanePath[t] = call[t].path

CoordinatorInv == TypeOK /\ CallTyped /\ Holding /\ CountersExact /\ Exclusion /\ CommitFresh

-----------------------------------------------------------------------------
(* Contents *)

\* edit leaves a content: the same number of tokens, each from the file or an edit.
LEMMA ApplyEditsType ==
    ASSUME NEW c \in Contents, NEW edits \in Seq(ReplaceEdit)
    PROVE  ApplyEdits(c, edits) \in Contents
<1> SUFFICES ASSUME NEW i \in 1 .. ContentLength
             PROVE  ApplyEdits(c, edits)[i] \in Tokens
    BY DEF ApplyEdits, Contents
<1>1. CASE \E k \in DOMAIN edits : i \in Positions(c, edits[k])
    <2> DEFINE k == CHOOSE k \in DOMAIN edits : i \in Positions(c, edits[k])
    <2>1. k \in DOMAIN edits
        BY <1>1
    <2>2. edits[k] \in ReplaceEdit
        BY <2>1, ElementOfSeq, LenProperties
    <2>3. QED
        BY <1>1, <2>2 DEF ApplyEdits, ReplaceEdit
<1>2. CASE ~ \E k \in DOMAIN edits : i \in Positions(c, edits[k])
    BY <1>2 DEF ApplyEdits, Contents
<1>3. QED
    BY <1>1, <1>2

-----------------------------------------------------------------------------
(* The lanes inside the coordinator *)

\* A step of the coordinator is a step of its lanes, or leaves them alone.
LEMMA LaneStepOfNext ==
    ASSUME CallTyped, [Next]_vars
    PROVE  [LaneNext]_laneVars
<1>1. ASSUME NEW t \in Threads, Begin(t) PROVE [LaneNext]_laneVars
    <2>1. ASSUME NEW a \in Agents, NEW p \in Paths, NEW b \in OfferedBases, BeginRead(t, a, p, b)
          PROVE  [LaneNext]_laneVars
        BY <2>1 DEF BeginRead, LaneNext
    <2>2. ASSUME NEW a \in Agents, NEW p \in Paths, NEW b \in OfferedBases,
                 NEW n \in WriteContents, BeginWrite(t, a, p, b, n)
          PROVE  [LaneNext]_laneVars
        BY <2>2 DEF BeginWrite, BeginChange
    <2>3. ASSUME NEW a \in Agents, NEW p \in Paths, NEW b \in OfferedBases,
                 NEW e \in EditLists, BeginEdit(t, a, p, b, e)
          PROVE  [LaneNext]_laneVars
        BY <2>3 DEF BeginEdit, BeginChange
    <2>4. QED
        BY <1>1, <2>1, <2>2, <2>3 DEF Begin
<1>2. ASSUME NEW t \in Threads, Continue(t) PROVE [LaneNext]_laneVars
    <2>1. CASE Snapshot(t) \/ ReadFile(t) \/ CheckWrite(t) \/ CheckEdit(t)
                \/ Commit(t) \/ ReportRead(t)
        BY <2>1 DEF Snapshot, ReadFile, CheckWrite, CheckEdit, Commit, ReportRead
    <2>2. CASE Enqueue(t)
        <3>1. call[t].path \in Paths
            BY <2>2 DEF Enqueue, CallTyped, Call
        <3>2. QED
            BY <2>2, <3>1 DEF Enqueue, LaneNext
    <2>3. CASE LaneStep(t)
        BY <2>3 DEF LaneStep, LaneNext
    <2>4. CASE ReportChange(t)
        BY <2>4 DEF ReportChange, LaneNext
    <2>5. CASE Release(t)
        BY <2>5 DEF Release, LaneNext
    <2>6. QED
        BY <1>2, <2>1, <2>2, <2>3, <2>4, <2>5 DEF Continue
<1>3. ASSUME NEW p \in Paths, NEW c \in BypassContents, Bypass(p, c) PROVE [LaneNext]_laneVars
    BY <1>3 DEF Bypass
<1>4. CASE UNCHANGED vars
    BY <1>4 DEF vars
<1>5. QED
    BY <1>1, <1>2, <1>3, <1>4 DEF Next

-----------------------------------------------------------------------------
(* Types: DataTypeOK is TypeOK without its part about the lanes. *)

DataTypeOK ==
    /\ file \in [Paths -> Disk]
    /\ observed \in [Agents -> [Paths -> Contents \cup {None}]]
    /\ mutations \in [Paths -> Seq(MutationRecord)]
    /\ \A p \in Paths : Len(mutations[p]) <= MutationLimit
    /\ step \in [Threads -> Steps]
    /\ call \in [Threads -> Call \cup {NoCall}]
    /\ tampered \subseteq Paths

LEMMA TypeParts == TypeOK <=> LaneTypeOK /\ DataTypeOK
BY DEF TypeOK, DataTypeOK

\* The ring keeps its type and its limit (record_mutation).
LEMMA PushedType ==
    ASSUME NEW ring \in Seq(MutationRecord), Len(ring) <= MutationLimit,
           NEW m \in MutationRecord
    PROVE  Pushed(ring, m) \in Seq(MutationRecord) /\ Len(Pushed(ring, m)) <= MutationLimit
<1>0. MutationLimit \in Nat /\ MutationLimit > 0 /\ Len(ring) \in Nat
    BY CoordinatorAssumption, LenProperties
<1>1. CASE Len(ring) >= MutationLimit
    <2>1. ring # <<>>
        BY <1>0, <1>1, EmptySeq
    <2>2. Tail(ring) \in Seq(MutationRecord) /\ Len(Tail(ring)) = Len(ring) - 1
        BY <2>1, HeadTailProperties
    <2>3. /\ Append(Tail(ring), m) \in Seq(MutationRecord)
          /\ Len(Append(Tail(ring), m)) = Len(Tail(ring)) + 1
        BY <2>2, AppendProperties
    <2>4. QED
        BY <1>0, <1>1, <2>2, <2>3 DEF Pushed
<1>2. CASE ~(Len(ring) >= MutationLimit)
    <2>1. Append(ring, m) \in Seq(MutationRecord) /\ Len(Append(ring, m)) = Len(ring) + 1
        BY AppendProperties
    <2>2. QED
        BY <1>0, <1>2, <2>1 DEF Pushed
<1>3. QED
    BY <1>1, <1>2

\* A call as the head of read, write and edit sets it up.
LEMMA BeginChangeType ==
    ASSUME DataTypeOK, CallTyped, NEW t \in Threads, NEW a \in Agents, NEW p \in Paths,
           NEW op \in {"write", "edit"}, NEW base \in OfferedBases,
           NEW edits \in Seq(ReplaceEdit), NEW new \in Contents \cup {None},
           op = "write" => new \in Contents,
           BeginChange(t, a, p, op, base, edits, new)
    PROVE  DataTypeOK' /\ CallTyped'
<1> DEFINE e == IF base # None THEN base ELSE observed[a][p]
           c == [agent |-> a, path |-> p, op |-> op, base |-> base, expected |-> e,
                 edits |-> edits, current |-> None, new |-> new]
<1>1. base \in Contents \cup {None} /\ e \in Contents \cup {None}
    BY CoordinatorAssumption DEF DataTypeOK
<1>2. c \in Call
    BY <1>1 DEF Call, Ops, Disk
<1>3. call' = [call EXCEPT ![t] = c]
    BY DEF BeginChange
<1>4. step'[t] \in {"snapshot", "queue"} /\ step' = [step EXCEPT ![t] = step'[t]]
    BY DEF BeginChange, GoTo, DataTypeOK
<1> HIDE DEF c, e
<1>5. c.op = op /\ c.new = new
    BY DEF c
<1>6. call' \in [Threads -> Call \cup {NoCall}] /\ step' \in [Threads -> Steps]
    BY <1>2, <1>3, <1>4 DEF DataTypeOK, Steps
<1>7. DataTypeOK'
    BY <1>6 DEF BeginChange, DataTypeOK
<1>8. CallTyped'
    BY <1>2, <1>3, <1>4, <1>5 DEF CallTyped, DataTypeOK
<1>9. QED
    BY <1>7, <1>8

LEMMA BeginType ==
    ASSUME DataTypeOK, CallTyped, NEW t \in Threads, Begin(t)
    PROVE  DataTypeOK' /\ CallTyped'
<1>1. ASSUME NEW a \in Agents, NEW p \in Paths, NEW b \in OfferedBases, BeginRead(t, a, p, b)
      PROVE  DataTypeOK' /\ CallTyped'
    <2> DEFINE c == [agent |-> a, path |-> p, op |-> "read", base |-> b, expected |-> None,
                     edits |-> <<>>, current |-> None, new |-> None]
    <2>1. c \in Call
        BY CoordinatorAssumption, EmptySeq DEF Call, Ops
    <2>2. call' = [call EXCEPT ![t] = c] /\ step' = [step EXCEPT ![t] = "open"]
        BY <1>1 DEF BeginRead, GoTo
    <2>3. c.op = "read"
        OBVIOUS
    <2> HIDE DEF c
    <2>4. DataTypeOK'
        BY <1>1, <2>1, <2>2 DEF BeginRead, DataTypeOK, Steps
    <2>5. CallTyped'
        BY <2>1, <2>2, <2>3 DEF CallTyped, DataTypeOK
    <2>6. QED
        BY <2>4, <2>5
<1>2. ASSUME NEW a \in Agents, NEW p \in Paths, NEW b \in OfferedBases,
             NEW n \in WriteContents, BeginWrite(t, a, p, b, n)
      PROVE  DataTypeOK' /\ CallTyped'
    <2>1. n \in Contents
        BY CoordinatorAssumption
    <2>2. <<>> \in Seq(ReplaceEdit)
        BY EmptySeq
    <2>3. QED
        BY <1>2, <2>1, <2>2, BeginChangeType DEF BeginWrite
<1>3. ASSUME NEW a \in Agents, NEW p \in Paths, NEW b \in OfferedBases,
             NEW e \in EditLists, BeginEdit(t, a, p, b, e)
      PROVE  DataTypeOK' /\ CallTyped'
    <2>1. e \in Seq(ReplaceEdit)
        BY CoordinatorAssumption
    <2>2. QED
        BY <1>3, <2>1, BeginChangeType DEF BeginEdit
<1>4. QED
    BY <1>1, <1>2, <1>3 DEF Begin

\* A call that changes some of its locals and goes on to another step.
LEMMA ContinueType ==
    ASSUME LaneTypeOK, DataTypeOK, CallTyped, NEW t \in Threads, Continue(t)
    PROVE  DataTypeOK' /\ CallTyped'
<1>0. /\ step[t] # "idle" => call[t] \in Call
      /\ call[t] \in Call => call[t].path \in Paths /\ file[call[t].path] \in Disk
    BY DEF CallTyped, Call, DataTypeOK
<1>1. CASE Snapshot(t)
    <2>1. CASE /\ call' = [call EXCEPT ![t].expected = file[call[t].path]]
               /\ step' = [step EXCEPT ![t] = "queue"]
        <3>1. call'[t] \in Call /\ call'[t].op = call[t].op /\ call'[t].new = call[t].new
            BY <1>0, <1>1, <2>1 DEF Snapshot, DataTypeOK, Call
        <3>2. DataTypeOK'
            BY <1>1, <2>1, <3>1 DEF Snapshot, DataTypeOK, Steps
        <3>3. CallTyped'
            BY <1>1, <2>1, <3>1 DEF Snapshot, CallTyped, DataTypeOK
        <3>4. QED
            BY <3>2, <3>3
    <2>2. CASE call' = [call EXCEPT ![t] = NoCall] /\ step' = [step EXCEPT ![t] = "idle"]
        <3>1. DataTypeOK'
            BY <1>1, <2>2 DEF Snapshot, DataTypeOK, Steps
        <3>2. CallTyped'
            BY <2>2 DEF CallTyped, DataTypeOK
        <3>3. QED
            BY <3>1, <3>2
    <2>3. QED
        BY <1>1, <2>1, <2>2 DEF Snapshot, GoTo
<1>2. CASE Enqueue(t)
    <2>1. DataTypeOK'
        BY <1>2 DEF Enqueue, GoTo, DataTypeOK, Steps
    <2>2. CallTyped'
        BY <1>2 DEF Enqueue, GoTo, CallTyped, DataTypeOK
    <2>3. QED
        BY <2>1, <2>2
<1>3. CASE LaneStep(t)
    BY <1>3 DEF LaneStep, DataTypeOK, CallTyped
<1>4. CASE ReadFile(t)
    <2>1. CASE /\ file[call[t].path] # Absent
               /\ call' = [call EXCEPT ![t].new = file[call[t].path]]
               /\ step' = [step EXCEPT ![t] = "observe"]
        <3>1. file[call[t].path] \in Contents
            BY <1>0, <1>4, <2>1 DEF ReadFile, Disk
        <3>2. call'[t] \in Call /\ call'[t].new \in Contents
            BY <1>0, <1>4, <2>1, <3>1 DEF ReadFile, DataTypeOK, Call
        <3>3. DataTypeOK'
            BY <1>4, <2>1, <3>2 DEF ReadFile, DataTypeOK, Steps
        <3>4. CallTyped'
            BY <2>1, <3>2 DEF CallTyped, DataTypeOK
        <3>5. QED
            BY <3>3, <3>4
    <2>2. CASE UNCHANGED call /\ step' = [step EXCEPT ![t] = "release"]
        <3>1. DataTypeOK'
            BY <1>4, <2>2 DEF ReadFile, DataTypeOK, Steps
        <3>2. CallTyped'
            BY <1>4, <2>2 DEF ReadFile, CallTyped, DataTypeOK
        <3>3. QED
            BY <3>1, <3>2
    <2>3. QED
        BY <1>4, <2>1, <2>2 DEF ReadFile, GoTo
<1>5. CASE CheckWrite(t)
    <2>1. /\ call' = [call EXCEPT ![t].current = file[call[t].path]]
          /\ step'[t] \in {"commit", "release"} /\ step' = [step EXCEPT ![t] = step'[t]]
        BY <1>5 DEF CheckWrite, GoTo, DataTypeOK
    <2>0. /\ call[t] \in Call /\ file[call[t].path] \in Disk
          /\ call[t].op = "write" /\ call[t].new \in Contents
        BY <1>0, <1>5 DEF CheckWrite, CallTyped
    <2>2. /\ call'[t] \in Call /\ call'[t].current \in Disk
          /\ call'[t].op = "write" /\ call'[t].new \in Contents
        BY <2>0, <2>1 DEF DataTypeOK, Call
    <2>3. DataTypeOK'
        BY <1>5, <2>1, <2>2 DEF CheckWrite, DataTypeOK, Steps
    <2>4. CallTyped'
        BY <2>1, <2>2 DEF CallTyped, DataTypeOK
    <2>5. QED
        BY <2>3, <2>4
<1>6. CASE CheckEdit(t)
    <2> DEFINE now == file[call[t].path]
    <2>0. call[t] \in Call /\ now \in Disk /\ call[t].edits \in Seq(ReplaceEdit)
          /\ call[t].op = "edit"
        BY <1>0, <1>6 DEF CheckEdit, Call
    <2>1. CASE now # Absent /\ EditOutcome(now, call[t].edits) = "ok"
        <3>1. now \in Contents
            BY <2>0, <2>1 DEF Disk
        <3>2. ApplyEdits(now, call[t].edits) \in Contents
            BY <2>0, <3>1, ApplyEditsType
        <3>3. /\ call' = [call EXCEPT ![t].current = now,
                                      ![t].new = ApplyEdits(now, call[t].edits)]
              /\ step' = [step EXCEPT ![t] = "commit"]
            BY <1>6, <2>1 DEF CheckEdit, GoTo
        <3>4. /\ call'[t] \in Call /\ call'[t].current \in Disk
              /\ call'[t].new \in Contents
            BY <2>0, <3>2, <3>3 DEF DataTypeOK, Call
        <3>5. DataTypeOK'
            BY <1>6, <3>3, <3>4 DEF CheckEdit, DataTypeOK, Steps
        <3>6. CallTyped'
            BY <3>3, <3>4 DEF CallTyped, DataTypeOK
        <3>7. QED
            BY <3>5, <3>6
    <2>2. CASE ~(now # Absent /\ EditOutcome(now, call[t].edits) = "ok")
        <3>1. /\ call' = [call EXCEPT ![t].current = now]
              /\ step' = [step EXCEPT ![t] = "release"]
            BY <1>6, <2>2 DEF CheckEdit, GoTo
        <3>2. call'[t] \in Call /\ call'[t].op = "edit"
            BY <2>0, <3>1 DEF DataTypeOK, Call
        <3>3. DataTypeOK'
            BY <1>6, <3>1, <3>2 DEF CheckEdit, DataTypeOK, Steps
        <3>4. CallTyped'
            BY <3>1, <3>2 DEF CallTyped, DataTypeOK
        <3>5. QED
            BY <3>3, <3>4
    <2>3. QED
        BY <2>1, <2>2
<1>7. CASE Commit(t)
    <2>1. call[t].new \in Contents /\ call[t].current \in Disk
        BY <1>7 DEF Commit, CallTyped
    <2>2. file' \in [Paths -> Disk]
        BY <1>0, <1>7, <2>1 DEF Commit, DataTypeOK, Disk
    <2>3. step'[t] \in {"record", "release"} /\ step' = [step EXCEPT ![t] = step'[t]]
        BY <1>7 DEF Commit, GoTo, DataTypeOK
    <2>4. DataTypeOK'
        BY <1>7, <2>2, <2>3 DEF Commit, DataTypeOK, Steps
    <2>5. CallTyped'
        BY <1>7, <2>1, <2>3 DEF Commit, CallTyped, DataTypeOK
    <2>6. QED
        BY <2>4, <2>5
<1>8. ASSUME step[t] \in {"record", "observe"}, Observing(call[t])
      PROVE  observed' \in [Agents -> [Paths -> Contents \cup {None}]]
    <2>1. call[t].new \in Contents /\ call[t].agent \in Agents
        BY <1>0, <1>8 DEF CallTyped, Call
    <2>2. QED
        BY <1>8, <2>1 DEF Observing, DataTypeOK
<1>9. CASE ReportRead(t)
    <2>1. DataTypeOK'
        BY <1>8, <1>9 DEF ReportRead, GoTo, DataTypeOK, Steps
    <2>2. CallTyped'
        BY <1>9 DEF ReportRead, GoTo, CallTyped, DataTypeOK
    <2>3. QED
        BY <2>1, <2>2
<1>10. CASE ReportChange(t)
    <2> DEFINE m == [before |-> IF call[t].current = Absent THEN Empty ELSE call[t].current,
                     after |-> call[t].new]
               p == call[t].path
    <2>1. m \in MutationRecord
        BY <1>10 DEF ReportChange, CallTyped, MutationRecord, Disk
    <2>2. mutations' = [mutations EXCEPT ![p] = Pushed(mutations[p], m)]
        BY <1>10 DEF ReportChange
    <2>3. /\ Pushed(mutations[p], m) \in Seq(MutationRecord)
          /\ Len(Pushed(mutations[p], m)) <= MutationLimit
        BY <1>0, <1>10, <2>1, PushedType DEF ReportChange, DataTypeOK
    <2> HIDE DEF m
    <2>4. /\ mutations' \in [Paths -> Seq(MutationRecord)]
          /\ \A q \in Paths : Len(mutations'[q]) <= MutationLimit
        BY <2>2, <2>3 DEF DataTypeOK
    <2>5. DataTypeOK'
        BY <1>8, <1>10, <2>4 DEF ReportChange, GoTo, DataTypeOK, Steps
    <2>6. CallTyped'
        BY <1>10 DEF ReportChange, GoTo, CallTyped, DataTypeOK
    <2>7. QED
        BY <2>5, <2>6
<1>11. CASE Release(t)
    <2>1. DataTypeOK'
        BY <1>11 DEF Release, GoTo, DataTypeOK, Steps
    <2>2. CallTyped'
        BY <1>11 DEF Release, GoTo, CallTyped, DataTypeOK
    <2>3. QED
        BY <2>1, <2>2
<1>12. QED
    BY <1>1, <1>2, <1>3, <1>4, <1>5, <1>6, <1>7, <1>9, <1>10, <1>11 DEF Continue

LEMMA StepTypes ==
    ASSUME TypeOK, CallTyped, [Next]_vars
    PROVE  TypeOK' /\ CallTyped'
<1>1. LaneTypeOK /\ DataTypeOK
    BY TypeParts
<1>2. LaneTypeOK'
    BY <1>1, LaneStepOfNext, LaneStepType
<1>3. DataTypeOK' /\ CallTyped'
    <2>1. ASSUME NEW p \in Paths, NEW c \in BypassContents, Bypass(p, c)
          PROVE  DataTypeOK' /\ CallTyped'
        <3>1. c \in Disk
            BY CoordinatorAssumption
        <3>2. QED
            BY <1>1, <2>1, <3>1 DEF Bypass, DataTypeOK, CallTyped
    <2>2. CASE UNCHANGED vars
        BY <1>1, <2>2 DEF vars, DataTypeOK, CallTyped
    <2>3. QED
        BY <1>1, <2>1, <2>2, BeginType, ContinueType DEF Next
<1>4. QED
    BY <1>2, <1>3, TypeParts DEF TypeOK, DataTypeOK, LaneTypeOK

-----------------------------------------------------------------------------
(* Holding and CommitFresh *)

\* A step of the coordinator keeps the tie between step and permit.
LEMMA StepHolding ==
    ASSUME TypeOK, CallTyped, Holding, [Next]_vars
    PROVE  Holding'
<1>0. LaneTypeOK /\ DataTypeOK
    BY TypeParts
<1>1. ASSUME NEW t \in Threads, Begin(t) PROVE Holding'
    <2>1. ASSUME NEW a \in Agents, NEW p \in Paths, NEW b \in OfferedBases, BeginRead(t, a, p, b)
          PROVE  Holding'
        BY <1>0, <2>1 DEF BeginRead, GoTo, WantRead, Holding, DataTypeOK, LaneTypeOK
    <2>2. ASSUME NEW a, NEW p, NEW op, NEW b, NEW e, NEW n, BeginChange(t, a, p, op, b, e, n)
          PROVE  Holding'
        BY <1>0, <2>2 DEF BeginChange, GoTo, laneVars, Holding, DataTypeOK
    <2>3. QED
        BY <1>1, <2>1, <2>2 DEF Begin, BeginWrite, BeginEdit
<1>2. ASSUME NEW t \in Threads, Continue(t) PROVE Holding'
    <2>1. CASE Snapshot(t)
        BY <1>0, <2>1 DEF Snapshot, GoTo, laneVars, Holding, DataTypeOK
    <2>2. CASE Enqueue(t)
        BY <1>0, <2>2 DEF Enqueue, GoTo, WantWrite, Holding, DataTypeOK, LaneTypeOK
    <2>3. CASE LaneStep(t)
        BY <1>0, <2>3 DEF LaneStep, AcquireRead, AcquireWrite, Park, SpuriousWakeup, Holding,
                          LaneTypeOK
    <2>4. CASE ReadFile(t)
        BY <1>0, <2>4 DEF ReadFile, GoTo, laneVars, Holding, DataTypeOK
    <2>5. CASE CheckWrite(t)
        <3>1. /\ lanePath[t] = call[t].path /\ call'[t].path = call[t].path
              /\ phase[t] = "writing"
            BY <1>0, <2>5 DEF CheckWrite, Holding, DataTypeOK, CallTyped, Call
        <3>2. QED
            BY <1>0, <2>5, <3>1 DEF CheckWrite, GoTo, laneVars, Holding, DataTypeOK
    <2>6. CASE CheckEdit(t)
        <3>1. /\ lanePath[t] = call[t].path /\ call'[t].path = call[t].path
              /\ phase[t] = "writing"
            BY <1>0, <2>6 DEF CheckEdit, Holding, DataTypeOK, CallTyped, Call
        <3>2. QED
            BY <1>0, <2>6, <3>1 DEF CheckEdit, GoTo, laneVars, Holding, DataTypeOK
    <2>7. CASE Commit(t)
        BY <1>0, <2>7 DEF Commit, GoTo, laneVars, Holding, DataTypeOK
    <2>8. CASE ReportRead(t)
        BY <1>0, <2>8 DEF ReportRead, GoTo, laneVars, Holding, DataTypeOK
    <2>9. CASE ReportChange(t)
        BY <1>0, <2>9 DEF ReportChange, GoTo, NotifyLane, Holding, DataTypeOK
    <2>10. CASE Release(t)
        BY <1>0, <2>10 DEF Release, GoTo, DropRead, DropWrite, Holding, DataTypeOK, LaneTypeOK
    <2>11. QED
        BY <1>2, <2>1, <2>2, <2>3, <2>4, <2>5, <2>6, <2>7, <2>8, <2>9, <2>10 DEF Continue
<1>3. ASSUME NEW p \in Paths, NEW c \in BypassContents, Bypass(p, c) PROVE Holding'
    BY <1>3 DEF Bypass, laneVars, Holding
<1>4. CASE UNCHANGED vars
    BY <1>4 DEF vars, laneVars, Holding
<1>5. QED
    BY <1>1, <1>2, <1>3, <1>4 DEF Next

\* What CommitFresh says of one thread.
Fresh(t) ==
    (step[t] = "commit" /\ call[t].path \notin tampered) =>
        /\ file[call[t].path] = call[t].current
        /\ call[t].op = "write" => call[t].expected = call[t].current
        /\ call[t].op = "edit" => call[t].new = ApplyEdits(call[t].current, call[t].edits)

LEMMA FreshAll == CommitFresh <=> \A t \in Threads : Fresh(t)
BY DEF CommitFresh, Fresh

\* A thread whose call, step and file no other thread's action touches stays fresh.
LEMMA FreshUntouched ==
    ASSUME NEW t, Fresh(t), step'[t] = step[t], call'[t] = call[t], tampered' = tampered,
           file'[call[t].path] = file[call[t].path]
    PROVE  Fresh(t)'
BY DEF Fresh

\* A thread that is not about to commit is fresh.
LEMMA FreshElsewhere ==
    ASSUME NEW t, step'[t] # "commit"
    PROVE  Fresh(t)'
BY DEF Fresh

LEMMA StepFresh ==
    ASSUME CoordinatorInv, [Next]_vars
    PROVE  CommitFresh'
<1> SUFFICES ASSUME NEW u \in Threads PROVE Fresh(u)'
    BY DEF CommitFresh, Fresh
<1>0. LaneTypeOK /\ DataTypeOK /\ CallTyped /\ Holding /\ Exclusion /\ Fresh(u)
    BY TypeParts, FreshAll DEF CoordinatorInv
<1>1. ASSUME NEW t \in Threads, Begin(t) PROVE Fresh(u)'
    <2>1. /\ UNCHANGED <<file, tampered>> /\ step'[t] # "commit"
          /\ u # t => step'[u] = step[u] /\ call'[u] = call[u]
        BY <1>0, <1>1 DEF Begin, BeginRead, BeginWrite, BeginEdit, BeginChange, GoTo, DataTypeOK
    <2>2. QED
        BY <1>0, <2>1, FreshUntouched, FreshElsewhere
<1>2. ASSUME NEW t \in Threads, Continue(t) PROVE Fresh(u)'
    <2>1. CASE Snapshot(t)
        <3>1. /\ UNCHANGED <<file, tampered>> /\ step'[t] # "commit"
              /\ u # t => step'[u] = step[u] /\ call'[u] = call[u]
            BY <1>0, <2>1 DEF Snapshot, GoTo, DataTypeOK
        <3>2. QED
            BY <1>0, <3>1, FreshUntouched, FreshElsewhere
    <2>2. CASE Enqueue(t)
        <3>1. /\ UNCHANGED <<file, tampered, call>> /\ step'[t] # "commit"
              /\ u # t => step'[u] = step[u]
            BY <1>0, <2>2 DEF Enqueue, GoTo, DataTypeOK
        <3>2. QED
            BY <1>0, <3>1, FreshUntouched, FreshElsewhere
    <2>3. CASE LaneStep(t)
        BY <1>0, <2>3, FreshUntouched DEF LaneStep
    <2>4. CASE ReadFile(t)
        <3>1. /\ UNCHANGED <<file, tampered>> /\ step'[t] # "commit"
              /\ u # t => step'[u] = step[u] /\ call'[u] = call[u]
            BY <1>0, <2>4 DEF ReadFile, GoTo, DataTypeOK
        <3>2. QED
            BY <1>0, <3>1, FreshUntouched, FreshElsewhere
    <2>5. CASE CheckWrite(t)
        <3>1. CASE u = t
            <4>1. call[t] \in Call /\ call[t].op = "write"
                BY <1>0, <2>5 DEF CheckWrite, CallTyped
            <4>2. call'[t] = [call[t] EXCEPT !.current = file[call[t].path]] /\ file' = file
                BY <1>0, <2>5 DEF CheckWrite, DataTypeOK
            <4>3. /\ call'[t].op = "write" /\ call'[t].path = call[t].path
                  /\ call'[t].current = file[call[t].path]
                  /\ call'[t].expected = call[t].expected
                BY <4>1, <4>2 DEF Call
            <4>4. step'[t] = "commit" => call[t].expected = file[call[t].path]
                BY <1>0, <2>5 DEF CheckWrite, GoTo, DataTypeOK
            <4>5. QED
                BY <3>1, <4>2, <4>3, <4>4 DEF Fresh
        <3>2. CASE u # t
            BY <1>0, <2>5, <3>2, FreshUntouched DEF CheckWrite, GoTo, DataTypeOK
        <3>3. QED
            BY <3>1, <3>2
    <2>6. CASE CheckEdit(t)
        <3>1. CASE u = t /\ step'[t] = "commit"
            <4> DEFINE now == file[call[t].path]
                       applied == ApplyEdits(now, call[t].edits)
            <4>1. call[t] \in Call /\ call[t].op = "edit"
                BY <1>0, <2>6 DEF CheckEdit, CallTyped
            <4>2. now # Absent /\ EditOutcome(now, call[t].edits) = "ok"
                BY <1>0, <2>6, <3>1 DEF CheckEdit, GoTo, DataTypeOK
            <4>3. call' = [call EXCEPT ![t].current = now, ![t].new = applied] /\ file' = file
                BY <2>6, <4>2 DEF CheckEdit
            <4> HIDE DEF now, applied
            <4>4. /\ call'[t].op = "edit" /\ call'[t].path = call[t].path
                  /\ call'[t].current = now /\ call'[t].new = applied
                  /\ call'[t].edits = call[t].edits
                BY <1>0, <4>1, <4>3 DEF DataTypeOK, Call
            <4>5. QED
                BY <3>1, <4>3, <4>4 DEF Fresh, now, applied
        <3>2. CASE u = t /\ step'[t] # "commit"
            BY <3>2, FreshElsewhere
        <3>3. CASE u # t
            <4>1. /\ UNCHANGED <<file, tampered>>
                  /\ step'[u] = step[u] /\ call'[u] = call[u]
                BY <1>0, <2>6, <3>3 DEF CheckEdit, GoTo, DataTypeOK
            <4>2. QED
                BY <1>0, <4>1, FreshUntouched
        <3>4. QED
            BY <3>1, <3>2, <3>3
    <2>7. CASE Commit(t)
        <3>1. CASE u = t
            <4>1. step'[t] # "commit"
                BY <1>0, <2>7 DEF Commit, GoTo, DataTypeOK
            <4>2. QED
                BY <3>1, <4>1, FreshElsewhere
        <3>2. CASE u # t /\ step[u] = "commit"
            <4>1. call[u].path # call[t].path
                BY <1>0, <2>7, <3>2 DEF Commit, Holding, Exclusion
            <4>2. file'[call[u].path] = file[call[u].path]
                <5>1. call[u].path \in Paths /\ file \in [Paths -> Disk]
                    BY <1>0, <3>2 DEF CallTyped, Call, DataTypeOK
                <5>2. \/ file' = [file EXCEPT ![call[t].path] = call[t].new]
                      \/ file' = file
                    BY <2>7 DEF Commit
                <5>3. QED
                    BY <4>1, <5>1, <5>2
            <4>3. UNCHANGED <<call, tampered>> /\ step'[u] = step[u]
                BY <1>0, <2>7, <3>2 DEF Commit, GoTo, DataTypeOK
            <4>4. QED
                BY <1>0, <4>2, <4>3, FreshUntouched
        <3>3. CASE u # t /\ step[u] # "commit"
            <4>1. step'[u] = step[u]
                BY <1>0, <2>7, <3>3 DEF Commit, GoTo, DataTypeOK
            <4>2. QED
                BY <3>3, <4>1, FreshElsewhere
        <3>4. QED
            BY <3>1, <3>2, <3>3
    <2>8. CASE ReportRead(t) \/ ReportChange(t)
        <3>1. /\ UNCHANGED <<file, tampered, call>> /\ step'[t] # "commit"
              /\ u # t => step'[u] = step[u]
            BY <1>0, <2>8 DEF ReportRead, ReportChange, GoTo, DataTypeOK
        <3>2. QED
            BY <1>0, <3>1, FreshUntouched, FreshElsewhere
    <2>9. CASE Release(t)
        <3>1. /\ UNCHANGED <<file, tampered>> /\ step'[t] # "commit"
              /\ u # t => step'[u] = step[u] /\ call'[u] = call[u]
            BY <1>0, <2>9 DEF Release, GoTo, DataTypeOK
        <3>2. QED
            BY <1>0, <3>1, FreshUntouched, FreshElsewhere
    <2>10. QED
        BY <1>2, <2>1, <2>2, <2>3, <2>4, <2>5, <2>6, <2>7, <2>8, <2>9 DEF Continue
<1>3. ASSUME NEW p \in Paths, NEW c \in BypassContents, Bypass(p, c) PROVE Fresh(u)'
    <2>1. file' = [file EXCEPT ![p] = c] /\ tampered' = tampered \cup {p} /\ UNCHANGED <<step, call>>
        BY <1>3 DEF Bypass
    <2>2. CASE call[u].path = p
        BY <2>1, <2>2 DEF Fresh
    <2>3. CASE call[u].path # p
        <3>1. file'[call[u].path] = file[call[u].path]
            BY <1>0, <2>1, <2>3 DEF DataTypeOK
        <3>2. QED
            BY <1>0, <2>1, <2>3, <3>1 DEF Fresh
    <2>4. QED
        BY <2>2, <2>3
<1>4. CASE UNCHANGED vars
    BY <1>0, <1>4, FreshUntouched DEF vars
<1>5. QED
    BY <1>1, <1>2, <1>3, <1>4 DEF Next

-----------------------------------------------------------------------------
(* The theorems. *)

LEMMA CoordinatorInitInv == Init => CoordinatorInv
<1> SUFFICES ASSUME Init PROVE CoordinatorInv
    OBVIOUS
<1>1. LaneInv
    BY LaneInitInv DEF Init
<1>2. DataTypeOK
    <2>1. file \in [Paths -> Disk]
        BY CoordinatorAssumption DEF Init
    <2>2. /\ mutations \in [Paths -> Seq(MutationRecord)]
          /\ \A p \in Paths : Len(mutations[p]) <= MutationLimit
        BY CoordinatorAssumption, EmptySeq DEF Init
    <2>3. QED
        BY <2>1, <2>2 DEF Init, DataTypeOK, Steps
<1>3. CallTyped /\ Holding /\ CommitFresh
    BY DEF Init, CallTyped, Holding, CommitFresh
<1>4. QED
    BY <1>1, <1>2, <1>3, TypeParts DEF CoordinatorInv, LaneInv

LEMMA CoordinatorStepInv ==
    ASSUME CoordinatorInv, [Next]_vars
    PROVE  CoordinatorInv'
<1>1. TypeOK' /\ CallTyped'
    BY StepTypes DEF CoordinatorInv
<1>2. Holding'
    BY StepHolding DEF CoordinatorInv
<1>3. LaneInv /\ [LaneNext]_laneVars
    BY LaneStepOfNext, TypeParts DEF CoordinatorInv, LaneInv
<1>4. CountersExact' /\ Exclusion'
    BY <1>3, LaneStepCounters, LaneStepExclusion
<1>5. QED
    BY <1>1, <1>2, <1>4, StepFresh DEF CoordinatorInv

\* The inductive invariant of the coordinator holds in every behaviour.
THEOREM CoordinatorInvariant == Spec => []CoordinatorInv
<1>1. Init => CoordinatorInv
    BY CoordinatorInitInv
<1>2. CoordinatorInv /\ [Next]_vars => CoordinatorInv'
    BY CoordinatorStepInv
<1>3. QED
    BY <1>1, <1>2, PTL DEF Spec

\* The state of the coordinator stays well typed, its mutation rings bounded.
THEOREM CoordinatorTypes == Spec => []TypeOK
<1>1. CoordinatorInv => TypeOK
    BY DEF CoordinatorInv
<1>2. QED
    BY <1>1, CoordinatorInvariant, PTL

\* No write or edit goes by an outdated look at its file: what a call compared or
\* edited is what is on disk when the call replaces it.
THEOREM CoordinatorFresh == Spec => []CommitFresh
<1>1. CoordinatorInv => CommitFresh
    BY DEF CoordinatorInv
<1>2. QED
    BY <1>1, CoordinatorInvariant, PTL

\* The coordinator uses its lanes only as FileLane says: it implements LaneSpec.
THEOREM CoordinatorImplementsLanes == Spec => LaneSpec
<1>1. Init => LaneInit
    BY DEF Init
<1>2. CoordinatorInv /\ [Next]_vars => [LaneNext]_laneVars
    BY LaneStepOfNext DEF CoordinatorInv
<1>3. QED
    BY <1>1, <1>2, CoordinatorInvariant, PTL DEF Spec, LaneSpec

-----------------------------------------------------------------------------
(* The history of a file.  Neither HistoryChain nor ConflictExplained is    *)
(* inductive.  The chain needs what a call that has committed, but not yet  *)
(* recorded its change, knows (Recording) and that only one such call can   *)
(* be at a file (Permits).  A conflict is explained because a file that has *)
(* no recorded change has not changed at all (Unchanged), and because a     *)
(* refused write has just looked at the file (Refused).                     *)

\* From its look at the file until it returns a call has a permit of that file; a call
\* with a read permit is a read.
Permits ==
    \A t \in Threads :
        /\ step[t] \in {"commit", "record", "observe", "release"} =>
              phase[t] \in {"reading", "writing"} /\ lanePath[t] = call[t].path
        /\ step[t] = "open" /\ phase[t] \in {"wantRead", "reading"} => call[t].op = "read"
        /\ step[t] = "observe" => call[t].op = "read"

\* A change of file p is on disk, but not in the ring yet.
InFlight(p) == \E t \in Threads : step[t] = "record" /\ call[t].path = p

\* HistoryChain, of one path.
ChainOf(p) ==
    LET ring == mutations[p] IN
    /\ \A i \in 1 .. Len(ring) - 1 : ring[i].after = ring[i + 1].before
    /\ (ring # <<>> /\ ~InFlight(p)) => ring[Len(ring)].after = file[p]

\* What the change in flight replaced is what the last record left.
Recording(t) ==
    (step[t] = "record" /\ call[t].path \notin tampered) =>
        LET ring == mutations[call[t].path] IN
        /\ file[call[t].path] = call[t].new
        /\ ring # <<>> => ring[Len(ring)].after = call[t].current
        /\ call[t].op = "write" => call[t].expected = call[t].current

\* What call t takes file p to hold, without a word of its caller.
Holds(t, p) ==
    step[t] # "idle" /\ call[t].path = p =>
        /\ step[t] = "observe" => call[t].new = file[p]
        /\ step[t] \in {"queue", "open", "commit", "release"}
           /\ call[t].op = "write" /\ call[t].base = None => call[t].expected = file[p]

\* As long as no change of a file is on record or in flight, every revision of it that an
\* agent or a call has seen is the one on disk.
Unchanged(p) ==
    (mutations[p] = <<>> /\ ~InFlight(p)) =>
        /\ \A a \in Agents : observed[a][p] \in {None, file[p]}
        /\ \A t \in Threads : Holds(t, p)

\* A write that is refused still has the file as it looked at it.
Refused(t) ==
    ( /\ step[t] = "release" /\ call[t].op = "write"
      /\ call[t].path \notin tampered /\ call[t].expected # call[t].current )
    => call[t].current = file[call[t].path]

HistoryInv ==
    /\ CoordinatorInv
    /\ Permits
    /\ \A p \in Paths \ tampered : ChainOf(p) /\ Unchanged(p)
    /\ \A t \in Threads : Recording(t) /\ Refused(t)

\* The atomic steps of a thread, by what they do to the file and its history.
Change(t) == Commit(t) /\ step'[t] = "record"
GiveUp(t) == Commit(t) /\ step'[t] = "release"
Quiet(t) ==
    \/ Begin(t) \/ Snapshot(t) \/ Enqueue(t) \/ LaneStep(t)
    \/ ReadFile(t) \/ CheckWrite(t) \/ CheckEdit(t)
    \/ GiveUp(t) \/ ReportRead(t) \/ Release(t)

LEMMA StepKinds ==
    ASSUME DataTypeOK, NEW t \in Threads, Begin(t) \/ Continue(t)
    PROVE  Quiet(t) \/ Change(t) \/ ReportChange(t)
<1>1. Commit(t) => Change(t) \/ GiveUp(t)
    BY DEF Commit, Change, GiveUp, GoTo, DataTypeOK
<1>2. QED
    BY <1>1 DEF Continue, Quiet

\* A thread's step leaves the other threads where they are.
LEMMA OthersStay ==
    ASSUME LaneTypeOK, DataTypeOK, NEW t \in Threads, Begin(t) \/ Continue(t),
           NEW u \in Threads, u # t
    PROVE  /\ step'[u] = step[u] /\ call'[u] = call[u] /\ tampered' = tampered
           /\ phase'[u] = phase[u] /\ lanePath'[u] = lanePath[u]
<1> USE DEF DataTypeOK, LaneTypeOK, GoTo, laneVars
<1>1. CASE Begin(t)
    BY <1>1 DEF Begin, BeginRead, BeginWrite, BeginEdit, BeginChange, WantRead
<1>2. CASE Snapshot(t) \/ Enqueue(t)
    BY <1>2 DEF Snapshot, Enqueue, WantWrite
<1>3. CASE LaneStep(t)
    BY <1>3 DEF LaneStep, AcquireRead, AcquireWrite, Park, SpuriousWakeup
<1>4. CASE ReadFile(t)
    BY <1>4 DEF ReadFile
<1>5. CASE CheckWrite(t)
    BY <1>5 DEF CheckWrite
<1>6. CASE CheckEdit(t)
    <2> DEFINE now == file[call[t].path]
               new == ApplyEdits(now, call[t].edits)
    <2>1. \/ call' = [call EXCEPT ![t].current = now, ![t].new = new]
          \/ call' = [call EXCEPT ![t].current = now]
        BY <1>6 DEF CheckEdit
    <2>2. /\ UNCHANGED <<phase, lanePath, tampered>>
          /\ \E x : step' = [step EXCEPT ![t] = x]
        BY <1>6 DEF CheckEdit
    <2> HIDE DEF now, new
    <2>3. QED
        BY <2>1, <2>2
<1>7. CASE Commit(t) \/ ReportRead(t) \/ ReportChange(t)
    BY <1>7 DEF Commit, ReportRead, ReportChange, NotifyLane
<1>8. CASE Release(t)
    BY <1>8 DEF Release, DropRead, DropWrite
<1>9. QED
    BY <1>1, <1>2, <1>3, <1>4, <1>5, <1>6, <1>7, <1>8 DEF Continue

\* A quiet step neither touches a file nor a ring, nor starts or ends a recording.
LEMMA QuietStays ==
    ASSUME LaneTypeOK, DataTypeOK, NEW t \in Threads, Quiet(t)
    PROVE  /\ file' = file /\ mutations' = mutations /\ tampered' = tampered
            /\ (step[t] = "record" <=> step'[t] = "record")
           /\ step[t] = "record" => call'[t] = call[t]
<1> USE DEF DataTypeOK, GoTo
<1>1. CASE Begin(t)
    BY <1>1 DEF Begin, BeginRead, BeginWrite, BeginEdit, BeginChange
<1>2. CASE Snapshot(t) \/ Enqueue(t)
    BY <1>2 DEF Snapshot, Enqueue
<1>3. CASE LaneStep(t)
    BY <1>3 DEF LaneStep
<1>4. CASE ReadFile(t)
    BY <1>4 DEF ReadFile
<1>5. CASE CheckWrite(t)
    BY <1>5 DEF CheckWrite
<1>6. CASE CheckEdit(t)
    BY <1>6 DEF CheckEdit
<1>7. CASE GiveUp(t)
    BY <1>7 DEF GiveUp, Commit
<1>8. CASE ReportRead(t) \/ Release(t)
    BY <1>8 DEF ReportRead, Release
<1>9. QED
    BY <1>1, <1>2, <1>3, <1>4, <1>5, <1>6, <1>7, <1>8 DEF Quiet

\* A recording thread keeps the permit of its file to itself.
LEMMA RecordingAlone ==
    ASSUME Exclusion, Holding, Permits, NEW t \in Threads, NEW u \in Threads, u # t,
           step[t] \in {"commit", "record"},
           step[u] \in {"commit", "record", "observe", "release"}
    PROVE  call[u].path # call[t].path
BY DEF Exclusion, Holding, Permits

\* What is in flight at a path changes only with a change of that path.
LEMMA InFlightStays ==
    ASSUME LaneTypeOK, DataTypeOK, NEW t \in Threads, NEW p, Begin(t) \/ Continue(t),
           Quiet(t) \/ (call[t].path # p /\ call' = call)
    PROVE  InFlight(p)' <=> InFlight(p)
<1>1. \A u \in Threads \ {t} : step'[u] = step[u] /\ call'[u] = call[u]
    BY OthersStay
<1>2. CASE Quiet(t)
    <2>1. \A u \in Threads : step'[u] = "record" => step[u] = "record" /\ call'[u] = call[u]
        BY <1>1, <1>2, QuietStays
    <2>2. \A u \in Threads : step[u] = "record" => step'[u] = "record"
        BY <1>1, <1>2, QuietStays
    <2>3. QED
        BY <2>1, <2>2 DEF InFlight
<1>3. CASE call[t].path # p /\ call' = call
    BY <1>1, <1>3 DEF InFlight
<1>4. QED
    BY <1>2, <1>3

LEMMA PermitsStep ==
    ASSUME CoordinatorInv, Permits, [Next]_vars
    PROVE  Permits'
<1>0. LaneTypeOK /\ DataTypeOK /\ CallTyped /\ Holding
    BY TypeParts DEF CoordinatorInv
<1> DEFINE Permit(t) ==
              /\ step[t] \in {"commit", "record", "observe", "release"} =>
                    phase[t] \in {"reading", "writing"} /\ lanePath[t] = call[t].path
              /\ step[t] = "open" /\ phase[t] \in {"wantRead", "reading"} => call[t].op = "read"
              /\ step[t] = "observe" => call[t].op = "read"
<1>1. ASSUME NEW t \in Threads, Begin(t) \/ Continue(t) PROVE Permits'
    <2>0. \A u \in Threads \ {t} : Permit(u)'
        BY <1>0, <1>1, OthersStay DEF Permits
    <2> SUFFICES Permit(t)'
        BY <2>0 DEF Permits
    <2> USE <1>0 DEF DataTypeOK, LaneTypeOK, GoTo, laneVars
    <2>1. CASE Begin(t)
        BY <2>1 DEF Begin, BeginRead, BeginWrite, BeginEdit, BeginChange, WantRead
    <2>2. CASE Snapshot(t)
        BY <2>2 DEF Snapshot
    <2>3. CASE Enqueue(t)
        BY <2>3 DEF Enqueue, WantWrite
    <2>4. CASE LaneStep(t)
        BY <2>4 DEF LaneStep, AcquireRead, AcquireWrite, Park, SpuriousWakeup, Permits
    <2>5. CASE ReadFile(t)
        <3>1. step[t] = "open" /\ phase[t] = "reading" /\ UNCHANGED <<phase, lanePath>>
              /\ step'[t] \in {"observe", "release"}
            BY <2>5 DEF ReadFile
        <3>2. call[t] \in Call /\ call[t].op = "read" /\ lanePath[t] = call[t].path
            BY <3>1 DEF Permits, Holding, CallTyped
        <3>3. call'[t].op = call[t].op /\ call'[t].path = call[t].path
            BY <2>5, <3>2 DEF ReadFile, Call
        <3>4. QED
            BY <3>1, <3>2, <3>3
    <2>6. CASE CheckWrite(t)
        <3>1. step[t] = "open" /\ phase[t] = "writing" /\ UNCHANGED <<phase, lanePath>>
              /\ step'[t] \in {"commit", "release"}
            BY <2>6 DEF CheckWrite
        <3>2. call[t] \in Call /\ lanePath[t] = call[t].path
            BY <3>1 DEF Holding, CallTyped
        <3>3. call'[t].path = call[t].path
            BY <2>6, <3>2 DEF CheckWrite, Call
        <3>4. QED
            BY <3>1, <3>2, <3>3
    <2>7. CASE CheckEdit(t)
        <3> DEFINE now == file[call[t].path]
                   new == ApplyEdits(now, call[t].edits)
        <3>1. step[t] = "open" /\ phase[t] = "writing" /\ UNCHANGED <<phase, lanePath>>
              /\ step'[t] \in {"commit", "release"}
            BY <2>7 DEF CheckEdit
        <3>2. call[t] \in Call /\ lanePath[t] = call[t].path
            BY <3>1 DEF Holding, CallTyped
        <3>3. \/ call' = [call EXCEPT ![t].current = now, ![t].new = new]
              \/ call' = [call EXCEPT ![t].current = now]
            BY <2>7 DEF CheckEdit
        <3> HIDE DEF now, new
        <3>4. call'[t].path = call[t].path
            BY <3>2, <3>3 DEF Call
        <3>5. QED
            BY <3>1, <3>2, <3>4
    <2>8. CASE Commit(t) \/ ReportRead(t)
        BY <2>8 DEF Commit, ReportRead, Permits
    <2>9. CASE ReportChange(t)
        BY <2>9 DEF ReportChange, NotifyLane, Permits
    <2>10. CASE Release(t)
        BY <2>10 DEF Release
    <2>11. QED
        BY <1>1, <2>1, <2>2, <2>3, <2>4, <2>5, <2>6, <2>7, <2>8, <2>9, <2>10 DEF Continue
<1>2. ASSUME NEW p \in Paths, NEW c \in BypassContents, Bypass(p, c) PROVE Permits'
    BY <1>2 DEF Bypass, laneVars, Permits
<1>3. CASE UNCHANGED vars
    BY <1>3 DEF vars, laneVars, Permits
<1>4. QED
    BY <1>1, <1>2, <1>3 DEF Next

-----------------------------------------------------------------------------
(* The chain *)

\* What a chain of records is after one more.
LEMMA PushedChain ==
    ASSUME NEW ring \in Seq(MutationRecord), NEW m \in MutationRecord,
           \A i \in 1 .. Len(ring) - 1 : ring[i].after = ring[i + 1].before,
           ring # <<>> => ring[Len(ring)].after = m.before
    PROVE  LET new == Pushed(ring, m) IN
           /\ new # <<>> /\ new[Len(new)] = m
           /\ \A i \in 1 .. Len(new) - 1 : new[i].after = new[i + 1].before
<1> DEFINE kept == IF Len(ring) >= MutationLimit THEN Tail(ring) ELSE ring
<1>1. MutationLimit \in Nat /\ MutationLimit > 0 /\ Len(ring) \in Nat
    BY CoordinatorAssumption, LenProperties
<1>2. /\ kept \in Seq(MutationRecord)
      /\ \A i \in 1 .. Len(kept) - 1 : kept[i].after = kept[i + 1].before
      /\ Len(kept) > 0 => kept[Len(kept)].after = m.before
    <2>1. CASE Len(ring) >= MutationLimit
        <3>1. ring # <<>>
            BY <1>1, <2>1, EmptySeq
        <3>2. /\ Tail(ring) \in Seq(MutationRecord) /\ Len(Tail(ring)) = Len(ring) - 1
              /\ \A i \in 1 .. Len(ring) - 1 : Tail(ring)[i] = ring[i + 1]
            BY <3>1, HeadTailProperties
        <3>3. \A i \in 1 .. Len(ring) - 1 - 1 : ring[i + 1].after = ring[i + 1 + 1].before
            BY <1>1
        <3>4. QED
            BY <1>1, <2>1, <3>1, <3>2, <3>3
    <2>2. CASE Len(ring) < MutationLimit
        BY <1>1, <2>2, EmptySeq
    <2>3. QED
        BY <1>1, <2>1, <2>2
<1> HIDE DEF kept
<1>3. /\ Len(Append(kept, m)) = Len(kept) + 1 /\ Len(kept) \in Nat
      /\ \A i \in 1 .. Len(kept) : Append(kept, m)[i] = kept[i]
      /\ Append(kept, m)[Len(kept) + 1] = m
    BY <1>2, AppendProperties, LenProperties
<1>4. Pushed(ring, m) = Append(kept, m)
    BY DEF Pushed, kept
<1>5. Append(kept, m) # <<>>
    <2>1. Len(Append(kept, m)) # 0
        BY <1>3
    <2>2. Len(<<>>) = 0
        OBVIOUS
    <2>3. QED
        BY <2>1, <2>2
<1>6. ASSUME NEW i \in 1 .. Len(kept)
      PROVE  Append(kept, m)[i].after = Append(kept, m)[i + 1].before
    <2>1. CASE i = Len(kept)
        BY <1>2, <1>3, <2>1
    <2>2. CASE i # Len(kept)
        <3>1. i \in 1 .. Len(kept) - 1 /\ i + 1 \in 1 .. Len(kept)
            BY <1>3, <2>2
        <3>2. QED
            BY <1>2, <1>3, <3>1
    <2>3. QED
        BY <2>1, <2>2
<1>7. QED
    BY <1>3, <1>4, <1>5, <1>6

\* A change of one path leaves the others' chains as they are.
LEMMA ChainUntouched ==
    ASSUME NEW p, ChainOf(p), mutations'[p] = mutations[p], file'[p] = file[p],
           InFlight(p)' <=> InFlight(p)
    PROVE  ChainOf(p)'
BY DEF ChainOf

\* What a change on record leaves: its own record at the end of the ring.
LEMMA ReportChangeRing ==
    ASSUME HistoryInv, NEW t \in Threads, ReportChange(t), call[t].path \notin tampered
    PROVE  LET ring == mutations'[call[t].path] IN
           /\ ring # <<>>
           /\ \A i \in 1 .. Len(ring) - 1 : ring[i].after = ring[i + 1].before
           /\ ring[Len(ring)].after = file[call[t].path]
<1> DEFINE p == call[t].path
           c == call[t]
           m == [before |-> IF c.current = Absent THEN Empty ELSE c.current, after |-> c.new]
<1>0. LaneTypeOK /\ DataTypeOK /\ CallTyped
    BY TypeParts DEF HistoryInv, CoordinatorInv
<1>1. step[t] = "record" /\ c \in Call /\ c.new \in Contents /\ c.current \in Disk /\ p \in Paths
    BY <1>0 DEF ReportChange, CallTyped, Call
<1>2. m \in MutationRecord /\ m.after = c.new
    BY <1>1 DEF MutationRecord, Disk
<1>3. mutations'[p] = Pushed(mutations[p], m)
    BY <1>0, <1>1 DEF ReportChange, DataTypeOK
<1>4. mutations[p] \in Seq(MutationRecord) /\ ChainOf(p) /\ Recording(t)
    BY <1>0, <1>1 DEF DataTypeOK, HistoryInv
<1>5. mutations[p] # <<>> => mutations[p][Len(mutations[p])].after = m.before
    <2>1. ASSUME mutations[p] # <<>>
          PROVE  /\ mutations[p][Len(mutations[p])].after = c.current
                 /\ mutations[p][Len(mutations[p])] \in MutationRecord
        <3>1. Len(mutations[p]) \in 1 .. Len(mutations[p])
            BY <1>4, <2>1, EmptySeq, LenProperties
        <3>2. QED
            BY <1>1, <1>4, <2>1, <3>1, ElementOfSeq DEF Recording
    <2>2. Absent \notin Contents
        BY ContentsAssumption DEF Contents
    <2>3. QED
        BY <2>1, <2>2 DEF MutationRecord
<1>6. file[p] = c.new
    BY <1>1, <1>4 DEF Recording
<1> HIDE DEF m
<1>7. LET new == Pushed(mutations[p], m) IN
      /\ new # <<>> /\ new[Len(new)] = m
      /\ \A i \in 1 .. Len(new) - 1 : new[i].after = new[i + 1].before
    <2>1. \A i \in 1 .. Len(mutations[p]) - 1 : mutations[p][i].after = mutations[p][i + 1].before
        BY <1>4 DEF ChainOf
    <2>2. QED
        BY <1>2, <1>4, <1>5, <2>1, PushedChain
<1>8. QED
    BY <1>2, <1>3, <1>6, <1>7

LEMMA ChainStep ==
    ASSUME HistoryInv, [Next]_vars, NEW p \in Paths, p \notin tampered'
    PROVE  ChainOf(p)'
<1>0. /\ LaneTypeOK /\ DataTypeOK /\ CallTyped /\ Holding /\ Permits /\ Exclusion
      /\ \A t \in Threads : Fresh(t) /\ Recording(t)
    BY TypeParts, FreshAll DEF HistoryInv, CoordinatorInv
<1>1. ASSUME NEW t \in Threads, Begin(t) \/ Continue(t) PROVE ChainOf(p)'
    <2>1. tampered' = tampered
        BY <1>0, <1>1 DEF Begin, BeginRead, BeginWrite, BeginEdit, BeginChange, Continue, Snapshot,
           Enqueue, LaneStep, ReadFile, CheckWrite, CheckEdit, Commit, ReportRead, ReportChange,
           Release
    <2>2. ChainOf(p)
        BY <2>1 DEF HistoryInv
    <2>3. CASE Quiet(t)
        <3>1. file' = file /\ mutations' = mutations
            BY <1>0, <2>3, QuietStays
        <3>2. InFlight(p)' <=> InFlight(p)
            BY <1>0, <1>1, <2>3, InFlightStays
        <3>3. QED
            BY <2>2, <3>1, <3>2, ChainUntouched
    <2>4. CASE Change(t)
        <3>1. /\ file' = [file EXCEPT ![call[t].path] = call[t].new]
              /\ mutations' = mutations /\ call' = call /\ step'[t] = "record"
            BY <1>0, <2>4 DEF Change, Commit, GoTo, DataTypeOK
        <3>2. CASE call[t].path = p
            <4>1. InFlight(p)'
                BY <3>1, <3>2 DEF InFlight
            <4>2. QED
                BY <2>2, <3>1, <4>1 DEF ChainOf
        <3>3. CASE call[t].path # p
            <4>1. file'[p] = file[p]
                BY <1>0, <3>1, <3>3 DEF DataTypeOK
            <4>2. QED
                BY <1>0, <1>1, <2>2, <3>1, <3>3, <4>1, InFlightStays, ChainUntouched
        <3>4. QED
            BY <3>2, <3>3
    <2>5. CASE ReportChange(t)
        <3>1. file' = file /\ call' = call /\ step[t] = "record"
            BY <2>5 DEF ReportChange
        <3>2. CASE call[t].path = p
            BY <2>1, <2>5, <3>1, <3>2, ReportChangeRing DEF ChainOf
        <3>3. CASE call[t].path # p
            <4>1. mutations'[p] = mutations[p]
                BY <1>0, <2>5, <3>3 DEF ReportChange, DataTypeOK
            <4>2. QED
                BY <1>0, <1>1, <2>2, <3>1, <3>3, <4>1, InFlightStays, ChainUntouched
        <3>4. QED
            BY <3>2, <3>3
    <2>6. QED
        BY <1>0, <1>1, <2>3, <2>4, <2>5, StepKinds
<1>2. ASSUME NEW q \in Paths, NEW c \in BypassContents, Bypass(q, c) PROVE ChainOf(p)'
    <2>1. p # q /\ p \notin tampered /\ file'[p] = file[p]
        BY <1>0, <1>2 DEF Bypass, DataTypeOK
    <2>2. QED
        BY <1>2, <2>1, ChainUntouched DEF Bypass, InFlight, HistoryInv
<1>3. CASE UNCHANGED vars
    BY <1>3, ChainUntouched DEF vars, InFlight, HistoryInv
<1>4. QED
    BY <1>1, <1>2, <1>3 DEF Next

-----------------------------------------------------------------------------
(* What calls and agents have seen *)

\* A quiet step takes the file to hold only what it does hold.
LEMMA HoldsStep ==
    ASSUME LaneTypeOK, DataTypeOK, CallTyped, Permits, NEW t \in Threads, Quiet(t),
           NEW p \in Paths, Holds(t, p), \A a \in Agents : observed[a][p] \in {None, file[p]}
    PROVE  Holds(t, p)'
<1>0. file' = file
    BY QuietStays
<1> USE <1>0 DEF DataTypeOK, GoTo
<1>1. ASSUME NEW a \in Agents, NEW q \in Paths, NEW b \in OfferedBases, BeginRead(t, a, q, b)
      PROVE  Holds(t, p)'
    BY <1>1 DEF BeginRead, Holds
<1>2. ASSUME NEW a \in Agents, NEW q \in Paths, NEW op \in {"write", "edit"}, NEW b, NEW e, NEW n,
             BeginChange(t, a, q, op, b, e, n)
      PROVE  Holds(t, p)'
    <2> DEFINE expected == IF b # None THEN b ELSE observed[a][q]
               c == [agent |-> a, path |-> q, op |-> op, base |-> b, expected |-> expected,
                     edits |-> e, current |-> None, new |-> n]
    <2>1. call'[t] = c /\ step'[t] = IF expected = None THEN "snapshot" ELSE "queue"
        BY <1>2 DEF BeginChange
    <2>2. c.path = q /\ c.base = b /\ c.expected = expected
        OBVIOUS
    <2> HIDE DEF c
    <2>3. QED
        BY <2>1, <2>2 DEF Holds
<1>3. CASE Snapshot(t)
    <2>1. call[t] \in Call
        BY <1>3 DEF Snapshot, CallTyped
    <2>2. \/ step'[t] = "idle"
          \/ /\ call'[t] = [call[t] EXCEPT !.expected = file[call[t].path]]
             /\ step'[t] = "queue"
        BY <1>3 DEF Snapshot
    <2>3. step'[t] = "queue" => /\ call'[t].path = call[t].path
                                /\ call'[t].expected = file[call[t].path]
        BY <2>1, <2>2 DEF Call
    <2>4. QED
        BY <2>2, <2>3 DEF Holds
<1>4. CASE Enqueue(t)
    BY <1>4 DEF Enqueue, Holds
<1>5. CASE LaneStep(t)
    BY <1>5 DEF LaneStep, Holds
<1>6. CASE ReadFile(t)
    <2>1. call[t] \in Call /\ call[t].op = "read"
        BY <1>6 DEF ReadFile, CallTyped, Permits
    <2>2. \/ /\ call'[t] = [call[t] EXCEPT !.new = file[call[t].path]]
             /\ step'[t] = "observe"
          \/ call'[t] = call[t] /\ step'[t] = "release"
        BY <1>6 DEF ReadFile
    <2>3. /\ call'[t].op = "read" /\ call'[t].path = call[t].path
          /\ step'[t] = "observe" => call'[t].new = file[call[t].path]
        BY <2>1, <2>2 DEF Call
    <2>4. QED
        BY <2>2, <2>3 DEF Holds
<1>7. CASE CheckWrite(t)
    <2>1. call[t] \in Call
        BY <1>7 DEF CheckWrite, CallTyped
    <2>2. /\ call'[t] = [call[t] EXCEPT !.current = file[call[t].path]]
          /\ step[t] = "open" /\ step'[t] \in {"commit", "release"}
        BY <1>7 DEF CheckWrite
    <2>3. /\ call'[t].path = call[t].path /\ call'[t].op = call[t].op
          /\ call'[t].base = call[t].base /\ call'[t].expected = call[t].expected
        BY <2>1, <2>2 DEF Call
    <2>4. QED
        BY <2>2, <2>3 DEF Holds
<1>8. CASE CheckEdit(t)
    <2> DEFINE now == file[call[t].path]
               new == ApplyEdits(now, call[t].edits)
    <2>1. call[t] \in Call /\ call[t].op = "edit" /\ step'[t] \in {"commit", "release"}
        BY <1>8 DEF CheckEdit, CallTyped
    <2>2. \/ call' = [call EXCEPT ![t].current = now, ![t].new = new]
          \/ call' = [call EXCEPT ![t].current = now]
        BY <1>8 DEF CheckEdit
    <2> HIDE DEF now, new
    <2>3. call'[t].op = "edit"
        BY <2>1, <2>2 DEF Call
    <2>4. QED
        BY <2>1, <2>3 DEF Holds
<1>9. CASE GiveUp(t)
    BY <1>9 DEF GiveUp, Commit, Holds
<1>10. CASE ReportRead(t)
    BY <1>10 DEF ReportRead, Permits, Holds
<1>11. CASE Release(t)
    BY <1>11 DEF Release, Holds
<1>12. QED
    BY <1>1, <1>2, <1>3, <1>4, <1>5, <1>6, <1>7, <1>8, <1>9, <1>10, <1>11
       DEF Quiet, Begin, BeginWrite, BeginEdit

\* A quiet step lets an agent observe only what the file holds.
LEMMA ObservedStep ==
    ASSUME DataTypeOK, CallTyped, NEW t \in Threads, Quiet(t),
           NEW p \in Paths, Holds(t, p), \A a \in Agents : observed[a][p] \in {None, file[p]}
    PROVE  \A a \in Agents : observed'[a][p] \in {None, file[p]}
<1>1. CASE ReportRead(t)
    <2>1. /\ step[t] = "observe" /\ call[t].agent \in Agents /\ call[t].path \in Paths
          /\ call[t].new \in Contents
        BY <1>1 DEF ReportRead, CallTyped, Call
    <2>2. call[t].path = p => call[t].new = file[p]
        BY <2>1 DEF Holds
    <2>3. observed' = [observed EXCEPT ![call[t].agent][call[t].path] = call[t].new]
        BY <1>1 DEF ReportRead, Observing
    <2>4. QED
        BY <2>1, <2>2, <2>3 DEF DataTypeOK
<1>2. CASE ~ReportRead(t)
    <2>1. UNCHANGED observed
        BY <1>2 DEF Quiet, Begin, BeginRead, BeginWrite, BeginEdit, BeginChange, Snapshot, Enqueue,
           LaneStep, ReadFile, CheckWrite, CheckEdit, GiveUp, Commit, Release
    <2>2. QED
        BY <2>1
<1>3. QED
    BY <1>1, <1>2

\* While nothing that matters to p moves, Unchanged(p) stays.
LEMMA HoldsUntouched ==
    ASSUME NEW u, NEW p, Holds(u, p), step'[u] = step[u], call'[u] = call[u], file'[p] = file[p]
    PROVE  Holds(u, p)'
BY DEF Holds

LEMMA UnchangedStep ==
    ASSUME HistoryInv, [Next]_vars, NEW p \in Paths, p \notin tampered'
    PROVE  Unchanged(p)'
<1>0. LaneTypeOK /\ DataTypeOK /\ CallTyped /\ Holding /\ Permits /\ Exclusion
    BY TypeParts DEF HistoryInv, CoordinatorInv
<1> SUFFICES ASSUME mutations'[p] = <<>>, ~InFlight(p)'
             PROVE  /\ \A a \in Agents : observed'[a][p] \in {None, file'[p]}
                    /\ \A u \in Threads : Holds(u, p)'
    BY DEF Unchanged
<1>1. ASSUME NEW t \in Threads, Begin(t) \/ Continue(t)
      PROVE  /\ \A a \in Agents : observed'[a][p] \in {None, file'[p]}
             /\ \A u \in Threads : Holds(u, p)'
    <2>1. tampered' = tampered
        BY <1>0, <1>1 DEF Begin, BeginRead, BeginWrite, BeginEdit, BeginChange, Continue, Snapshot,
           Enqueue, LaneStep, ReadFile, CheckWrite, CheckEdit, Commit, ReportRead, ReportChange,
           Release
    <2>2. Unchanged(p)
        BY <2>1 DEF HistoryInv
    <2>3. \A u \in Threads \ {t} : step'[u] = step[u] /\ call'[u] = call[u]
        BY <1>0, <1>1, OthersStay
    <2>4. CASE Quiet(t)
        <3>1. file' = file /\ mutations' = mutations
            BY <1>0, <2>4, QuietStays
        <3>2. InFlight(p)' <=> InFlight(p)
            BY <1>0, <1>1, <2>4, InFlightStays
        <3>3. /\ \A a \in Agents : observed[a][p] \in {None, file[p]}
              /\ \A u \in Threads : Holds(u, p)
            BY <2>2, <3>1, <3>2 DEF Unchanged
        <3>4. Holds(t, p)'
            BY <1>0, <2>4, <3>3, HoldsStep
        <3>5. \A u \in Threads \ {t} : Holds(u, p)'
            BY <2>3, <3>1, <3>3, HoldsUntouched
        <3>6. \A a \in Agents : observed'[a][p] \in {None, file[p]}
            BY <1>0, <2>4, <3>3, ObservedStep
        <3>7. QED
            BY <3>1, <3>4, <3>5, <3>6
    <2>5. CASE Change(t)
        <3>1. /\ file' = [file EXCEPT ![call[t].path] = call[t].new]
              /\ mutations' = mutations /\ call' = call /\ observed' = observed
              /\ step[t] = "commit" /\ step'[t] = "record"
            BY <1>0, <2>5 DEF Change, Commit, GoTo, DataTypeOK
        <3>2. call[t].path # p
            BY <3>1 DEF InFlight
        <3>3. file'[p] = file[p]
            BY <1>0, <3>1, <3>2 DEF DataTypeOK
        <3>4. InFlight(p)' <=> InFlight(p)
            BY <1>0, <1>1, <3>1, <3>2, InFlightStays
        <3>5. /\ \A a \in Agents : observed[a][p] \in {None, file[p]}
              /\ \A u \in Threads : Holds(u, p)
            BY <2>2, <3>1, <3>4 DEF Unchanged
        <3>6. Holds(t, p)'
            BY <3>1, <3>2 DEF Holds
        <3>7. QED
            BY <2>3, <3>1, <3>3, <3>5, <3>6, HoldsUntouched
    <2>6. CASE ReportChange(t)
        <3>1. /\ file' = file /\ call' = call /\ step[t] = "record" /\ step'[t] = "release"
              /\ observed' = [observed EXCEPT ![call[t].agent][call[t].path] = call[t].new]
            BY <1>0, <2>6 DEF ReportChange, Observing, GoTo, DataTypeOK
        <3>2. call[t].path # p
            BY <2>1, <2>6, ReportChangeRing
        <3>3. mutations'[p] = mutations[p]
            BY <1>0, <2>6, <3>2 DEF ReportChange, DataTypeOK
        <3>4. InFlight(p)' <=> InFlight(p)
            BY <1>0, <1>1, <3>1, <3>2, InFlightStays
        <3>5. /\ \A a \in Agents : observed[a][p] \in {None, file[p]}
              /\ \A u \in Threads : Holds(u, p)
            BY <2>2, <3>3, <3>4 DEF Unchanged
        <3>6. Holds(t, p)'
            BY <3>1, <3>2 DEF Holds
        <3>7. \A a \in Agents : observed'[a][p] = observed[a][p]
            BY <1>0, <3>1, <3>2 DEF DataTypeOK
        <3>8. QED
            BY <2>3, <3>1, <3>5, <3>6, <3>7, HoldsUntouched
    <2>7. QED
        BY <1>0, <1>1, <2>4, <2>5, <2>6, StepKinds
<1>2. ASSUME NEW q \in Paths, NEW c \in BypassContents, Bypass(q, c)
      PROVE  /\ \A a \in Agents : observed'[a][p] \in {None, file'[p]}
             /\ \A u \in Threads : Holds(u, p)'
    <2>1. p # q /\ p \notin tampered /\ file'[p] = file[p]
        BY <1>0, <1>2 DEF Bypass, DataTypeOK
    <2>2. Unchanged(p) /\ UNCHANGED <<mutations, observed, step, call>>
        BY <1>2, <2>1 DEF Bypass, HistoryInv
    <2>3. QED
        BY <2>1, <2>2, HoldsUntouched DEF Unchanged, InFlight
<1>3. CASE UNCHANGED vars
    <2>1. Unchanged(p) /\ UNCHANGED <<mutations, observed, step, call, file, tampered>>
        BY <1>3 DEF vars, HistoryInv
    <2>2. QED
        BY <2>1, HoldsUntouched DEF Unchanged, InFlight
<1>4. QED
    BY <1>1, <1>2, <1>3 DEF Next

-----------------------------------------------------------------------------
(* The call in flight, and the write that is refused *)

LEMMA CallUntouched ==
    ASSUME NEW u, Recording(u), Refused(u), step'[u] = step[u], call'[u] = call[u],
           tampered \subseteq tampered',
           step[u] \in {"record", "release"} /\ call[u].path \notin tampered' =>
               file'[call[u].path] = file[call[u].path],
           step[u] = "record" /\ call[u].path \notin tampered' =>
               mutations'[call[u].path] = mutations[call[u].path]
    PROVE  Recording(u)' /\ Refused(u)'
BY DEF Recording, Refused

\* A quiet step that ends in a refusal has just looked.
LEMMA RefusedStep ==
    ASSUME LaneTypeOK, DataTypeOK, CallTyped, Permits, NEW t \in Threads, Quiet(t), Fresh(t),
           Refused(t)
    PROVE  Refused(t)'
<1>0. file' = file /\ tampered' = tampered
    BY QuietStays
<1> USE <1>0 DEF DataTypeOK, GoTo
<1>1. CASE Begin(t)
    <2>1. step'[t] # "release"
        BY <1>1 DEF Begin, BeginRead, BeginWrite, BeginEdit, BeginChange
    <2>2. QED
        BY <2>1 DEF Refused
<1>2. CASE Snapshot(t) \/ Enqueue(t)
    BY <1>2 DEF Snapshot, Enqueue, Refused
<1>3. CASE LaneStep(t)
    BY <1>3 DEF LaneStep, Refused
<1>4. CASE ReadFile(t)
    <2>1. call[t] \in Call /\ call[t].op = "read"
        BY <1>4 DEF ReadFile, CallTyped, Permits
    <2>2. call'[t].op = "read"
        BY <1>4, <2>1 DEF ReadFile, Call
    <2>3. QED
        BY <2>2 DEF Refused
<1>5. CASE CheckWrite(t)
    <2>1. call[t] \in Call
        BY <1>5 DEF CheckWrite, CallTyped
    <2>2. call'[t].path = call[t].path /\ call'[t].current = file[call[t].path]
        BY <1>5, <2>1 DEF CheckWrite, Call
    <2>3. QED
        BY <2>2 DEF Refused
<1>6. CASE CheckEdit(t)
    <2> DEFINE now == file[call[t].path]
               new == ApplyEdits(now, call[t].edits)
    <2>1. call[t] \in Call /\ call[t].op = "edit"
        BY <1>6 DEF CheckEdit, CallTyped
    <2>2. \/ call' = [call EXCEPT ![t].current = now, ![t].new = new]
          \/ call' = [call EXCEPT ![t].current = now]
        BY <1>6 DEF CheckEdit
    <2> HIDE DEF now, new
    <2>3. call'[t].op = "edit"
        BY <2>1, <2>2 DEF Call
    <2>4. QED
        BY <2>3 DEF Refused
<1>7. CASE GiveUp(t)
    BY <1>7 DEF GiveUp, Commit, Fresh, Refused
<1>8. CASE ReportRead(t)
    BY <1>8 DEF ReportRead, Permits, Refused
<1>9. CASE Release(t)
    BY <1>9 DEF Release, Refused
<1>10. QED
    BY <1>1, <1>2, <1>3, <1>4, <1>5, <1>6, <1>7, <1>8, <1>9 DEF Quiet

LEMMA CallStep ==
    ASSUME HistoryInv, [Next]_vars, NEW u \in Threads
    PROVE  Recording(u)' /\ Refused(u)'
<1>0. /\ LaneTypeOK /\ DataTypeOK /\ CallTyped /\ Holding /\ Permits /\ Exclusion
      /\ Recording(u) /\ Refused(u) /\ \A t \in Threads : Fresh(t)
    BY TypeParts, FreshAll DEF HistoryInv, CoordinatorInv
<1>1. ASSUME NEW t \in Threads, Begin(t) \/ Continue(t) PROVE Recording(u)' /\ Refused(u)'
    <2>0. u # t => step'[u] = step[u] /\ call'[u] = call[u] /\ tampered' = tampered
        BY <1>0, <1>1, OthersStay
    <2>1. CASE Quiet(t)
        <3>1. /\ file' = file /\ mutations' = mutations /\ tampered' = tampered
              /\ (step[t] = "record" <=> step'[t] = "record")
              /\ step[t] = "record" => call'[t] = call[t]
            BY <1>0, <2>1, QuietStays
        <3>2. CASE u = t
            <4>1. Refused(u)'
                BY <1>0, <2>1, <3>2, RefusedStep
            <4>2. Recording(u)'
                BY <1>0, <3>1, <3>2 DEF Recording
            <4>3. QED
                BY <4>1, <4>2
        <3>3. CASE u # t
            BY <1>0, <2>0, <3>1, <3>3, CallUntouched
        <3>4. QED
            BY <3>2, <3>3
    <2>2. CASE Change(t)
        <3>1. /\ file' = [file EXCEPT ![call[t].path] = call[t].new]
              /\ mutations' = mutations /\ call' = call /\ tampered' = tampered
              /\ step[t] = "commit" /\ step'[t] = "record"
            BY <1>0, <2>2 DEF Change, Commit, GoTo, DataTypeOK
        <3>2. call[t].path \in Paths
            BY <1>0, <3>1 DEF CallTyped, Call
        <3>3. CASE u = t
            <4>1. file'[call[t].path] = call[t].new
                BY <1>0, <3>1, <3>2 DEF DataTypeOK
            <4>2. ~InFlight(call[t].path)
                BY <1>0, <3>1, RecordingAlone DEF InFlight
            <4>3. ASSUME call[t].path \notin tampered, mutations[call[t].path] # <<>>
                  PROVE  mutations[call[t].path][Len(mutations[call[t].path])].after
                            = file[call[t].path]
                BY <3>2, <4>2, <4>3 DEF HistoryInv, ChainOf
            <4>4. QED
                BY <1>0, <3>1, <3>3, <4>1, <4>3 DEF Recording, Refused, Fresh
        <3>4. CASE u # t
            <4>1. step[u] \in {"record", "release"} => call[u].path # call[t].path
                BY <1>0, <3>1, <3>4, RecordingAlone
            <4>2. step[u] \in {"record", "release"} => call[u].path \in Paths
                BY <1>0 DEF CallTyped, Call
            <4>3. step[u] \in {"record", "release"} => file'[call[u].path] = file[call[u].path]
                BY <1>0, <3>1, <4>1, <4>2 DEF DataTypeOK
            <4>4. QED
                BY <1>0, <2>0, <3>1, <3>4, <4>3, CallUntouched
        <3>5. QED
            BY <3>3, <3>4
    <2>3. CASE ReportChange(t)
        <3>1. /\ file' = file /\ call' = call /\ tampered' = tampered
              /\ step[t] = "record" /\ step'[t] = "release"
              /\ \E ring : mutations' = [mutations EXCEPT ![call[t].path] = ring]
            BY <1>0, <2>3 DEF ReportChange, GoTo, DataTypeOK
        <3>2. CASE u = t
            BY <1>0, <3>1, <3>2 DEF Recording, Refused
        <3>3. CASE u # t
            <4>1. step[u] = "record" => call[u].path # call[t].path /\ call[u].path \in Paths
                BY <1>0, <3>1, <3>3, RecordingAlone DEF CallTyped, Call
            <4>2. step[u] = "record" => mutations'[call[u].path] = mutations[call[u].path]
                BY <1>0, <3>1, <4>1 DEF DataTypeOK
            <4>3. QED
                BY <1>0, <2>0, <3>1, <3>3, <4>2, CallUntouched
        <3>4. QED
            BY <3>2, <3>3
    <2>4. QED
        BY <1>0, <1>1, <2>1, <2>2, <2>3, StepKinds
<1>2. ASSUME NEW q \in Paths, NEW c \in BypassContents, Bypass(q, c)
      PROVE  Recording(u)' /\ Refused(u)'
    <2>1. /\ file' = [file EXCEPT ![q] = c] /\ tampered' = tampered \cup {q}
          /\ UNCHANGED <<mutations, step, call>>
        BY <1>2 DEF Bypass
    <2>2. step[u] \in {"record", "release"} => call[u].path \in Paths
        BY <1>0 DEF CallTyped, Call
    <2>3. step[u] \in {"record", "release"} /\ call[u].path \notin tampered' =>
              file'[call[u].path] = file[call[u].path]
        BY <1>0, <2>1, <2>2 DEF DataTypeOK
    <2>4. QED
        BY <1>0, <2>1, <2>3, CallUntouched
<1>3. CASE UNCHANGED vars
    BY <1>0, <1>3, CallUntouched DEF vars
<1>4. QED
    BY <1>1, <1>2, <1>3 DEF Next

-----------------------------------------------------------------------------
(* The theorems about the history. *)

LEMMA HistoryInitInv == Init => HistoryInv
<1> SUFFICES ASSUME Init PROVE HistoryInv
    OBVIOUS
<1>1. CoordinatorInv
    BY CoordinatorInitInv
<1>2. \A t \in Threads : step[t] = "idle"
    BY DEF Init
<1>3. \A p \in Paths : mutations[p] = <<>> /\ \A a \in Agents : observed[a][p] = None
    BY DEF Init
<1>4. \A p \in Paths : ChainOf(p)
    BY <1>3, EmptySeq DEF ChainOf
<1>5. \A p \in Paths : Unchanged(p)
    BY <1>2, <1>3 DEF Unchanged, Holds
<1>6. Permits /\ \A t \in Threads : Recording(t) /\ Refused(t)
    BY <1>2 DEF Permits, Recording, Refused
<1>7. QED
    BY <1>1, <1>4, <1>5, <1>6 DEF HistoryInv

LEMMA HistoryStepInv ==
    ASSUME HistoryInv, [Next]_vars
    PROVE  HistoryInv'
<1>1. CoordinatorInv' /\ Permits'
    BY CoordinatorStepInv, PermitsStep DEF HistoryInv
<1>2. \A p \in Paths \ tampered' : ChainOf(p)' /\ Unchanged(p)'
    BY ChainStep, UnchangedStep
<1>3. \A t \in Threads : Recording(t)' /\ Refused(t)'
    BY CallStep
<1>4. QED
    BY <1>1, <1>2, <1>3 DEF HistoryInv

\* The inductive invariant of the files' histories.
THEOREM HistoryInvariant == Spec => []HistoryInv
<1>1. Init => HistoryInv
    BY HistoryInitInv
<1>2. HistoryInv /\ [Next]_vars => HistoryInv'
    BY HistoryStepInv
<1>3. QED
    BY <1>1, <1>2, PTL DEF Spec

\* The ring of a file that only the coordinator changes is one unbroken chain of its
\* newest changes, which ends in what is on disk.
THEOREM CoordinatorHistory == Spec => []HistoryChain
<1>1. HistoryInv => HistoryChain
    BY DEF HistoryInv, HistoryChain, ChainOf, InFlight
<1>2. QED
    BY <1>1, HistoryInvariant, PTL

\* A refused write that brought no revision of its own can be told whose change it met.
THEOREM CoordinatorExplains == Spec => []ConflictExplained
<1>1. HistoryInv => ConflictExplained
    <2> SUFFICES ASSUME HistoryInv, NEW t \in Threads,
                        step[t] = "release", call[t].op = "write", call[t].base = None,
                        call[t].path \notin tampered, call[t].expected # call[t].current
                 PROVE  LET ring == mutations[call[t].path] IN
                        ring # <<>> /\ ring[Len(ring)].after = call[t].current
        BY DEF ConflictExplained
    <2> DEFINE p == call[t].path
    <2>1. p \in Paths /\ Exclusion /\ Holding /\ Permits
        BY DEF HistoryInv, CoordinatorInv, CallTyped, Call
    <2>2. call[t].current = file[p] /\ ChainOf(p) /\ Unchanged(p)
        BY <2>1 DEF HistoryInv, Refused
    <2>3. ~InFlight(p)
        BY <2>1, RecordingAlone DEF InFlight
    <2>4. mutations[p] # <<>>
        BY <2>2, <2>3 DEF Unchanged, Holds
    <2>5. QED
        BY <2>2, <2>3, <2>4 DEF ChainOf
<1>2. QED
    BY <1>1, HistoryInvariant, PTL

-----------------------------------------------------------------------------
(* The refinement.  Every step of the coordinator is a step of FileRegister *)
(* or leaves the register alone.  That a commit is an atomic compare-and-   *)
(* replace needs CommitFresh; that the anchors of an edit still fit needs   *)
(* Editable besides.                                                        *)

\* Only changes queue and commit, and an edit commits only what its anchors fitted.
Editable ==
    \A t \in Threads :
        /\ step[t] \in {"snapshot", "queue", "commit"} => call[t].op \in {"write", "edit"}
        /\ step[t] = "commit" /\ call[t].op = "edit" =>
              /\ call[t].current # Absent
              /\ EditOutcome(call[t].current, call[t].edits) = "ok"

RefinementInv == CoordinatorInv /\ Permits /\ Editable

\* No write or edit is the mark for the absence of one.
RequestAssumption == NoRequest \notin Register!WriteRequest \cup Register!EditRequest

LEMMA EditableStep ==
    ASSUME CoordinatorInv, Permits, Editable, [Next]_vars
    PROVE  Editable'
<1>0. LaneTypeOK /\ DataTypeOK /\ CallTyped
    BY TypeParts DEF CoordinatorInv
<1> DEFINE Fit(t) ==
              /\ step[t] \in {"snapshot", "queue", "commit"} => call[t].op \in {"write", "edit"}
              /\ step[t] = "commit" /\ call[t].op = "edit" =>
                    /\ call[t].current # Absent
                    /\ EditOutcome(call[t].current, call[t].edits) = "ok"
<1>1. ASSUME NEW t \in Threads, Begin(t) \/ Continue(t) PROVE Editable'
    <2>0. \A u \in Threads \ {t} : Fit(u)'
        BY <1>0, <1>1, OthersStay DEF Editable
    <2> SUFFICES Fit(t)'
        BY <2>0 DEF Editable
    <2> USE <1>0 DEF DataTypeOK, GoTo
    <2>1. ASSUME NEW a, NEW q, NEW b, BeginRead(t, a, q, b) PROVE Fit(t)'
        BY <2>1 DEF BeginRead
    <2>2. ASSUME NEW a, NEW q, NEW op \in {"write", "edit"}, NEW b, NEW e, NEW n,
                 BeginChange(t, a, q, op, b, e, n)
          PROVE  Fit(t)'
        BY <2>2 DEF BeginChange
    <2>3. CASE Snapshot(t)
        <3>1. call[t] \in Call /\ call[t].op \in {"write", "edit"}
            BY <2>3 DEF Snapshot, CallTyped, Editable
        <3>2. \/ step'[t] = "idle"
              \/ /\ call'[t] = [call[t] EXCEPT !.expected = file[call[t].path]]
                 /\ step'[t] = "queue"
            BY <2>3 DEF Snapshot
        <3>3. step'[t] = "queue" => call'[t].op = call[t].op
            BY <3>1, <3>2 DEF Call
        <3>4. QED
            BY <3>1, <3>2, <3>3
    <2>4. CASE Enqueue(t)
        BY <2>4 DEF Enqueue
    <2>5. CASE LaneStep(t)
        BY <2>5 DEF LaneStep, Editable
    <2>6. CASE ReadFile(t)
        <3>1. step'[t] \in {"observe", "release"}
            BY <2>6 DEF ReadFile
        <3>2. QED
            BY <3>1
    <2>7. CASE CheckWrite(t)
        <3>1. call[t] \in Call /\ call[t].op = "write"
            BY <2>7 DEF CheckWrite, CallTyped
        <3>2. call'[t] = [call[t] EXCEPT !.current = file[call[t].path]]
            BY <2>7 DEF CheckWrite
        <3>3. call'[t].op = "write"
            BY <3>1, <3>2 DEF Call
        <3>4. QED
            BY <3>3
    <2>8. CASE CheckEdit(t)
        <3> DEFINE now == file[call[t].path]
                   new == ApplyEdits(now, call[t].edits)
        <3>1. call[t] \in Call /\ call[t].op = "edit" /\ step'[t] \in {"commit", "release"}
            BY <2>8 DEF CheckEdit, CallTyped
        <3>2. step'[t] = "commit" =>
                 /\ now # Absent /\ EditOutcome(now, call[t].edits) = "ok"
                 /\ call' = [call EXCEPT ![t].current = now, ![t].new = new]
            BY <2>8 DEF CheckEdit
        <3> HIDE DEF now, new
        <3>3. step'[t] = "commit" =>
                 /\ call'[t].op = "edit" /\ call'[t].current = now
                 /\ call'[t].edits = call[t].edits
            BY <3>1, <3>2 DEF Call
        <3>4. QED
            BY <3>1, <3>2, <3>3
    <2>9. CASE Commit(t)
        <3>1. step'[t] \in {"record", "release"}
            BY <2>9 DEF Commit
        <3>2. QED
            BY <3>1
    <2>10. CASE ReportRead(t) \/ ReportChange(t) \/ Release(t)
        <3>1. step'[t] \in {"release", "idle"}
            BY <2>10 DEF ReportRead, ReportChange, Release
        <3>2. QED
            BY <3>1
    <2>11. QED
        BY <1>1, <2>1, <2>2, <2>3, <2>4, <2>5, <2>6, <2>7, <2>8, <2>9, <2>10
           DEF Begin, BeginWrite, BeginEdit, Continue
<1>2. ASSUME NEW p \in Paths, NEW c \in BypassContents, Bypass(p, c) PROVE Editable'
    BY <1>2 DEF Bypass, Editable
<1>3. CASE UNCHANGED vars
    BY <1>3 DEF vars, Editable
<1>4. QED
    BY <1>1, <1>2, <1>3 DEF Next

\* The register speaks of the same contents.
LEMMA SameContents ==
    /\ Register!Contents = Contents /\ Register!Disk = Disk
    /\ Register!ReplaceEdit = ReplaceEdit
    /\ \A c, e : Register!ApplyEdits(c, e) = ApplyEdits(c, e)
    /\ \A c, e : Register!EditOutcome(c, e) = EditOutcome(c, e)
<1>1. Register!Contents = Contents /\ Register!Disk = Disk /\ Register!ReplaceEdit = ReplaceEdit
    BY DEF Register!Contents, Contents, Register!Disk, Disk, Register!ReplaceEdit, ReplaceEdit
<1>2. \A c, e : Register!Positions(c, e) = Positions(c, e)
    BY DEF Register!Positions, Positions
<1>3. ASSUME NEW c, NEW e PROVE Register!ApplyEdits(c, e) = ApplyEdits(c, e)
    BY <1>2 DEF Register!ApplyEdits, ApplyEdits
<1>4. ASSUME NEW c, NEW e PROVE Register!EditOutcome(c, e) = EditOutcome(c, e)
    <2>1. \A S : Register!Cardinality(S) = Cardinality(S)
        BY DEF Register!Cardinality, Cardinality
    <2>2. QED
        BY <1>2, <2>1 DEF Register!EditOutcome, EditOutcome
<1>5. QED
    BY <1>1, <1>3, <1>4

\* The requests of all threads, as the refinement mapping has them.
Requested == [t \in Threads |-> RequestOf(t)]

\* A thread whose request changes changes only its own.
LEMMA RequestedByOne ==
    ASSUME NEW t \in Threads, \A u \in Threads \ {t} : RequestOf(u)' = RequestOf(u)
    PROVE  Requested' = [Requested EXCEPT ![t] = RequestOf(t)']
BY DEF Requested

\* A call that is under way is a write or an edit of the register.
LEMMA RequestType ==
    ASSUME RequestAssumption, CallTyped, NEW t \in Threads,
           step[t] \in {"queue", "open", "commit"}, call[t].op # "read"
    PROVE  /\ RequestOf(t) \in Register!WriteRequest \cup Register!EditRequest
           /\ RequestOf(t) # NoRequest
<1>1. /\ call[t] \in Call /\ call[t].op \in {"write", "edit"}
      /\ call[t].op = "write" => call[t].new \in Contents
    BY DEF CallTyped, Call, Ops
<1>2. RequestOf(t) \in Register!WriteRequest \cup Register!EditRequest
    BY <1>1, SameContents DEF RequestOf, Call, Register!WriteRequest, Register!EditRequest
<1>3. QED
    BY <1>2 DEF RequestAssumption

\* So is one that is under way after the step.
LEMMA RequestTypeNext ==
    ASSUME RequestAssumption, CallTyped', NEW t \in Threads,
           step'[t] \in {"queue", "open", "commit"}, call'[t].op # "read"
    PROVE  RequestOf(t)' \in Register!WriteRequest \cup Register!EditRequest
<1>1. /\ call'[t] \in Call /\ call'[t].op \in {"write", "edit"}
      /\ call'[t].op = "write" => call'[t].new \in Contents
    BY DEF CallTyped, Call, Ops
<1>2. QED
    BY <1>1, SameContents DEF RequestOf, Call, Register!WriteRequest, Register!EditRequest

\* A thread that leaves file and request alone lets the register stutter ...
LEMMA Stutters ==
    ASSUME NEW t \in Threads, \A u \in Threads \ {t} : RequestOf(u)' = RequestOf(u),
           RequestOf(t)' = RequestOf(t), file' = file, tampered' = tampered
    PROVE  [Register!RegisterNext]_(Register!registerVars)
BY DEF Register!registerVars

\* ... one that begins to have a request submits it ...
LEMMA Submits ==
    ASSUME RequestAssumption, NEW t \in Threads,
           \A u \in Threads \ {t} : RequestOf(u)' = RequestOf(u),
           RequestOf(t) = NoRequest,
           RequestOf(t)' \in Register!WriteRequest \cup Register!EditRequest,
           file' = file, tampered' = tampered
    PROVE  [Register!RegisterNext]_(Register!registerVars)
<1>1. Requested' = [Requested EXCEPT ![t] = RequestOf(t)'] /\ Requested[t] = RequestOf(t)
    BY RequestedByOne DEF Requested
<1>2. Requested'[t] = RequestOf(t)'
    BY DEF Requested
<1>3. Register!Submit(t)
    BY <1>1, <1>2 DEF Register!Submit, Requested
<1>4. QED
    BY <1>3 DEF Register!RegisterNext

\* ... and one that gives its request up fails.
LEMMA Fails ==
    ASSUME NEW t \in Threads, \A u \in Threads \ {t} : RequestOf(u)' = RequestOf(u),
           RequestOf(t) # NoRequest, RequestOf(t)' = NoRequest,
           file' = file, tampered' = tampered
    PROVE  [Register!RegisterNext]_(Register!registerVars)
<1>1. Requested' = [Requested EXCEPT ![t] = NoRequest] /\ Requested[t] = RequestOf(t)
    BY RequestedByOne DEF Requested
<1>2. Register!Fail(t)
    BY <1>1 DEF Register!Fail, Requested
<1>3. QED
    BY <1>2 DEF Register!RegisterNext

\* The rename of a commit is the compare-and-replace, or the read-modify-replace, that
\* the register promises.
LEMMA ChangeSucceeds ==
    ASSUME RequestAssumption, RefinementInv, NEW t \in Threads, Change(t)
    PROVE  [Register!RegisterNext]_(Register!registerVars)
<1> DEFINE c == call[t]
           r == RequestOf(t)
<1>0. /\ LaneTypeOK /\ DataTypeOK /\ CallTyped /\ Fresh(t)
      /\ (Begin(t) \/ Continue(t))
    BY TypeParts, FreshAll DEF RefinementInv, CoordinatorInv, Change, Continue
<1>1. /\ step[t] = "commit" /\ step'[t] = "record"
      /\ file' = [file EXCEPT ![c.path] = c.new]
      /\ tampered' = tampered /\ call' = call
    BY <1>0 DEF Change, Commit, GoTo, DataTypeOK
<1>2. /\ c \in Call /\ c.path \in Paths /\ c.new \in Contents /\ c.op \in {"write", "edit"}
      /\ c.op = "edit" => c.current # Absent /\ EditOutcome(c.current, c.edits) = "ok"
    BY <1>1, <1>0 DEF CallTyped, Call, RefinementInv, Editable
<1>3. r # NoRequest /\ RequestOf(t)' = NoRequest
    <2>1. c.op # "read"
        BY <1>2
    <2>2. r # NoRequest
        BY <1>0, <1>1, <2>1, RequestType
    <2>3. RequestOf(t)' = NoRequest
        BY <1>1 DEF RequestOf
    <2>4. QED
        BY <2>2, <2>3
<1>4. \A u \in Threads \ {t} : RequestOf(u)' = RequestOf(u)
    BY <1>0, OthersStay DEF RequestOf
<1>5. Requested' = [Requested EXCEPT ![t] = NoRequest] /\ Requested[t] = r
    BY <1>3, <1>4, RequestedByOne DEF Requested
<1>6. /\ r.path = c.path /\ r.op = c.op
      /\ c.op = "write" => r.expected = c.expected /\ r.new = c.new
      /\ c.op = "edit" => r.edits = c.edits
    BY <1>1, <1>2 DEF RequestOf
<1>7. CASE c.path \in tampered
    <2>1. \E n \in Register!Contents : file' = [file EXCEPT ![r.path] = n]
        BY <1>1, <1>2, <1>6, SameContents
    <2>2. Register!Succeed(t)
        BY <1>1, <1>3, <1>5, <1>6, <1>7, <2>1 DEF Register!Succeed, Requested
    <2>3. QED
        BY <2>2 DEF Register!RegisterNext
<1>8. CASE c.path \notin tampered
    <2>1. /\ file[c.path] = c.current
          /\ c.op = "write" => c.expected = c.current
          /\ c.op = "edit" => c.new = ApplyEdits(c.current, c.edits)
        BY <1>0, <1>1, <1>8 DEF Fresh
    <2>2. Register!Permitted(r, file[r.path])
        BY <1>2, <1>6, <2>1, SameContents DEF Register!Permitted
    <2>3. Register!Effect(r, file[r.path]) = c.new
        BY <1>2, <1>6, <2>1, SameContents DEF Register!Effect
    <2>4. file' = [file EXCEPT ![r.path] = Register!Effect(r, @)]
        BY <1>1, <1>6, <2>3
    <2>5. Register!Succeed(t)
        BY <1>1, <1>3, <1>5, <1>6, <1>8, <2>2, <2>4 DEF Register!Succeed, Requested
    <2>6. QED
        BY <2>5 DEF Register!RegisterNext
<1>9. QED
    BY <1>7, <1>8

\* The head of a write or an edit, to the point where its expected revision is fixed.
LEMMA BeginSubmits ==
    ASSUME RequestAssumption, RefinementInv, RefinementInv', NEW t \in Threads, Begin(t)
    PROVE  [Register!RegisterNext]_(Register!registerVars)
<1>0. LaneTypeOK /\ DataTypeOK /\ CallTyped /\ CallTyped' /\ Editable'
    BY TypeParts DEF RefinementInv, CoordinatorInv
<1>1. \A u \in Threads \ {t} : RequestOf(u)' = RequestOf(u)
    BY <1>0, OthersStay DEF RequestOf
<1>2. /\ step[t] = "idle" /\ file' = file /\ tampered' = tampered
      /\ step'[t] \in {"open", "snapshot", "queue"}
      /\ step'[t] = "open" => call'[t].op = "read"
    BY <1>0 DEF Begin, BeginRead, BeginWrite, BeginEdit, BeginChange, GoTo, DataTypeOK
<1>3. RequestOf(t) = NoRequest
    BY <1>2 DEF RequestOf
<1>4. CASE step'[t] = "queue"
    <2>1. call'[t].op \in {"write", "edit"}
        BY <1>0, <1>4 DEF Editable
    <2>2. RequestOf(t)' \in Register!WriteRequest \cup Register!EditRequest
        BY <1>0, <1>4, <2>1, RequestTypeNext
    <2>3. QED
        BY <1>1, <1>2, <1>3, <2>2, Submits
<1>5. CASE step'[t] # "queue"
    <2>1. RequestOf(t)' = NoRequest
        BY <1>2, <1>5 DEF RequestOf
    <2>2. QED
        BY <1>1, <1>2, <1>3, <2>1, Stutters
<1>6. QED
    BY <1>4, <1>5

\* The rest of a call.
LEMMA ContinueMaps ==
    ASSUME RequestAssumption, RefinementInv, RefinementInv', NEW t \in Threads, Continue(t)
    PROVE  [Register!RegisterNext]_(Register!registerVars)
<1>0. /\ LaneTypeOK /\ DataTypeOK /\ CallTyped /\ CallTyped' /\ Editable /\ Editable' /\ Permits
      /\ tampered' = tampered
    BY TypeParts DEF RefinementInv, CoordinatorInv, Continue, Snapshot, Enqueue, LaneStep, ReadFile,
       CheckWrite, CheckEdit, Commit, ReportRead, ReportChange, Release
<1>1. \A u \in Threads \ {t} : RequestOf(u)' = RequestOf(u)
    BY <1>0, OthersStay DEF RequestOf
<1>2. step[t] # "idle" => call[t] \in Call
    BY <1>0 DEF CallTyped
<1>3. CASE Snapshot(t)
    <2>1. /\ step[t] = "snapshot" /\ file' = file /\ step'[t] \in {"queue", "idle"}
        BY <1>0, <1>3 DEF Snapshot, GoTo, DataTypeOK
    <2>2. RequestOf(t) = NoRequest
        BY <2>1 DEF RequestOf
    <2>3. CASE step'[t] = "queue"
        <3>1. call'[t].op \in {"write", "edit"}
            BY <1>0, <2>3 DEF Editable
        <3>2. RequestOf(t)' \in Register!WriteRequest \cup Register!EditRequest
            BY <1>0, <2>3, <3>1, RequestTypeNext
        <3>3. QED
            BY <1>0, <1>1, <2>1, <2>2, <3>2, Submits
    <2>4. CASE step'[t] = "idle"
        <3>1. RequestOf(t)' = NoRequest
            BY <2>4 DEF RequestOf
        <3>2. QED
            BY <1>0, <1>1, <2>1, <2>2, <3>1, Stutters
    <2>5. QED
        BY <2>1, <2>3, <2>4
<1>4. CASE Enqueue(t) \/ LaneStep(t)
    <2>1. /\ file' = file /\ call' = call
          /\ step'[t] = step[t] \/ (step[t] = "queue" /\ step'[t] = "open")
        BY <1>0, <1>4 DEF Enqueue, LaneStep, GoTo, DataTypeOK
    <2>2. RequestOf(t)' = RequestOf(t)
        BY <2>1 DEF RequestOf
    <2>3. QED
        BY <1>0, <1>1, <2>1, <2>2, Stutters
<1>5. CASE ReadFile(t)
    <2>1. /\ file' = file /\ step'[t] \in {"observe", "release"} /\ step[t] = "open"
          /\ call[t].op = "read"
        BY <1>0, <1>5 DEF ReadFile, GoTo, DataTypeOK, Permits
    <2>2. RequestOf(t)' = NoRequest /\ RequestOf(t) = NoRequest
        BY <2>1 DEF RequestOf
    <2>3. QED
        BY <1>0, <1>1, <2>1, <2>2, Stutters
<1>6. CASE CheckWrite(t)
    <2>1. /\ step[t] = "open" /\ call[t].op = "write" /\ file' = file
          /\ step'[t] \in {"commit", "release"}
          /\ call'[t] = [call[t] EXCEPT !.current = file[call[t].path]]
        BY <1>0, <1>6 DEF CheckWrite, GoTo, DataTypeOK
    <2>2. /\ call'[t].op = "write" /\ call'[t].path = call[t].path
          /\ call'[t].expected = call[t].expected /\ call'[t].new = call[t].new
        BY <1>2, <2>1 DEF Call
    <2>3. CASE step'[t] = "commit"
        <3>1. RequestOf(t)' = RequestOf(t)
            BY <2>1, <2>2, <2>3 DEF RequestOf
        <3>2. QED
            BY <1>0, <1>1, <2>1, <3>1, Stutters
    <2>4. CASE step'[t] = "release"
        <3>1. RequestOf(t) # NoRequest
            BY <1>0, <2>1, RequestType
        <3>2. RequestOf(t)' = NoRequest
            BY <2>4 DEF RequestOf
        <3>3. QED
            BY <1>0, <1>1, <2>1, <3>1, <3>2, Fails
    <2>5. QED
        BY <2>1, <2>3, <2>4
<1>7. CASE CheckEdit(t)
    <2> DEFINE now == file[call[t].path]
               new == ApplyEdits(now, call[t].edits)
    <2>1. /\ step[t] = "open" /\ call[t].op = "edit" /\ file' = file
          /\ step'[t] \in {"commit", "release"}
        BY <1>0, <1>7 DEF CheckEdit, GoTo, DataTypeOK
    <2>2. \/ call' = [call EXCEPT ![t].current = now, ![t].new = new]
          \/ call' = [call EXCEPT ![t].current = now]
        BY <1>7 DEF CheckEdit
    <2> HIDE DEF now, new
    <2>3. /\ call'[t].op = "edit" /\ call'[t].path = call[t].path
          /\ call'[t].edits = call[t].edits
        BY <1>0, <1>2, <2>1, <2>2 DEF DataTypeOK, Call
    <2>4. CASE step'[t] = "commit"
        <3>1. RequestOf(t)' = RequestOf(t)
            BY <2>1, <2>3, <2>4 DEF RequestOf
        <3>2. QED
            BY <1>0, <1>1, <2>1, <3>1, Stutters
    <2>5. CASE step'[t] = "release"
        <3>1. RequestOf(t) # NoRequest
            BY <1>0, <2>1, RequestType
        <3>2. RequestOf(t)' = NoRequest
            BY <2>5 DEF RequestOf
        <3>3. QED
            BY <1>0, <1>1, <2>1, <3>1, <3>2, Fails
    <2>6. QED
        BY <2>1, <2>4, <2>5
<1>8. CASE Change(t)
    BY <1>8, ChangeSucceeds
<1>9. CASE GiveUp(t)
    <2>1. step[t] = "commit" /\ step'[t] = "release" /\ file' = file
        BY <1>0, <1>9 DEF GiveUp, Commit, GoTo, DataTypeOK
    <2>2. call[t].op # "read"
        BY <1>0, <2>1 DEF Editable
    <2>3. RequestOf(t) # NoRequest
        BY <1>0, <2>1, <2>2, RequestType
    <2>4. RequestOf(t)' = NoRequest
        BY <2>1 DEF RequestOf
    <2>5. QED
        BY <1>0, <1>1, <2>1, <2>3, <2>4, Fails
<1>10. CASE ReportRead(t) \/ ReportChange(t) \/ Release(t)
    <2>1. /\ step[t] \in {"observe", "record", "release"} /\ file' = file
          /\ step'[t] \in {"release", "idle"}
        BY <1>0, <1>10 DEF ReportRead, ReportChange, Release, GoTo, DataTypeOK
    <2>2. RequestOf(t)' = NoRequest /\ RequestOf(t) = NoRequest
        BY <2>1 DEF RequestOf
    <2>3. QED
        BY <1>0, <1>1, <2>1, <2>2, Stutters
<1>11. Commit(t) => Change(t) \/ GiveUp(t)
    BY <1>0 DEF Commit, Change, GiveUp, GoTo, DataTypeOK
<1>12. QED
    BY <1>3, <1>4, <1>5, <1>6, <1>7, <1>8, <1>9, <1>10, <1>11 DEF Continue

\* The coordinator implements FileRegister: through all its lanes, tickets, snapshots and
\* rings, a write is an atomic compare-and-replace and an edit an atomic
\* read-modify-replace of its file, and a call that fails changes nothing.
THEOREM CoordinatorImplementsRegister ==
    ASSUME RequestAssumption
    PROVE  Spec => RefinesRegister
<1>1. Init => RefinementInv
    <2>1. Init => CoordinatorInv
        BY CoordinatorInitInv
    <2>2. Init => Permits /\ Editable
        BY DEF Init, Permits, Editable
    <2>3. QED
        BY <2>1, <2>2 DEF RefinementInv
<1>2. RefinementInv /\ [Next]_vars => RefinementInv'
    BY CoordinatorStepInv, PermitsStep, EditableStep DEF RefinementInv
<1>3. Init => Register!RegisterInit
    <2> SUFFICES ASSUME Init PROVE Register!RegisterInit
        OBVIOUS
    <2>1. file \in [Paths -> Register!Disk]
        BY CoordinatorAssumption, SameContents DEF Init
    <2>2. \A t \in Threads : RequestOf(t) = NoRequest
        BY DEF Init, RequestOf
    <2>3. QED
        BY <2>1, <2>2 DEF Init, Register!RegisterInit
<1>4. RefinementInv /\ RefinementInv' /\ [Next]_vars
         => [Register!RegisterNext]_(Register!registerVars)
    <2> SUFFICES ASSUME RefinementInv, RefinementInv', [Next]_vars
                 PROVE  [Register!RegisterNext]_(Register!registerVars)
        OBVIOUS
    <2>1. ASSUME NEW p \in Paths, NEW c \in BypassContents, Bypass(p, c)
          PROVE  [Register!RegisterNext]_(Register!registerVars)
        <3>1. c \in Register!Disk
            BY CoordinatorAssumption, SameContents
        <3>2. Requested' = Requested
            BY <2>1 DEF Bypass, Requested, RequestOf
        <3>3. Register!Tamper(p)
            BY <2>1, <3>1, <3>2 DEF Bypass, Register!Tamper, Requested
        <3>4. QED
            BY <3>3 DEF Register!RegisterNext
    <2>2. CASE UNCHANGED vars
        <3>1. Requested' = Requested
            BY <2>2 DEF vars, Requested, RequestOf
        <3>2. QED
            BY <2>2, <3>1 DEF vars, Register!registerVars, Requested
    <2>3. QED
        BY <2>1, <2>2, BeginSubmits, ContinueMaps DEF Next
<1>5. QED
    BY <1>1, <1>2, <1>3, <1>4, PTL DEF Spec, RefinesRegister, Register!RegisterSpec

=============================================================================
