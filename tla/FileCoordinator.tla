--------------------------- MODULE FileCoordinator ---------------------------
(***************************************************************************)
(* The file coordinator shared by all supervisors of one project           *)
(* (pi-whim-agent-team/src/file_dispatch.rs): read, write and edit over    *)
(* the lanes of FileLane, the revisions each agent session has observed,   *)
(* and the ring of recent mutations that explains a conflict.              *)
(*                                                                         *)
(* One step of a call is what runs between two points where another thread *)
(* can interfere: the observations mutex, the lane mutex, and each access  *)
(* to the disk.  An agent is an (agent id, session id) pair; it may have   *)
(* several calls in progress, one per thread.                              *)
(***************************************************************************)
EXTENDS FileLane, FileContents

CONSTANTS
    Agents,
    None,            \* Option::None of a revision
    NoRequest,
    MutationLimit,   \* length of the mutation ring (16 in the code)
    EditLists,       \* the edit arguments calls may carry
    WriteContents,   \* the contents calls may write
    InitialDisk,     \* what a path may hold when the coordinator starts
    OfferedBases,    \* the base_revision / snapshot_id arguments, None included
    BypassContents   \* what programs outside the coordinator may leave in a file

ASSUME CoordinatorAssumption ==
    /\ None \notin Disk
    /\ MutationLimit \in Nat \ {0}
    /\ EditLists \subseteq Seq(ReplaceEdit) \ {<<>>}
    /\ WriteContents \subseteq Contents
    /\ InitialDisk \subseteq Disk
    /\ OfferedBases \subseteq Contents \cup {None}
    /\ BypassContents \subseteq Disk

VARIABLES
    file,       \* the disk
    observed,   \* observed[a][p]: the observations map
    mutations,  \* mutations[p]: the lane's ring, oldest first
    step,       \* step[t]: how far t's call has come
    call,       \* call[t]: its arguments and locals
    tampered    \* paths changed outside the coordinator (history, not in the code)

vars == <<laneVars, file, observed, mutations, step, call, tampered>>

Steps == {"idle", "snapshot", "queue", "open", "commit", "record", "observe", "release"}
Ops == {"read", "write", "edit"}

\* base: base_revision or snapshot_id; expected: the revision a write compares
\* with; current: the content read inside the permit; new: the content to leave
\* (a read: the content to report).
Call == [agent : Agents, path : Paths, op : Ops,
         base : Contents \cup {None}, expected : Disk \cup {None},
         edits : Seq(ReplaceEdit), current : Disk \cup {None}, new : Contents \cup {None}]

\* A thread that serves no call.
NoCall == [agent |-> None, path |-> None, op |-> "none", base |-> None,
           expected |-> None, edits |-> <<>>, current |-> None, new |-> None]

\* Who made a mutation and how is reported with it but decides nothing.
MutationRecord == [before : Contents \cup {Empty}, after : Contents]

Init ==
    /\ LaneInit
    /\ file \in [Paths -> InitialDisk]
    /\ observed = [a \in Agents |-> [p \in Paths |-> None]]
    /\ mutations = [p \in Paths |-> <<>>]
    /\ step = [t \in Threads |-> "idle"]
    /\ call = [t \in Threads |-> NoCall]
    /\ tampered = {}

GoTo(t, s) == step' = [step EXCEPT ![t] = s]

-----------------------------------------------------------------------------
(* Starting a call *)

\* read_in_scope up to acquire_read.
BeginRead(t, a, p, snap) ==
    /\ step[t] = "idle"
    /\ call' = [call EXCEPT ![t] =
          [agent |-> a, path |-> p, op |-> "read", base |-> snap, expected |-> None,
           edits |-> <<>>, current |-> None, new |-> None]]
    /\ WantRead(t, p)
    /\ GoTo(t, "open")
    /\ UNCHANGED <<file, observed, mutations, tampered>>

\* The head of write_in_scope and edit_in_scope: the revision the call expects is
\* base_revision, else the one its agent observed, else (a step of its own) the one on disk.
BeginChange(t, a, p, op, base, edits, new) ==
    LET expected == IF base # None THEN base ELSE observed[a][p] IN
    /\ step[t] = "idle"
    /\ call' = [call EXCEPT ![t] =
          [agent |-> a, path |-> p, op |-> op, base |-> base, expected |-> expected,
           edits |-> edits, current |-> None, new |-> new]]
    /\ GoTo(t, IF expected = None THEN "snapshot" ELSE "queue")
    /\ UNCHANGED <<laneVars, file, observed, mutations, tampered>>

BeginWrite(t, a, p, base, new) == BeginChange(t, a, p, "write", base, <<>>, new)
BeginEdit(t, a, p, base, edits) == BeginChange(t, a, p, "edit", base, edits, None)

\* snapshot_revision: no file is no revision; another I/O error ends the call.
Snapshot(t) ==
    /\ step[t] = "snapshot"
    /\ \/ call' = [call EXCEPT ![t].expected = file[call[t].path]] /\ GoTo(t, "queue")
       \/ call' = [call EXCEPT ![t] = NoCall] /\ GoTo(t, "idle")
    /\ UNCHANGED <<laneVars, file, observed, mutations, tampered>>

Enqueue(t) ==
    /\ step[t] = "queue"
    /\ WantWrite(t, call[t].path)
    /\ GoTo(t, "open")
    /\ UNCHANGED <<file, observed, mutations, call, tampered>>

\* The waiting part of acquire_read and acquire_write.
LaneStep(t) ==
    /\ AcquireRead(t) \/ AcquireWrite(t) \/ Park(t) \/ SpuriousWakeup(t)
    /\ UNCHANGED <<file, observed, mutations, step, call, tampered>>

-----------------------------------------------------------------------------
(* Inside a permit *)

\* read: fails on a missing file, a stale snapshot, or content it cannot render.
ReadFile(t) ==
    LET c == call[t] IN
    /\ step[t] = "open" /\ phase[t] = "reading"
    /\ \/ /\ file[c.path] # Absent
          /\ c.base \in {None, file[c.path]}
          /\ call' = [call EXCEPT ![t].new = file[c.path]]
          /\ GoTo(t, "observe")
       \/ UNCHANGED call /\ GoTo(t, "release")
    /\ UNCHANGED <<laneVars, file, observed, mutations, tampered>>

\* Mutant of CheckWrite: the comparison was made before the call queued, and is trusted.
CheckWriteTrusting(t) ==
    LET c == call[t] IN
    /\ step[t] = "open" /\ phase[t] = "writing" /\ c.op = "write"
    /\ call' = [call EXCEPT ![t].current = file[c.path]]
    /\ GoTo(t, "commit")
    /\ UNCHANGED <<laneVars, file, observed, mutations, tampered>>

\* write: compare the revision on disk with the expected one.  (A file that is there and cannot be
\* read is taken for an empty one by the code; here, what is there can be read.)
CheckWrite(t) ==
    LET c == call[t] IN
    /\ step[t] = "open" /\ phase[t] = "writing" /\ c.op = "write"
    /\ call' = [call EXCEPT ![t].current = file[c.path]]
    /\ GoTo(t, IF c.expected = file[c.path] THEN "commit" ELSE "release")
    /\ UNCHANGED <<laneVars, file, observed, mutations, tampered>>

\* edit: find the anchors in what is on disk now, whatever was expected.
CheckEdit(t) ==
    LET c == call[t]
        now == file[c.path]
    IN
    /\ step[t] = "open" /\ phase[t] = "writing" /\ c.op = "edit"
    /\ IF now # Absent /\ EditOutcome(now, c.edits) = "ok"
       THEN /\ call' = [call EXCEPT ![t].current = now, ![t].new = ApplyEdits(now, c.edits)]
            /\ GoTo(t, "commit")
       ELSE /\ call' = [call EXCEPT ![t].current = now]
            /\ GoTo(t, "release")
    /\ UNCHANGED <<laneVars, file, observed, mutations, tampered>>

\* atomic_write: the rename replaces the file whole, or an I/O error leaves it.
Commit(t) ==
    LET c == call[t] IN
    /\ step[t] = "commit"
    /\ \/ file' = [file EXCEPT ![c.path] = c.new] /\ GoTo(t, "record")
       \/ UNCHANGED file /\ GoTo(t, "release")
    /\ UNCHANGED <<laneVars, observed, mutations, call, tampered>>

\* Mutants of Pushed: no limit; a full ring keeps the oldest; the newest goes first.
PushedUnbounded(ring, m) == Append(ring, m)
PushedWhileRoom(ring, m) == IF Len(ring) >= MutationLimit THEN ring ELSE Append(ring, m)
PushedInFront(ring, m) ==
    <<m>> \o (IF Len(ring) >= MutationLimit THEN SubSeq(ring, 1, MutationLimit - 1) ELSE ring)

\* The ring after one more mutation.
Pushed(ring, m) == Append(IF Len(ring) >= MutationLimit THEN Tail(ring) ELSE ring, m)

\* observe: the revision returned to the agent is what it will be held to.
Observing(c) == observed' = [observed EXCEPT ![c.agent][c.path] = c.new]

\* The tail of a read.
ReportRead(t) ==
    /\ step[t] = "observe"
    /\ Observing(call[t])
    /\ GoTo(t, "release")
    /\ UNCHANGED <<laneVars, file, mutations, call, tampered>>

\* The tail of a change: record_mutation, which also notifies the lane, and observe.
\* Only a holder of the write permit looks at the ring, so the two are one step.
ReportChange(t) ==
    LET c == call[t] IN
    /\ step[t] = "record"
    /\ mutations' = [mutations EXCEPT ![c.path] =
          Pushed(@, [before |-> IF c.current = Absent THEN Empty ELSE c.current,
                     after |-> c.new])]
    /\ NotifyLane(t)
    /\ Observing(c)
    /\ GoTo(t, "release")
    /\ UNCHANGED <<file, call, tampered>>

\* The permit is dropped on return, after a success and after any error.
Release(t) ==
    /\ step[t] = "release"
    /\ DropRead(t) \/ DropWrite(t)
    /\ call' = [call EXCEPT ![t] = NoCall]
    /\ GoTo(t, "idle")
    /\ UNCHANGED <<file, observed, mutations, tampered>>

-----------------------------------------------------------------------------

\* bash and other programs change files without the coordinator.
Bypass(p, c) ==
    /\ file' = [file EXCEPT ![p] = c]
    /\ tampered' = tampered \cup {p}
    /\ UNCHANGED <<laneVars, observed, mutations, step, call>>

Begin(t) ==
    \E a \in Agents, p \in Paths, base \in OfferedBases :
        \/ BeginRead(t, a, p, base)
        \/ \E new \in WriteContents : BeginWrite(t, a, p, base, new)
        \/ \E edits \in EditLists : BeginEdit(t, a, p, base, edits)

Continue(t) ==
    \/ Snapshot(t) \/ Enqueue(t) \/ LaneStep(t)
    \/ ReadFile(t) \/ CheckWrite(t) \/ CheckEdit(t)
    \/ Commit(t) \/ ReportRead(t) \/ ReportChange(t) \/ Release(t)

Next ==
    \/ \E t \in Threads : Begin(t) \/ Continue(t)
    \/ \E p \in Paths, c \in BypassContents : Bypass(p, c)

Spec == Init /\ [][Next]_vars

-----------------------------------------------------------------------------
(* Properties *)

TypeOK ==
    /\ LaneTypeOK
    /\ file \in [Paths -> Disk]
    /\ observed \in [Agents -> [Paths -> Contents \cup {None}]]
    /\ mutations \in [Paths -> Seq(MutationRecord)]
    /\ \A p \in Paths : Len(mutations[p]) <= MutationLimit
    /\ step \in [Threads -> Steps]
    /\ call \in [Threads -> Call \cup {NoCall}]
    /\ tampered \subseteq Paths

\* What a call is about to put on disk is still right when it does: the content it
\* compared (write) or edited (edit) has not changed since it looked, whatever calls
\* of other agents, or of its own agent, run at the same time.  Only a program that
\* bypasses the coordinator can get in between.
CommitFresh ==
    \A t \in Threads :
        LET c == call[t] IN
        (step[t] = "commit" /\ c.path \notin tampered) =>
            /\ file[c.path] = c.current
            /\ c.op = "write" => c.expected = c.current
            /\ c.op = "edit" => c.new = ApplyEdits(c.current, c.edits)

\* The recent mutations of a file form one chain that ends in what is on disk: no
\* change is recorded out of order, twice, or not at all.  A conflict's details
\* (previous_operation, before, after) are read from this chain.
HistoryChain ==
    \A p \in Paths \ tampered :
        LET ring == mutations[p]
            inFlight == \E t \in Threads : step[t] = "record" /\ call[t].path = p
        IN  /\ \A i \in 1 .. Len(ring) - 1 : ring[i].after = ring[i + 1].before
            /\ (ring # <<>> /\ ~inFlight) => ring[Len(ring)].after = file[p]

\* A write that did not bring its own base revision and is refused can always be
\* told who changed the file: the last record of the ring is the change that
\* produced the content it ran into.
ConflictExplained ==
    \A t \in Threads :
        LET c == call[t] IN
        ( /\ step[t] = "release" /\ c.op = "write" /\ c.base = None
          /\ c.path \notin tampered /\ c.expected # c.current )
        => /\ mutations[c.path] # <<>>
           /\ mutations[c.path][Len(mutations[c.path])].after = c.current

\* The coordinator does what FileRegister promises.  A call is a request from the
\* moment its expected revision is fixed until it commits or gives up.
RequestOf(t) ==
    LET c == call[t] IN
    IF step[t] \notin {"queue", "open", "commit"} \/ c.op = "read" THEN NoRequest
    ELSE IF c.op = "write"
         THEN [op |-> "write", path |-> c.path, expected |-> c.expected, new |-> c.new]
         ELSE [op |-> "edit", path |-> c.path, edits |-> c.edits]

Register == INSTANCE FileRegister WITH request <- [t \in Threads |-> RequestOf(t)]

RefinesRegister == Register!RegisterSpec

=============================================================================
