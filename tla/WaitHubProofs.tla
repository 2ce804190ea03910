---------------------------- MODULE WaitHubProofs ----------------------------
(***************************************************************************)
(* TLAPS proofs about WaitHub for any clients, tasks, sources and limits:  *)
(* its state is well typed and bounded, an event wins over a deadline, no  *)
(* wakeup is lost, task_state is never behind what was told, and every     *)
(* completion is told once and in order.                                   *)
(*                                                                         *)
(* HubInv is what all of them rest on: where threads can be, what the      *)
(* table of tasks holds, that one thread drains, and that the ring is the  *)
(* newest part of what was published.  Each property then has a part of    *)
(* its own that is inductive beside HubInv: Limits counts the pending      *)
(* tasks; NoLostWakeup itself; Shown says that no snapshot queued after a  *)
(* completion shows its task pending; Reports that what has been told, is  *)
(* in the drainer's hand and is queued names every settled task once.      *)
(***************************************************************************)
EXTENDS WaitHub, SequenceLemmas

-----------------------------------------------------------------------------
(* What Kept computes *)

\* f holds what Kept has after each element of s.
KeptBy(s, S, f) ==
    /\ f[0] = <<>>
    /\ \A n \in 1 .. Len(s) : f[n] = IF s[n] \in S THEN Append(f[n - 1], s[n]) ELSE f[n - 1]

LEMMA KeptDef ==
    ASSUME NEW T, NEW s \in Seq(T), NEW S
    PROVE  \E f : KeptBy(s, S, f) /\ Kept(s, S) = f[Len(s)]
<1> DEFINE step(f, n) == IF n = 0 THEN <<>>
                         ELSE IF s[n] \in S THEN Append(f[n - 1], s[n]) ELSE f[n - 1]
           g == CHOOSE f : f = [n \in 0 .. Len(s) |-> step(f, n)]
           partial(m, h) == h = [n \in 0 .. m |-> step(h, n)]
           D == {m \in Nat : m <= Len(s) => \E h : partial(m, h)}
<1>0. Len(s) \in Nat
    BY LenProperties
<1>1. Kept(s, S) = g[Len(s)]
    BY Zenon DEF Kept
<1>2. 0 \in D
    <2> DEFINE h == [n \in 0 .. 0 |-> <<>>]
    <2>1. \A n \in 0 .. 0 : step(h, n) = <<>>
        OBVIOUS
    <2>2. partial(0, h)
        BY <2>1
    <2>3. QED
        BY <2>2
<1>3. ASSUME NEW m \in Nat, m \in D PROVE m + 1 \in D
    <2>1. SUFFICES ASSUME m + 1 <= Len(s) PROVE \E h : partial(m + 1, h)
        BY SMTT(30)
    <2>2. PICK h : partial(m, h)
        BY <1>0, <1>3, <2>1
    <2> DEFINE k == [n \in 0 .. (m + 1) |-> IF n = m + 1 THEN step(h, m + 1) ELSE h[n]]
    <2>3. \A n \in 0 .. (m + 1) : k[n] = step(k, n)
        <3>1. TAKE n \in 0 .. (m + 1)
        <3>2. n # 0 => n - 1 \in 0 .. m /\ k[n - 1] = h[n - 1]
            OBVIOUS
        <3>3. n # m + 1 => n \in 0 .. m /\ k[n] = h[n]
            OBVIOUS
        <3>4. n \in 0 .. m => h[n] = step(h, n)
            BY <2>2
        <3>5. step(k, n) = step(h, n)
            BY <3>2
        <3>6. k[m + 1] = step(h, m + 1)
            OBVIOUS
        <3> HIDE DEF k, step
        <3>7. QED
            BY <3>3, <3>4, <3>5, <3>6
    <2>4. partial(m + 1, k)
        <3>1. k = [n \in 0 .. (m + 1) |-> k[n]]
            OBVIOUS
        <3> HIDE DEF k, step
        <3>2. QED
            BY <2>3, <3>1
    <2>5. QED
        BY <2>4
<1>4. \E f : f = [n \in 0 .. Len(s) |-> step(f, n)]
    <2>1. \A n \in Nat : n \in D
        <3> HIDE DEF D
        <3>1. QED
            BY <1>2, <1>3, InductionOverSet
    <2>2. Len(s) \in D
        BY <1>0, <2>1
    <2>3. \E h : partial(Len(s), h)
        BY <1>0, <2>2
    <2>4. QED
        BY <2>3, Zenon
<1>5. g = [n \in 0 .. Len(s) |-> step(g, n)]
    BY <1>4, Zenon
<1>6. KeptBy(s, S, g)
    <2> HIDE DEF g
    <2>1. \A n \in 0 .. Len(s) : g[n] = step(g, n)
        BY <1>5
    <2>2. QED
        BY <1>0, <2>1 DEF KeptBy
<1>7. QED
    BY <1>1, <1>6


\* Kept(s, S) has exactly the members of s that are in S, and repeats none that s does not.
LEMMA KeptFacts ==
    ASSUME NEW T, NEW s \in Seq(T), NEW S
    PROVE  /\ Kept(s, S) \in Seq(T)
           /\ ToSet(Kept(s, S)) = ToSet(s) \cap S
           /\ Unrepeated(s) => Unrepeated(Kept(s, S))
           /\ Kept(s, S) = <<>> <=> ToSet(s) \cap S = {}
<1>0. Len(s) \in Nat /\ \A n \in 1 .. Len(s) : s[n] \in T
    OBVIOUS
<1>1. PICK f : KeptBy(s, S, f) /\ Kept(s, S) = f[Len(s)]
    BY KeptDef
<1> DEFINE upTo(n) == {x \in T : \E i \in 1 .. n : s[i] = x}
           fine(n) == /\ f[n] \in Seq(T)
                      /\ ToSet(f[n]) = upTo(n) \cap S
                      /\ Unrepeated(s) => Unrepeated(f[n])
           D == {n \in Nat : n <= Len(s) => fine(n)}
<1>2. 0 \in D
    <2>1. f[0] = <<>>
        BY <1>1 DEF KeptBy
    <2>2. upTo(0) = {}
        OBVIOUS
    <2>3. f[0] \in Seq(T)
        BY <2>1
    <2> HIDE DEF upTo
    <2>4. fine(0)
        BY <2>1, <2>2, <2>3, MembersEmpty
    <2>5. QED
        BY <2>4
<1>3. ASSUME NEW n \in Nat, n \in D PROVE n + 1 \in D
    <2>0. n + 1 \in Nat
        OBVIOUS
    <2>1. SUFFICES ASSUME n + 1 <= Len(s) PROVE fine(n + 1)
        BY <2>0, Zenon
    <2>2. n <= Len(s) /\ n + 1 \in 1 .. Len(s) /\ (n + 1) - 1 = n
        BY <1>0, <2>1
    <2>3. fine(n)
        BY <1>3, <2>2, Zenon
    <2>4. f[n + 1] = IF s[n + 1] \in S THEN Append(f[n], s[n + 1]) ELSE f[n]
        BY <1>1, <2>2 DEF KeptBy
    <2>5. s[n + 1] \in T
        BY <1>0, <2>2
    <2>6. upTo(n + 1) = upTo(n) \cup {s[n + 1]}
        <3>1. 1 .. n + 1 = (1 .. n) \cup {n + 1}
            OBVIOUS
        <3>2. QED
            BY <2>5, <3>1
    <2>7. ASSUME Unrepeated(s) PROVE s[n + 1] \notin upTo(n)
        <3>1. \A i \in 1 .. n : i \in 1 .. Len(s) /\ i # n + 1
            BY <1>0, <2>2
        <3>2. \A i \in 1 .. n : s[i] # s[n + 1]
            BY <2>2, <2>7, <3>1 DEF Unrepeated
        <3>3. QED
            BY <3>2
    <2> HIDE DEF upTo
    <2>8. CASE s[n + 1] \in S
        <3>1. f[n + 1] = Append(f[n], s[n + 1])
            BY <2>4, <2>8
        <3>2. /\ Append(f[n], s[n + 1]) \in Seq(T)
              /\ ToSet(Append(f[n], s[n + 1])) = ToSet(f[n]) \cup {s[n + 1]}
              /\ Unrepeated(f[n]) /\ s[n + 1] \notin ToSet(f[n])
                     => Unrepeated(Append(f[n], s[n + 1]))
            BY <2>3, <2>5, MembersAppend
        <3>3. ToSet(f[n]) = upTo(n) \cap S /\ (Unrepeated(s) => Unrepeated(f[n]))
            BY <2>3
        <3>4. ToSet(f[n + 1]) = upTo(n + 1) \cap S
            BY <2>6, <2>8, <3>1, <3>2, <3>3
        <3>5. Unrepeated(s) => Unrepeated(f[n + 1])
            BY <2>7, <3>1, <3>2, <3>3
        <3>6. QED
            BY <3>1, <3>2, <3>4, <3>5
    <2>9. CASE s[n + 1] \notin S
        BY <2>3, <2>4, <2>6, <2>9
    <2>10. QED
        BY <2>8, <2>9
<1>4. \A n \in Nat : n \in D
    <2> HIDE DEF D
    <2>1. QED
        BY <1>2, <1>3, InductionOverSet
<1>5. fine(Len(s))
    <2>1. Len(s) \in D
        BY <1>0, <1>4, Zenon
    <2>2. Len(s) <= Len(s)
        BY <1>0
    <2>3. QED
        BY <2>1, <2>2, Zenon
<1>6. upTo(Len(s)) = ToSet(s)
    <2>1. \A x : x \in ToSet(s) <=> \E i \in 1 .. Len(s) : s[i] = x
        BY MembersOf
    <2>2. QED
        BY <1>0, <2>1
<1> HIDE DEF upTo
<1>7. /\ Kept(s, S) \in Seq(T)
      /\ ToSet(Kept(s, S)) = ToSet(s) \cap S
      /\ Unrepeated(s) => Unrepeated(Kept(s, S))
    BY <1>1, <1>5, <1>6
<1>8. Kept(s, S) = <<>> <=> ToSet(s) \cap S = {}
    BY <1>7, MembersOf
<1>9. QED
    BY <1>7, <1>8

-----------------------------------------------------------------------------
(* The inductive invariant *)

\* Where a thread can be.
Places ==
    /\ \A c \in Clients : pc[c] \in {"idle", "notify", "drain", "wait", "parked"}
    /\ pc[Coordinator] \in {"settle", "drain", "parked", "stopped"}

\* The map holds the pending tasks and the retained completed ones, each once.
Table ==
    /\ Unrepeated(order) /\ Unrepeated(completed)
    /\ ToSet(order) = {k \in Tasks : status[k] = "pending"} \cup ToSet(completed)
    /\ \A k \in ToSet(completed) : status[k] \in Terminal
    /\ Len(completed) <= CompletedRetention

\* The flag draining is up exactly while one thread drains; nothing is queued or in hand
\* while nobody does.
Draining ==
    /\ \A x, y \in Threads : pc[x] = "drain" /\ pc[y] = "drain" => x = y
    /\ draining <=> \E x \in Threads : pc[x] = "drain"
    /\ \A x \in Threads : unsaid[x] # <<>> => pc[x] = "drain"
    /\ ~draining => updates = <<>>

\* The ring is the newest part of what was published.
Ring ==
    /\ Len(log) = sequence
    /\ Len(events) = IF sequence < EventRetention THEN sequence ELSE EventRetention
    /\ \A i \in 1 .. Len(events) : events[i] = log[sequence - Len(events) + i]

HubInv == TypeOK /\ Places /\ Table /\ Draining /\ Ring

\* In the hub's table a task is pending exactly if its last status says so.
LEMMA PendingIs ==
    ASSUME Table
    PROVE  PendingTasks = {k \in Tasks : status[k] = "pending"}
BY DEF Table, PendingTasks, Pending

LEMMA HubInitial == HubAssumption /\ Init => HubInv
<1> SUFFICES ASSUME HubAssumption, Init PROVE HubInv
    OBVIOUS
<1> USE DEF HubAssumption, Init
<1>1. Snapshot \in [Tasks -> Statuses \cup {"gone"}]
    BY DEF Snapshot, Statuses
<1>2. /\ <<>> \in Seq(Event) /\ Len(<<>>) = 0 /\ <<>> \in Seq(Tasks)
      /\ <<>> \in Seq([tasks : [Tasks -> Statuses \cup {"gone"}], done : Seq(Tasks)])
    BY EmptySeq
<1>3. TypeOK
    <2>1. /\ source \in [Sources -> {"absent", "open", "closed"}]
          /\ status \in [Tasks -> Statuses]
          /\ query \in [Waiters -> Monitor \cup {Timer, NoQuery}]
          /\ timed \subseteq Tasks /\ late \subseteq Tasks
        BY DEF Statuses
    <2>2. /\ events \in Seq(Event) /\ Len(events) <= EventRetention
          /\ sequence \in 0 .. MaxSequence /\ log \in Seq(Event)
          /\ order \in Seq(Tasks) /\ completed \in Seq(Tasks) /\ told \in Seq(Tasks)
        BY <1>2
    <2>3. /\ updates \in Seq([tasks : [Tasks -> Statuses \cup {"gone"}], done : Seq(Tasks)])
          /\ unsaid \in [Threads -> Seq(Tasks)]
          /\ taskState \in [Tasks -> Statuses \cup {"gone"}]
        BY <1>1, <1>2
    <2>4. pc \in [Threads -> {"idle", "notify", "drain", "wait", "parked", "settle", "stopped"}]
        OBVIOUS
    <2>5. QED
        BY <2>1, <2>2, <2>3, <2>4 DEF TypeOK
<1>4. Places /\ Draining
    BY DEF Places, Draining, Threads
<1>5. Table
    BY MembersEmpty DEF Table
<1>6. Ring
    BY DEF Ring
<1>7. QED
    BY <1>3, <1>4, <1>5, <1>6 DEF HubInv

-----------------------------------------------------------------------------
(* What the steps have in common *)

Done(x, next) == (x \in Clients /\ next = "notify") \/ (x = Coordinator /\ next = "settle")

\* A thread that does not drain adds an update.
LEMMA EnqueueKeeps ==
    ASSUME HubAssumption, TypeOK, Places, Draining, NEW x \in Threads, NEW next, Done(x, next),
           pc[x] # "drain", NEW done \in Seq(Tasks), Enqueue(x, done, next),
           Snapshot' \in [Tasks -> Statuses \cup {"gone"}], UNCHANGED unsaid
    PROVE  /\ updates' \in Seq([tasks : [Tasks -> Statuses \cup {"gone"}], done : Seq(Tasks)])
           /\ draining' \in BOOLEAN
           /\ pc' \in [Threads -> {"idle", "notify", "drain", "wait", "parked", "settle", "stopped"}]
           /\ Places' /\ Draining'
<1> DEFINE u == [tasks |-> Snapshot', done |-> done]
           U == [tasks : [Tasks -> Statuses \cup {"gone"}], done : Seq(Tasks)]
           place == IF draining THEN next ELSE "drain"
<1>1. u \in U
    OBVIOUS
<1>2. updates' = Append(updates, u) /\ updates \in Seq(U)
    BY DEF Enqueue, TypeOK
<1> HIDE DEF u, U
<1>3. updates' \in Seq(U) /\ updates' # <<>>
    BY <1>1, <1>2, AppendProperties
<1>4. draining' = TRUE /\ pc' = [pc EXCEPT ![x] = place] /\ place \in {"notify", "settle", "drain"}
    BY DEF Enqueue, GoTo, Done
<1>5. pc \in [Threads -> {"idle", "notify", "drain", "wait", "parked", "settle", "stopped"}]
    BY DEF TypeOK
<1>6. pc' \in [Threads -> {"idle", "notify", "drain", "wait", "parked", "settle", "stopped"}]
    BY <1>4, <1>5
<1>7. pc'[x] = place /\ \A y \in Threads : y # x => pc'[y] = pc[y]
    BY <1>4, <1>5
<1>8. Places'
    BY <1>7 DEF Places, Threads, Done, HubAssumption
<1>9. Draining'
    <2>1. draining => place # "drain"
        BY DEF Done
    <2>2. ~draining => place = "drain" /\ \A y \in Threads : pc[y] # "drain"
        BY DEF Draining
    <2>3. draining => \E y \in Threads : y # x /\ pc[y] = "drain"
        BY DEF Draining
    <2>4. \A y \in Threads : unsaid'[y] # <<>> => pc[y] = "drain" /\ y # x
        BY DEF Draining
    <2> HIDE DEF place
    <2>5. \A y, z \in Threads : pc'[y] = "drain" /\ pc'[z] = "drain" => y = z
        BY <1>7, <2>1, <2>2, <2>3 DEF Draining
    <2>6. \E y \in Threads : pc'[y] = "drain"
        BY <1>7, <2>2, <2>3
    <2>7. \A y \in Threads : unsaid'[y] # <<>> => pc'[y] = "drain"
        BY <1>7, <2>4
    <2>8. QED
        BY <1>4, <2>5, <2>6, <2>7 DEF Draining
<1>10. QED
    BY <1>3, <1>4, <1>6, <1>8, <1>9 DEF U

\* The tasks of done, which are pending, leave the pending tasks and enter the completed
\* ones, of which the oldest leave the map.
LEMMA CompleteKeeps ==
    ASSUME HubAssumption, TypeOK, Table,
           NEW done \in Seq(Tasks), Unrepeated(done), ToSet(done) \subseteq PendingTasks,
           NEW outcome, \A k \in ToSet(done) : outcome[k] \in Terminal, Complete(done, outcome)
    PROVE  /\ status' \in [Tasks -> Statuses]
           /\ query' \in [Waiters -> Monitor \cup {Timer, NoQuery}]
           /\ order' \in Seq(Tasks) /\ completed' \in Seq(Tasks)
           /\ Table'
           /\ \A k \in Tasks : IF k \in ToSet(done) THEN status'[k] \in Terminal
                                                   ELSE status'[k] = status[k]
           /\ \A x \in Waiters : x \notin ToSet(done) => query'[x] = query[x]
           /\ \E m \in Nat \ {0} : completed' = SubSeq(completed \o done, m, Len(completed \o done))
<1> DEFINE all == completed \o done
           gone == Evicted(done)
           g == Len(gone)
<1>1. ToSet(done) \subseteq {k \in Tasks : status[k] = "pending"}
    BY PendingIs
<1>2. /\ status' = [k \in Tasks |-> IF k \in ToSet(done) THEN outcome[k] ELSE status[k]]
      /\ query' = [x \in Waiters |-> IF x \in ToSet(done) THEN NoQuery ELSE query[x]]
      /\ completed' = SubSeq(all, g + 1, Len(all))
      /\ order' = Kept(order, Tasks \ ToSet(gone))
    BY DEF Complete
<1>3. /\ order \in Seq(Tasks) /\ completed \in Seq(Tasks) /\ CompletedRetention \in Nat
      /\ status \in [Tasks -> Statuses] /\ query \in [Waiters -> Monitor \cup {Timer, NoQuery}]
    BY DEF TypeOK, HubAssumption
<1>4. ToSet(completed) \cap ToSet(done) = {}
    BY <1>1 DEF Table, Terminal
<1>5. /\ all \in Seq(Tasks) /\ Unrepeated(all) /\ ToSet(all) = ToSet(completed) \cup ToSet(done)
      /\ Len(all) \in Nat
    BY <1>3, <1>4, MembersConcat DEF Table
<1>6. gone = SubSeq(all, 1, Len(all) - CompletedRetention)
    BY DEF Evicted
<1> HIDE DEF all, gone
<1>7. /\ gone \in Seq(Tasks) /\ g \in 0 .. Len(all) /\ Len(all) - g <= CompletedRetention
      /\ gone = SubSeq(all, 1, g)
    <2> DEFINE n == Len(all) - CompletedRetention
    <2>1. n \in Int /\ n <= Len(all)
        BY <1>3, <1>5
    <2>2. gone \in Seq(Tasks) /\ g = IF 1 <= n THEN n - 1 + 1 ELSE 0
        BY <1>5, <1>6, <2>1, MembersSubSeq
    <2>3. g \in 0 .. Len(all) /\ Len(all) - g <= CompletedRetention
        BY <1>3, <1>5, <2>1, <2>2
    <2>4. CASE 1 <= n
        BY <1>6, <2>1, <2>2, <2>3, <2>4
    <2>5. CASE ~(1 <= n)
        <3>1. g = 0 /\ n < 1
            BY <2>1, <2>2, <2>5
        <3>2. gone = <<>>
            BY <1>6, <2>1, <3>1, SubSeqEmpty
        <3>3. SubSeq(all, 1, g) = <<>>
            BY <3>1, SubSeqEmpty
        <3>4. QED
            BY <2>2, <2>3, <3>2, <3>3
    <2>6. QED
        BY <2>4, <2>5
<1> HIDE DEF g
<1>8. /\ completed' \in Seq(Tasks) /\ Unrepeated(completed') /\ Len(completed') <= CompletedRetention
      /\ ToSet(completed') = ToSet(all) \ ToSet(gone)
      /\ g + 1 \in Nat \ {0}
    <2>1. g + 1 \in Nat \ {0} /\ Len(all) \in Int /\ Len(all) <= Len(all)
        BY <1>5, <1>7
    <2>2. /\ completed' \in Seq(Tasks)
          /\ Len(completed') = IF g + 1 <= Len(all) THEN Len(all) - (g + 1) + 1 ELSE 0
          /\ Unrepeated(completed')
        BY <1>2, <1>5, <2>1, MembersSubSeq
    <2>3. Len(completed') <= CompletedRetention
        BY <1>3, <1>5, <1>7, <2>2
    <2>4. ToSet(completed') = ToSet(all) \ ToSet(gone)
        BY <1>2, <1>5, <1>7, MembersSplit
    <2>5. QED
        BY <2>1, <2>2, <2>3, <2>4
<1>9. /\ order' \in Seq(Tasks) /\ Unrepeated(order')
      /\ ToSet(order') = ToSet(order) \cap (Tasks \ ToSet(gone))
    BY <1>2, <1>3, KeptFacts DEF Table
<1>10. \A k \in Tasks : IF k \in ToSet(done) THEN status'[k] \in Terminal
                                            ELSE status'[k] = status[k]
    BY <1>2
<1>11. status' \in [Tasks -> Statuses] /\ query' \in [Waiters -> Monitor \cup {Timer, NoQuery}]
    <2>1. Terminal \subseteq Statuses
        BY DEF Statuses
    <2>2. \A k \in Tasks : status'[k] \in Statuses
        BY <1>3, <1>10, <2>1
    <2>3. status' = [k \in Tasks |-> status'[k]]
        BY <1>2
    <2>4. QED
        BY <1>2, <1>3, <2>2, <2>3
<1>12. Table'
    <2>1. ToSet(order) \subseteq Tasks /\ ToSet(gone) \subseteq ToSet(all)
        <3>1. ToSet(order) \subseteq Tasks
            BY <1>3, MembersOf
        <3>2. \A i \in 1 .. g : i \in 1 .. Len(all)
            BY <1>5, <1>7
        <3>3. ToSet(gone) = {all[i] : i \in 1 .. g}
            <4>1. g \in Int /\ g <= Len(all)
                BY <1>5, <1>7
            <4>2. QED
                BY <1>5, <1>7, <4>1, MembersSubSeq
        <3>4. \A i \in 1 .. Len(all) : all[i] \in ToSet(all)
            BY <1>5, MembersOf
        <3>5. QED
            BY <3>1, <3>2, <3>3, <3>4
    <2>2. {k \in Tasks : status'[k] = "pending"} =
              {k \in Tasks : status[k] = "pending"} \ ToSet(done)
        BY <1>10 DEF Terminal
    <2>3. ToSet(order') = {k \in Tasks : status'[k] = "pending"} \cup ToSet(completed')
        <3>1. ToSet(order) = {k \in Tasks : status[k] = "pending"} \cup ToSet(completed)
            BY DEF Table
        <3>2. \A k \in ToSet(completed) : status[k] # "pending"
            BY DEF Table, Terminal
        <3>3. QED
            BY <1>1, <1>5, <1>8, <1>9, <2>1, <2>2, <3>1, <3>2
    <2>4. \A k \in ToSet(completed') : status'[k] \in Terminal
        <3>1. \A k \in ToSet(completed') : k \in Tasks /\ (k \in ToSet(completed) \/ k \in ToSet(done))
            BY <1>5, <1>8, MembersOf
        <3>2. QED
            BY <1>10, <3>1 DEF Table
    <2>5. QED
        BY <1>8, <1>9, <2>3, <2>4 DEF Table
<1>13. \A x \in Waiters : x \notin ToSet(done) => query'[x] = query[x]
    BY <1>2
<1>14. \E m \in Nat \ {0} : completed' = SubSeq(completed \o done, m, Len(completed \o done))
    BY <1>2, <1>8 DEF all
<1>15. QED
    BY <1>8, <1>9, <1>10, <1>11, <1>12, <1>13, <1>14

LEMMA SnapshotType ==
    ASSUME status' \in [Tasks -> Statuses]
    PROVE  Snapshot' \in [Tasks -> Statuses \cup {"gone"}]
BY DEF Snapshot

\* The type invariant in three parts: what the mutex guards, the queue, the threads.
MapTypes ==
    /\ order \in Seq(Tasks) /\ completed \in Seq(Tasks)
    /\ status \in [Tasks -> Statuses]
    /\ query \in [Waiters -> Monitor \cup {Timer, NoQuery}]
EventTypes ==
    /\ source \in [Sources -> {"absent", "open", "closed"}]
    /\ events \in Seq(Event) /\ Len(events) <= EventRetention
    /\ sequence \in 0 .. MaxSequence
    /\ log \in Seq(Event)
    /\ shutdown \in BOOLEAN
QueueTypes ==
    /\ draining \in BOOLEAN
    /\ updates \in Seq([tasks : [Tasks -> Statuses \cup {"gone"}], done : Seq(Tasks)])
    /\ unsaid \in [Threads -> Seq(Tasks)] /\ told \in Seq(Tasks)
    /\ taskState \in [Tasks -> Statuses \cup {"gone"}]
ThreadTypes ==
    /\ pc \in [Threads -> {"idle", "notify", "drain", "wait", "parked", "settle", "stopped"}]
    /\ timed \subseteq Tasks /\ late \subseteq Tasks

LEMMA TypesInParts ==
    /\ TypeOK => MapTypes /\ EventTypes /\ QueueTypes /\ ThreadTypes
    /\ MapTypes' /\ EventTypes' /\ QueueTypes' /\ ThreadTypes' => TypeOK'
BY DEF TypeOK, MapTypes, EventTypes, QueueTypes, ThreadTypes

\* What a step leaves alone keeps its part of the invariant.
LEMMA MapStays ==
    MapTypes /\ Table /\ UNCHANGED <<order, completed, status, query>> => MapTypes' /\ Table'
BY DEF MapTypes, Table

LEMMA EventsStay ==
    /\ EventTypes /\ Ring /\ UNCHANGED <<source, events, sequence, shutdown, log>>
    => EventTypes' /\ Ring'
BY DEF EventTypes, Ring

LEMMA QueueStays == QueueTypes /\ UNCHANGED updateQueue => QueueTypes'
BY DEF QueueTypes, updateQueue

\* A client that does not drain goes on to something else than draining.
LEMMA ClientGoes ==
    ASSUME HubAssumption, ThreadTypes, Places, Draining, NEW c \in Clients, pc[c] # "drain",
           NEW l \in {"idle", "notify", "wait", "parked"}, GoTo(c, l), UNCHANGED updateQueue
    PROVE  /\ pc' \in [Threads -> {"idle", "notify", "drain", "wait", "parked", "settle", "stopped"}]
           /\ Places' /\ Draining'
<1>1. pc'[c] = l /\ \A y \in Threads : y # c => pc'[y] = pc[y]
    BY DEF GoTo, ThreadTypes, Threads
<1>2. pc' \in [Threads -> {"idle", "notify", "drain", "wait", "parked", "settle", "stopped"}]
    BY DEF GoTo, ThreadTypes
<1>3. Places'
    BY <1>1 DEF Places, Threads, HubAssumption
<1>4. \A y \in Threads : pc'[y] = "drain" <=> pc[y] = "drain"
    BY <1>1
<1>5. Draining'
    <2>1. draining' = draining /\ unsaid' = unsaid /\ updates' = updates
        BY DEF updateQueue
    <2>2. QED
        BY <1>4, <2>1 DEF Draining
<1>6. QED
    BY <1>2, <1>3, <1>5

\* The coordinator likewise.
LEMMA CoordinatorGoes ==
    ASSUME HubAssumption, ThreadTypes, Places, Draining, pc[Coordinator] # "drain",
           NEW l \in {"settle", "parked", "stopped"}, GoTo(Coordinator, l), UNCHANGED updateQueue
    PROVE  /\ pc' \in [Threads -> {"idle", "notify", "drain", "wait", "parked", "settle", "stopped"}]
           /\ Places' /\ Draining'
<1>1. pc'[Coordinator] = l /\ \A y \in Threads : y # Coordinator => pc'[y] = pc[y]
    BY DEF GoTo, ThreadTypes, Threads
<1>2. pc' \in [Threads -> {"idle", "notify", "drain", "wait", "parked", "settle", "stopped"}]
    BY DEF GoTo, ThreadTypes
<1>3. Places'
    BY <1>1 DEF Places, Threads, HubAssumption
<1>4. \A y \in Threads : pc'[y] = "drain" <=> pc[y] = "drain"
    BY <1>1
<1>5. Draining'
    <2>1. draining' = draining /\ unsaid' = unsaid /\ updates' = updates
        BY DEF updateQueue
    <2>2. QED
        BY <1>4, <2>1 DEF Draining
<1>6. QED
    BY <1>2, <1>3, <1>5

-----------------------------------------------------------------------------
(* Every step keeps the invariant *)

LEMMA RegisterKeeps ==
    ASSUME HubAssumption, HubInv, NEW c \in Clients, NEW s \in Sources,
           RegisterSource(c, s) \/ CloseSource(c, s)
    PROVE  HubInv'
<1>1. MapTypes /\ EventTypes /\ QueueTypes /\ ThreadTypes /\ Places /\ Table /\ Draining /\ Ring
    BY TypesInParts DEF HubInv
<1>2. /\ pc[c] = "idle" /\ GoTo(c, "notify") /\ UNCHANGED updateQueue
      /\ UNCHANGED <<order, completed, status, query, events, sequence, shutdown, log>>
      /\ UNCHANGED <<timed, late>>
      /\ \E l \in {"open", "closed"} : source' = [source EXCEPT ![s] = l]
    BY DEF RegisterSource, CloseSource, updateQueue
<1>3. MapTypes' /\ Table'
    BY <1>1, <1>2, MapStays
<1>4. EventTypes' /\ Ring'
    BY <1>1, <1>2 DEF EventTypes, Ring
<1>5. QueueTypes'
    BY <1>1, <1>2, QueueStays
<1>6. ThreadTypes' /\ Places' /\ Draining'
    BY <1>1, <1>2, ClientGoes DEF ThreadTypes
<1>7. QED
    BY <1>3, <1>4, <1>5, <1>6, TypesInParts DEF HubInv

LEMMA PublishKeeps ==
    ASSUME HubAssumption, HubInv, NEW c \in Clients, NEW s \in Sources, NEW p \in Payloads,
           Publish(c, s, p)
    PROVE  HubInv'
<1> DEFINE e == [seq |-> sequence + 1, source |-> s, payload |-> p]
<1>1. MapTypes /\ EventTypes /\ QueueTypes /\ ThreadTypes /\ Places /\ Table /\ Draining /\ Ring
    BY TypesInParts DEF HubInv
<1>2. /\ pc[c] = "idle" /\ GoTo(c, "notify") /\ UNCHANGED updateQueue
      /\ UNCHANGED <<order, completed, status, query, source, shutdown, timed, late>>
      /\ sequence < MaxSequence /\ sequence' = sequence + 1
      /\ events' = Retained(Append(events, e)) /\ log' = Append(log, e)
    BY DEF Publish, updateQueue
<1>3. /\ sequence \in Nat /\ MaxSequence \in Nat /\ EventRetention \in Nat \ {0}
      /\ events \in Seq(Event) /\ log \in Seq(Event) /\ e \in Event
    BY <1>1 DEF EventTypes, HubAssumption, Event
<1> HIDE DEF e
<1> DEFINE longer == Append(events, e)
           n == Len(events)
<1>4. /\ longer \in Seq(Event) /\ Len(longer) = n + 1 /\ longer # <<>> /\ n \in Nat
      /\ \A i \in 1 .. n : longer[i] = events[i]
      /\ longer[n + 1] = e
    BY <1>3, AppendProperties
<1>5. /\ log' \in Seq(Event) /\ Len(log') = sequence + 1
      /\ \A i \in 1 .. sequence : log'[i] = log[i]
      /\ log'[sequence + 1] = e
    BY <1>1, <1>2, <1>3, AppendProperties DEF Ring
<1>6. n = IF sequence < EventRetention THEN sequence ELSE EventRetention
    BY <1>1 DEF Ring
<1>7. \A i \in 1 .. n + 1 : longer[i] = log'[sequence - n + i]
    <2>1. n <= sequence
        BY <1>3, <1>6
    <2>2. \A i \in 1 .. n : sequence - n + i \in 1 .. sequence /\ events[i] = log[sequence - n + i]
        BY <1>1, <1>3, <1>4, <2>1 DEF Ring
    <2>3. sequence - n + (n + 1) = sequence + 1
        BY <1>3, <1>4
    <2>4. \A i \in 1 .. n + 1 : i \in 1 .. n \/ i = n + 1
        BY <1>4
    <2> HIDE DEF longer, n
    <2>5. \A i \in 1 .. n : longer[i] = log'[sequence - n + i]
        BY <1>4, <1>5, <2>2
    <2>6. longer[n + 1] = log'[sequence - n + (n + 1)]
        BY <1>4, <1>5, <2>3
    <2>7. QED
        BY <2>4, <2>5, <2>6
<1>8. /\ events' \in Seq(Event)
      /\ Len(events') = IF sequence' < EventRetention THEN sequence' ELSE EventRetention
      /\ \A i \in 1 .. Len(events') : events'[i] = log'[sequence' - Len(events') + i]
    <2>1. CASE n + 1 > EventRetention
        <3>1. events' = Tail(longer) /\ n = EventRetention
            BY <1>2, <1>3, <1>4, <1>6, <2>1 DEF Retained
        <3>2. /\ Tail(longer) \in Seq(Event) /\ Len(Tail(longer)) = n
              /\ \A i \in 1 .. n : Tail(longer)[i] = longer[i + 1]
            BY <1>4, HeadTailProperties
        <3>3. \A i \in 1 .. n : i + 1 \in 1 .. n + 1 /\ sequence - n + (i + 1) = sequence + 1 - n + i
            BY <1>3, <1>4
        <3>4. ~(sequence < EventRetention) /\ ~(sequence + 1 < EventRetention)
            BY <1>3, <1>6, <2>1
        <3> HIDE DEF longer, n
        <3>5. \A i \in 1 .. n : events'[i] = log'[sequence + 1 - n + i]
            BY <1>7, <3>1, <3>2, <3>3
        <3>6. Len(events') = n /\ events' \in Seq(Event)
            BY <3>1, <3>2
        <3>7. sequence' = sequence + 1 /\ ~(sequence' < EventRetention)
            BY <1>2, <3>4
        <3>8. \A i \in 1 .. Len(events') : events'[i] = log'[sequence' - Len(events') + i]
            <4>1. TAKE i \in 1 .. Len(events')
            <4>2. i \in 1 .. n /\ sequence' - Len(events') + i = sequence + 1 - n + i
                BY <1>3, <1>4, <3>6, <3>7
            <4>3. QED
                BY <3>5, <4>2
        <3>9. QED
            BY <3>1, <3>6, <3>7, <3>8
    <2>2. CASE ~(n + 1 > EventRetention)
        <3>1. events' = longer /\ n = sequence
            BY <1>2, <1>3, <1>4, <1>6, <2>2 DEF Retained
        <3>2. sequence + 1 <= EventRetention /\ sequence - n = 0 /\ sequence + 1 - (n + 1) = 0
            BY <1>3, <1>4, <2>2, <3>1
        <3>3. sequence' = sequence + 1 /\ n + 1 = sequence + 1
            BY <1>2, <3>1
        <3>4. \A i \in 1 .. n + 1 : sequence - n + i = sequence + 1 - (n + 1) + i
            BY <1>3, <3>1
        <3> HIDE DEF longer, n
        <3>5. events' \in Seq(Event) /\ Len(events') = n + 1
            BY <1>4, <3>1
        <3>6. \A i \in 1 .. Len(events') : events'[i] = log'[sequence' - Len(events') + i]
            <4>1. TAKE i \in 1 .. Len(events')
            <4>2. /\ i \in 1 .. n + 1 /\ sequence' - Len(events') + i = sequence + 1 - (n + 1) + i
                  /\ sequence - n + i = sequence + 1 - (n + 1) + i
                BY <1>3, <1>4, <3>3, <3>4, <3>5
            <4>3. longer[i] = log'[sequence - n + i]
                BY <1>7, <4>2
            <4>4. QED
                BY <3>1, <4>2, <4>3
        <3>7. Len(events') = IF sequence' < EventRetention THEN sequence' ELSE EventRetention
            BY <1>3, <3>2, <3>3, <3>5
        <3>8. QED
            BY <3>5, <3>6, <3>7
    <2>3. QED
        BY <2>1, <2>2
<1>9. EventTypes' /\ Ring'
    <2>1. sequence' \in 0 .. MaxSequence /\ Len(events') <= EventRetention
        BY <1>2, <1>3, <1>8
    <2>2. QED
        BY <1>1, <1>2, <1>5, <1>8, <2>1 DEF EventTypes, Ring
<1>10. MapTypes' /\ Table' /\ QueueTypes'
    BY <1>1, <1>2, MapStays, QueueStays
<1>11. ThreadTypes' /\ Places' /\ Draining'
    BY <1>1, <1>2, ClientGoes DEF ThreadTypes
<1>12. QED
    BY <1>9, <1>10, <1>11, TypesInParts DEF HubInv

\* Threads that slept may wake.
LEMMA NotifyKeeps ==
    ASSUME HubAssumption, HubInv, NEW c \in Clients, NotifyAll(c)
    PROVE  HubInv'
<1>1. MapTypes /\ EventTypes /\ QueueTypes /\ ThreadTypes /\ Places /\ Table /\ Draining /\ Ring
    BY TypesInParts DEF HubInv
<1>2. /\ pc[c] = "notify" /\ timed' = {} /\ UNCHANGED updateQueue
      /\ UNCHANGED <<order, completed, status, query, source, events, sequence, shutdown, log>>
      /\ UNCHANGED late
      /\ pc' = [x \in Threads |->
                   IF x = c THEN "idle"
                   ELSE IF pc[x] = "parked" THEN IF x = Coordinator THEN "settle" ELSE "wait"
                   ELSE pc[x]]
    BY DEF NotifyAll, hubState
<1>3. \A x \in Threads : pc'[x] = "drain" <=> pc[x] = "drain"
    BY <1>2
<1>4. Draining'
    <2>1. draining' = draining /\ unsaid' = unsaid /\ updates' = updates
        BY <1>2 DEF updateQueue
    <2>2. QED
        BY <1>1, <1>3, <2>1 DEF Draining
<1>5. ThreadTypes'
    BY <1>1, <1>2 DEF ThreadTypes
<1>6. Places'
    BY <1>1, <1>2 DEF Places, Threads, HubAssumption
<1>7. MapTypes' /\ Table' /\ EventTypes' /\ Ring' /\ QueueTypes'
    BY <1>1, <1>2, MapStays, EventsStay, QueueStays
<1>8. QED
    BY <1>4, <1>5, <1>6, <1>7, TypesInParts DEF HubInv

LEMMA DrainNextKeeps ==
    ASSUME HubAssumption, HubInv, NEW x \in Threads, DrainNext(x)
    PROVE  HubInv'
<1>1. MapTypes /\ EventTypes /\ QueueTypes /\ ThreadTypes /\ Places /\ Table /\ Draining /\ Ring
    BY TypesInParts DEF HubInv
<1>2. /\ pc[x] = "drain" /\ updates # <<>> /\ updates' = Tail(updates)
      /\ taskState' = Head(updates).tasks
      /\ unsaid' = [unsaid EXCEPT ![x] = Head(updates).done]
      /\ UNCHANGED <<draining, told, pc, timed, late>>
      /\ UNCHANGED <<order, completed, status, query, source, events, sequence, shutdown, log>>
    BY DEF DrainNext, hubState
<1>3. QueueTypes'
    <2> DEFINE U == [tasks : [Tasks -> Statuses \cup {"gone"}], done : Seq(Tasks)]
    <2>1. updates \in Seq(U) /\ unsaid \in [Threads -> Seq(Tasks)]
        BY <1>1 DEF QueueTypes
    <2>2. /\ \A u \in U : u.tasks \in [Tasks -> Statuses \cup {"gone"}] /\ u.done \in Seq(Tasks)
        OBVIOUS
    <2> HIDE DEF U
    <2>3. Head(updates) \in U /\ Tail(updates) \in Seq(U)
        BY <1>2, <2>1, HeadTailProperties
    <2>4. unsaid' \in [Threads -> Seq(Tasks)] /\ taskState' \in [Tasks -> Statuses \cup {"gone"}]
        BY <1>2, <2>1, <2>2, <2>3
    <2>5. QED
        BY <1>1, <1>2, <2>3, <2>4 DEF QueueTypes, U
<1>4. Draining'
    <2>1. draining /\ pc' = pc
        BY <1>1, <1>2 DEF Draining
    <2>2. \A y \in Threads : y # x => unsaid'[y] = unsaid[y]
        BY <1>1, <1>2 DEF QueueTypes
    <2>3. \A y \in Threads : unsaid'[y] # <<>> => pc'[y] = "drain"
        BY <1>1, <1>2, <2>2 DEF Draining
    <2>4. QED
        BY <1>1, <1>2, <2>1, <2>3 DEF Draining
<1>5. MapTypes' /\ Table' /\ EventTypes' /\ Ring'
    BY <1>1, <1>2, MapStays, EventsStay
<1>6. ThreadTypes' /\ Places'
    BY <1>1, <1>2 DEF ThreadTypes, Places
<1>7. QED
    BY <1>3, <1>4, <1>5, <1>6, TypesInParts DEF HubInv

LEMMA DrainEmitKeeps ==
    ASSUME HubAssumption, HubInv, NEW x \in Threads, DrainEmit(x)
    PROVE  HubInv'
<1>1. MapTypes /\ EventTypes /\ QueueTypes /\ ThreadTypes /\ Places /\ Table /\ Draining /\ Ring
    BY TypesInParts DEF HubInv
<1>2. /\ pc[x] = "drain" /\ unsaid[x] # <<>>
      /\ told' = Append(told, Head(unsaid[x]))
      /\ unsaid' = [unsaid EXCEPT ![x] = Tail(@)]
      /\ UNCHANGED <<draining, updates, taskState, pc, timed, late>>
      /\ UNCHANGED <<order, completed, status, query, source, events, sequence, shutdown, log>>
    BY DEF DrainEmit, hubState
<1>3. unsaid \in [Threads -> Seq(Tasks)] /\ unsaid[x] \in Seq(Tasks) /\ told \in Seq(Tasks)
    BY <1>1 DEF QueueTypes
<1>4. Head(unsaid[x]) \in Tasks /\ Tail(unsaid[x]) \in Seq(Tasks)
    BY <1>2, <1>3, HeadTailProperties
<1>5. told' \in Seq(Tasks) /\ unsaid' \in [Threads -> Seq(Tasks)]
    BY <1>2, <1>3, <1>4, AppendProperties
<1>6. QueueTypes'
    BY <1>1, <1>2, <1>5 DEF QueueTypes
<1>7. Draining'
    <2>1. \A y \in Threads : y # x => unsaid'[y] = unsaid[y]
        BY <1>2, <1>3
    <2>2. QED
        BY <1>1, <1>2, <2>1 DEF Draining
<1>8. MapTypes' /\ Table' /\ EventTypes' /\ Ring'
    BY <1>1, <1>2, MapStays, EventsStay
<1>9. ThreadTypes' /\ Places'
    BY <1>1, <1>2 DEF ThreadTypes, Places
<1>10. QED
    BY <1>6, <1>7, <1>8, <1>9, TypesInParts DEF HubInv

LEMMA DrainEndKeeps ==
    ASSUME HubAssumption, HubInv, NEW x \in Threads, DrainEnd(x)
    PROVE  HubInv'
<1>1. MapTypes /\ EventTypes /\ QueueTypes /\ ThreadTypes /\ Places /\ Table /\ Draining /\ Ring
    BY TypesInParts DEF HubInv
<1>2. /\ pc[x] = "drain" /\ unsaid[x] = <<>> /\ updates = <<>> /\ draining' = FALSE
      /\ pc' = [pc EXCEPT ![x] = AfterDrain(x)]
      /\ UNCHANGED <<updates, unsaid, taskState, told, timed, late>>
      /\ UNCHANGED <<order, completed, status, query, source, events, sequence, shutdown, log>>
    BY DEF DrainEnd, hubState, GoTo
<1>3. /\ AfterDrain(x) \in {"settle", "notify"} /\ pc'[x] = AfterDrain(x)
      /\ \A y \in Threads : y # x => pc'[y] = pc[y]
    BY <1>1, <1>2 DEF ThreadTypes, AfterDrain
<1>4. QueueTypes'
    BY <1>1, <1>2 DEF QueueTypes
<1>5. Draining'
    <2>1. \A y \in Threads : pc'[y] # "drain"
        BY <1>1, <1>2, <1>3 DEF Draining
    <2>2. \A y \in Threads : unsaid[y] = <<>>
        BY <1>1, <1>2 DEF Draining
    <2>3. QED
        BY <1>2, <2>1, <2>2 DEF Draining
<1>6. MapTypes' /\ Table' /\ EventTypes' /\ Ring'
    BY <1>1, <1>2, MapStays, EventsStay
<1>7. ThreadTypes'
    BY <1>1, <1>2, <1>3 DEF ThreadTypes
<1>8. Places'
    BY <1>1, <1>3 DEF Places, Threads, AfterDrain, HubAssumption
<1>9. QED
    BY <1>4, <1>5, <1>6, <1>7, <1>8, TypesInParts DEF HubInv

LEMMA QueryType ==
    ASSUME HubAssumption, EventTypes, NEW q \in Queries
    PROVE  q \in Monitor \cup {Timer, NoQuery}
<1>1. CASE q = Timer
    BY <1>1
<1>2. CASE q # Timer
    <2>1. PICK sel \in Selections, wants \in SUBSET Payloads, after \in {0, sequence} :
              q = [kind |-> "monitor", sel |-> sel, wants |-> wants, after |-> after]
        BY <1>2 DEF Queries
    <2>2. sel \in SUBSET Sources /\ after \in 0 .. MaxSequence
        BY DEF HubAssumption, EventTypes
    <2>3. QED
        BY <2>1, <2>2 DEF Monitor
<1>3. QED
    BY <1>1, <1>2

LEMMA StartKeeps ==
    ASSUME HubAssumption, HubInv, NEW c \in Clients, NEW k \in Tasks, NEW q \in Queries,
           StartBackground(c, k, q)
    PROVE  HubInv'
<1>1. /\ MapTypes /\ EventTypes /\ QueueTypes /\ ThreadTypes /\ Places /\ Table /\ Draining /\ Ring
      /\ TypeOK
    BY TypesInParts DEF HubInv
<1>2. /\ pc[c] = "idle" /\ status[k] = "unstarted"
      /\ status' = [status EXCEPT ![k] = "pending"]
      /\ query' = [query EXCEPT ![k] = q]
      /\ order' = Append(order, k)
      /\ Enqueue(c, <<>>, "notify")
      /\ UNCHANGED <<source, events, sequence, completed, shutdown, unsaid, taskState, told>>
      /\ UNCHANGED <<timed, late, log>>
    BY DEF StartBackground
<1>3. k \notin ToSet(order) /\ k \notin ToSet(completed) /\ ToSet(completed) \subseteq Tasks
    <2>1. ToSet(completed) \subseteq Tasks
        BY <1>1, MembersOf DEF MapTypes
    <2>2. QED
        BY <1>1, <1>2, <2>1 DEF Table, Terminal
<1>4. /\ order' \in Seq(Tasks) /\ ToSet(order') = ToSet(order) \cup {k} /\ Unrepeated(order')
    BY <1>1, <1>2, <1>3, MembersAppend DEF MapTypes, Table
<1>5. status'[k] = "pending" /\ \A j \in Tasks : j # k => status'[j] = status[j]
    BY <1>1, <1>2 DEF MapTypes
<1>6. MapTypes'
    <2>1. "pending" \in Statuses /\ k \in Waiters
        BY DEF Statuses, Waiters
    <2>2. q \in Monitor \cup {Timer, NoQuery}
        BY <1>1, QueryType
    <2>3. status' \in [Tasks -> Statuses]
        BY <1>1, <1>2, <2>1 DEF MapTypes
    <2>4. query' \in [Waiters -> Monitor \cup {Timer, NoQuery}]
        BY <1>1, <1>2, <2>1, <2>2 DEF MapTypes
    <2>5. QED
        BY <1>1, <1>2, <1>4, <2>3, <2>4 DEF MapTypes
<1>7. Table'
    <2>1. {j \in Tasks : status'[j] = "pending"} = {j \in Tasks : status[j] = "pending"} \cup {k}
        BY <1>5
    <2>2. ToSet(order') = {j \in Tasks : status'[j] = "pending"} \cup ToSet(completed)
        BY <1>1, <1>4, <2>1 DEF Table
    <2>3. \A j \in ToSet(completed) : status'[j] \in Terminal
        BY <1>1, <1>3, <1>5 DEF Table
    <2>4. QED
        BY <1>1, <1>2, <1>4, <2>2, <2>3 DEF Table
<1>8. EventTypes' /\ Ring'
    BY <1>1, <1>2, EventsStay
<1>9. /\ updates' \in Seq([tasks : [Tasks -> Statuses \cup {"gone"}], done : Seq(Tasks)])
      /\ draining' \in BOOLEAN
      /\ pc' \in [Threads -> {"idle", "notify", "drain", "wait", "parked", "settle", "stopped"}]
      /\ Places' /\ Draining'
    <2>1. Snapshot' \in [Tasks -> Statuses \cup {"gone"}]
        BY <1>6, SnapshotType DEF MapTypes
    <2>2. c \in Threads /\ Done(c, "notify") /\ pc[c] # "drain" /\ <<>> \in Seq(Tasks)
        BY <1>2 DEF Threads, Done
    <2>3. QED
        BY <1>1, <1>2, <2>1, <2>2, EnqueueKeeps
<1>10. QueueTypes' /\ ThreadTypes'
    BY <1>1, <1>2, <1>9 DEF QueueTypes, ThreadTypes
<1>11. QED
    BY <1>6, <1>7, <1>8, <1>9, <1>10, TypesInParts DEF HubInv

\* cancel and settle_tasks.
LEMMA CompletionKeeps ==
    ASSUME HubAssumption, HubInv, NEW x \in Threads, NEW next, Done(x, next), pc[x] # "drain",
           NEW done \in Seq(Tasks), Unrepeated(done), ToSet(done) \subseteq PendingTasks,
           NEW outcome, \A k \in ToSet(done) : outcome[k] \in Terminal,
           Complete(done, outcome), Enqueue(x, done, next),
           UNCHANGED <<source, events, sequence, shutdown, unsaid, taskState, told, timed, log>>,
           late' \subseteq Tasks
    PROVE  HubInv'
<1>1. /\ MapTypes /\ EventTypes /\ QueueTypes /\ ThreadTypes /\ Places /\ Table /\ Draining /\ Ring
      /\ TypeOK
    BY TypesInParts DEF HubInv
<1>2. MapTypes' /\ Table'
    BY <1>1, CompleteKeeps DEF MapTypes
<1>3. EventTypes' /\ Ring'
    BY <1>1, EventsStay
<1>4. /\ updates' \in Seq([tasks : [Tasks -> Statuses \cup {"gone"}], done : Seq(Tasks)])
      /\ draining' \in BOOLEAN
      /\ pc' \in [Threads -> {"idle", "notify", "drain", "wait", "parked", "settle", "stopped"}]
      /\ Places' /\ Draining'
    <2>1. Snapshot' \in [Tasks -> Statuses \cup {"gone"}]
        BY <1>2, SnapshotType DEF MapTypes
    <2>2. QED
        BY <1>1, <2>1, EnqueueKeeps
<1>5. QueueTypes' /\ ThreadTypes'
    BY <1>1, <1>4 DEF QueueTypes, ThreadTypes
<1>6. QED
    BY <1>2, <1>3, <1>4, <1>5, TypesInParts DEF HubInv

\* What Cancel completes.
LEMMA CancelCompletes ==
    ASSUME HubAssumption, HubInv, NEW c \in Clients, NEW k \in Tasks, Cancel(c, k)
    PROVE  /\ c \in Threads /\ Done(c, "notify") /\ pc[c] # "drain"
           /\ <<k>> \in Seq(Tasks) /\ Unrepeated(<<k>>) /\ ToSet(<<k>>) = {k}
           /\ ToSet(<<k>>) \subseteq PendingTasks
           /\ \A j \in ToSet(<<k>>) : [i \in {k} |-> "cancelled"][j] \in Terminal
           /\ Complete(<<k>>, [j \in {k} |-> "cancelled"]) /\ Enqueue(c, <<k>>, "notify")
<1>1. <<k>> \in Seq(Tasks) /\ Unrepeated(<<k>>) /\ ToSet(<<k>>) = {k}
    BY DEF Unrepeated, ToSet
<1>2. k \in PendingTasks
    BY DEF Cancel, PendingTasks
<1>3. \A j \in ToSet(<<k>>) : [i \in {k} |-> "cancelled"][j] \in Terminal
    BY <1>1 DEF Terminal
<1>4. c \in Threads /\ Done(c, "notify") /\ pc[c] # "drain"
    BY DEF Cancel, Threads, Done
<1>5. QED
    BY <1>1, <1>2, <1>3, <1>4 DEF Cancel

LEMMA CancelKeeps ==
    ASSUME HubAssumption, HubInv, NEW c \in Clients, NEW k \in Tasks, Cancel(c, k)
    PROVE  HubInv'
<1> DEFINE outcome == [j \in {k} |-> "cancelled"]
<1>1. /\ c \in Threads /\ Done(c, "notify") /\ pc[c] # "drain"
      /\ <<k>> \in Seq(Tasks) /\ Unrepeated(<<k>>) /\ ToSet(<<k>>) \subseteq PendingTasks
      /\ \A j \in ToSet(<<k>>) : outcome[j] \in Terminal
      /\ Complete(<<k>>, outcome) /\ Enqueue(c, <<k>>, "notify")
    BY CancelCompletes
<1>2. /\ UNCHANGED <<source, events, sequence, shutdown, unsaid, taskState, told, timed, log>>
      /\ late' \subseteq Tasks
    BY DEF Cancel, HubInv, TypeOK
<1> HIDE DEF outcome
<1>3. QED
    BY <1>1, <1>2, CompletionKeeps

\* What a waiter finds is pending or the end of a wait.
LEMMA OutcomeType ==
    ASSUME NEW q, NEW passed
    PROVE  Outcome(q, passed) \in Terminal \cup {"pending"}
BY DEF Outcome, Terminal

\* What Settle completes.
LEMMA DecidedFacts ==
    ASSUME HubInv, NEW passed
    PROVE  /\ Decided(passed) \in Seq(Tasks) /\ Unrepeated(Decided(passed))
           /\ ToSet(Decided(passed)) =
                  {k \in PendingTasks : Outcome(query[k], k \in passed) # "pending"}
           /\ Decided(passed) = <<>> <=>
                  \A k \in PendingTasks : Outcome(query[k], k \in passed) = "pending"
<1> DEFINE S == {k \in PendingTasks : Outcome(query[k], k \in passed) # "pending"}
<1>1. Decided(passed) = Kept(order, S)
    BY DEF Decided
<1>2. S \subseteq ToSet(order)
    BY DEF PendingTasks, Pending
<1>3. order \in Seq(Tasks) /\ Unrepeated(order)
    BY DEF HubInv, TypeOK, Table
<1>4. S = {} <=> \A k \in PendingTasks : Outcome(query[k], k \in passed) = "pending"
    OBVIOUS
<1> HIDE DEF S
<1>5. ToSet(order) \cap S = S
    BY <1>2
<1>6. /\ Kept(order, S) \in Seq(Tasks) /\ Unrepeated(Kept(order, S))
      /\ ToSet(Kept(order, S)) = S
      /\ Kept(order, S) = <<>> <=> S = {}
    BY <1>3, <1>5, KeptFacts
<1>7. QED
    BY <1>1, <1>4, <1>6 DEF S

LEMMA SettleKeeps ==
    ASSUME HubAssumption, HubInv, NEW passed, Settle(passed)
    PROVE  HubInv'
<1> DEFINE done == Decided(passed)
           outcome == [k \in ToSet(done) |-> Outcome(query[k], k \in passed)]
<1>1. /\ done \in Seq(Tasks) /\ Unrepeated(done) /\ ToSet(done) \subseteq PendingTasks
      /\ \A k \in ToSet(done) : Outcome(query[k], k \in passed) # "pending"
    BY DecidedFacts
<1>2. \A k \in ToSet(done) : outcome[k] \in Terminal
    <2>1. TAKE k \in ToSet(done)
    <2>2. outcome[k] = Outcome(query[k], k \in passed)
        OBVIOUS
    <2>3. QED
        BY <1>1, <2>2, OutcomeType
<1>3. /\ Coordinator \in Threads /\ Done(Coordinator, "settle") /\ pc[Coordinator] # "drain"
      /\ Complete(done, outcome) /\ Enqueue(Coordinator, done, "settle")
      /\ UNCHANGED <<source, events, sequence, shutdown, unsaid, taskState, told, timed, log>>
      /\ late' \subseteq Tasks
    BY DEF Settle, Threads, Done
<1> HIDE DEF done, outcome
<1>4. QED
    BY <1>1, <1>2, <1>3, CompletionKeeps

LEMMA CoordinatorKeeps ==
    ASSUME HubAssumption, HubInv,
           CoordinatorParks \/ CoordinatorTimesOut \/ CoordinatorStops
    PROVE  HubInv'
<1>1. MapTypes /\ EventTypes /\ QueueTypes /\ ThreadTypes /\ Places /\ Table /\ Draining /\ Ring
    BY TypesInParts DEF HubInv
<1>2. /\ pc[Coordinator] # "drain" /\ UNCHANGED updateQueue
      /\ UNCHANGED <<order, completed, status, query, source, events, sequence, shutdown, log>>
      /\ \E l \in {"settle", "parked", "stopped"} : GoTo(Coordinator, l)
    BY DEF CoordinatorParks, CoordinatorTimesOut, CoordinatorStops, hubState
<1>3. timed' \subseteq Tasks /\ late' \subseteq Tasks
    BY <1>1 DEF CoordinatorParks, CoordinatorTimesOut, CoordinatorStops, ThreadTypes, PendingTasks
<1>4. /\ pc' \in [Threads -> {"idle", "notify", "drain", "wait", "parked", "settle", "stopped"}]
      /\ Places' /\ Draining'
    BY <1>1, <1>2, CoordinatorGoes
<1>5. MapTypes' /\ Table' /\ EventTypes' /\ Ring' /\ QueueTypes'
    BY <1>1, <1>2, MapStays, EventsStay, QueueStays
<1>6. QED
    BY <1>3, <1>4, <1>5, TypesInParts DEF HubInv, ThreadTypes

LEMMA WaitKeeps ==
    ASSUME HubAssumption, HubInv, NEW c \in Clients,
           (\E q \in Queries : WaitBegins(c, q)) \/ Waiting(c)
    PROVE  HubInv'
<1>1. MapTypes /\ EventTypes /\ QueueTypes /\ ThreadTypes /\ Places /\ Table /\ Draining /\ Ring
    BY TypesInParts DEF HubInv
<1>2. /\ pc[c] # "drain" /\ UNCHANGED updateQueue
      /\ UNCHANGED <<order, completed, status, source, events, sequence, shutdown, log>>
      /\ UNCHANGED <<timed, late>>
      /\ \E l \in {"idle", "notify", "wait", "parked"} : GoTo(c, l)
    BY DEF Waiting, WaitBegins, WaitReturns, WaitParks, WaitTimesOut, hubState
<1>3. query' \in [Waiters -> Monitor \cup {Timer, NoQuery}]
    <2>1. \/ query' = query
          \/ \E q \in Queries \cup {NoQuery} : query' = [query EXCEPT ![c] = q]
        BY DEF Waiting, WaitBegins, WaitReturns, WaitParks, WaitTimesOut, hubState
    <2>2. \A q \in Queries \cup {NoQuery} : q \in Monitor \cup {Timer, NoQuery}
        BY <1>1, QueryType
    <2>3. QED
        BY <1>1, <2>1, <2>2 DEF MapTypes
<1>4. ThreadTypes' /\ Places' /\ Draining'
    BY <1>1, <1>2, ClientGoes DEF ThreadTypes
<1>5. EventTypes' /\ Ring' /\ QueueTypes'
    BY <1>1, <1>2, EventsStay, QueueStays
<1>6. MapTypes' /\ Table'
    BY <1>1, <1>2, <1>3 DEF MapTypes, Table
<1>7. QED
    BY <1>4, <1>5, <1>6, TypesInParts DEF HubInv

LEMMA DropKeeps ==
    ASSUME HubAssumption, HubInv, DropHub
    PROVE  HubInv'
<1>1. MapTypes /\ EventTypes /\ QueueTypes /\ ThreadTypes /\ Places /\ Table /\ Draining /\ Ring
    BY TypesInParts DEF HubInv
<1>2. /\ UNCHANGED <<order, completed, status, query, source, events, sequence, log, late>>
      /\ shutdown' = TRUE /\ timed' = {} /\ UNCHANGED updateQueue
      /\ pc' = [pc EXCEPT ![Coordinator] = IF pc[Coordinator] = "parked" THEN "settle"
                                           ELSE pc[Coordinator]]
    BY DEF DropHub, GoTo
<1>3. ThreadTypes'
    BY <1>1, <1>2 DEF ThreadTypes, Threads
<1>4. /\ \A y \in Threads : y # Coordinator => pc'[y] = pc[y]
      /\ pc'[Coordinator] = IF pc[Coordinator] = "parked" THEN "settle" ELSE pc[Coordinator]
    BY <1>1, <1>2 DEF ThreadTypes, Threads
<1>5. Places'
    BY <1>1, <1>4 DEF Places, Threads, HubAssumption
<1>6. Draining'
    <2>1. \A y \in Threads : pc'[y] = "drain" <=> pc[y] = "drain"
        BY <1>4
    <2>2. draining' = draining /\ unsaid' = unsaid /\ updates' = updates
        BY <1>2 DEF updateQueue
    <2>3. QED
        BY <1>1, <2>1, <2>2 DEF Draining
<1>7. MapTypes' /\ Table' /\ QueueTypes'
    BY <1>1, <1>2, MapStays, QueueStays
<1>8. EventTypes' /\ Ring'
    BY <1>1, <1>2 DEF EventTypes, Ring
<1>9. QED
    BY <1>3, <1>5, <1>6, <1>7, <1>8, TypesInParts DEF HubInv

LEMMA StutterKeeps ==
    ASSUME HubInv, UNCHANGED vars
    PROVE  HubInv'
<1>1. MapTypes /\ EventTypes /\ QueueTypes /\ ThreadTypes /\ Places /\ Table /\ Draining /\ Ring
    BY TypesInParts DEF HubInv
<1>2. UNCHANGED updateQueue /\ UNCHANGED <<pc, timed, late, log>> /\ UNCHANGED hubState
    BY DEF vars
<1>3. MapTypes' /\ Table' /\ EventTypes' /\ Ring' /\ QueueTypes'
    BY <1>1, <1>2, MapStays, EventsStay, QueueStays DEF hubState
<1>4. ThreadTypes' /\ Places' /\ Draining'
    BY <1>1, <1>2 DEF ThreadTypes, Places, Draining, updateQueue
<1>5. QED
    BY <1>3, <1>4, TypesInParts DEF HubInv

LEMMA HubStep ==
    ASSUME HubAssumption, HubInv, [Next]_vars
    PROVE  HubInv'
<1>1. CASE UNCHANGED vars
    BY <1>1, StutterKeeps
<1>2. ASSUME NEW c \in Clients, Call(c) PROVE HubInv'
    BY <1>2, RegisterKeeps, PublishKeeps, CancelKeeps, StartKeeps, WaitKeeps DEF Call
<1>3. ASSUME NEW c \in Clients, NotifyAll(c) PROVE HubInv'
    BY <1>3, NotifyKeeps
<1>4. ASSUME NEW c \in Clients, Waiting(c) PROVE HubInv'
    BY <1>4, WaitKeeps
<1>5. ASSUME NEW x \in Threads, Drain(x) PROVE HubInv'
    BY <1>5, DrainNextKeeps, DrainEmitKeeps, DrainEndKeeps DEF Drain
<1>6. CASE Coordinating
    BY <1>6, SettleKeeps, CoordinatorKeeps DEF Coordinating
<1>7. CASE DropHub
    BY <1>7, DropKeeps
<1>8. QED
    BY <1>1, <1>2, <1>3, <1>4, <1>5, <1>6, <1>7 DEF Next

\* The invariant holds in every behaviour of the hub.
THEOREM HubInvariant == Spec => []HubInv
<1>1. Init => HubInv
    BY HubInitial, HubAssumption
<1>2. HubInv /\ [Next]_vars => HubInv'
    BY HubStep, HubAssumption
<1>3. QED
    BY <1>1, <1>2, PTL DEF Spec

\* The hub is well typed, and its ring and the retained snapshots keep their bounds, for any
\* clients, tasks and limits.
THEOREM HubTypes == Spec => []TypeOK
<1>1. HubInv => TypeOK
    BY DEF HubInv
<1>2. QED
    BY <1>1, HubInvariant, PTL

-----------------------------------------------------------------------------
(* The limits *)

\* A task becomes pending only through a call that has looked at the limits.
LEMMA PendingGrows ==
    ASSUME HubAssumption, HubInv, [Next]_vars
    PROVE  \/ PendingTasks' \subseteq PendingTasks
           \/ \E k \in Tasks : WithinLimits(k) /\ PendingTasks' = PendingTasks \cup {k}
<1>1. PendingTasks = {k \in Tasks : status[k] = "pending"}
    BY PendingIs DEF HubInv
<1>2. PendingTasks' = {k \in Tasks : status'[k] = "pending"}
    <2>1. Table'
        BY HubStep DEF HubInv
    <2>2. QED
        BY <2>1 DEF Table, PendingTasks, Pending
<1>3. ASSUME NEW c \in Clients, NEW k \in Tasks, NEW q \in Queries, StartBackground(c, k, q)
      PROVE  WithinLimits(k) /\ PendingTasks' = PendingTasks \cup {k}
    <2>1. status' = [status EXCEPT ![k] = "pending"] /\ status \in [Tasks -> Statuses]
        BY <1>3 DEF StartBackground, HubInv, TypeOK
    <2>2. QED
        BY <1>1, <1>2, <1>3, <2>1 DEF StartBackground
<1>4. ASSUME \/ \E c \in Clients, k \in Tasks : Cancel(c, k)
             \/ \E passed \in SUBSET PendingTasks : Settle(passed)
      PROVE  PendingTasks' \subseteq PendingTasks
    <2>1. ASSUME NEW c \in Clients, NEW k \in Tasks, Cancel(c, k)
          PROVE  \A j \in Tasks : j = k \/ status'[j] = status[j]
        <3>1. ToSet(<<k>>) = {k} /\ Complete(<<k>>, [i \in {k} |-> "cancelled"])
            BY <2>1, CancelCompletes
        <3>2. \A j \in Tasks : j \notin ToSet(<<k>>) => status'[j] = status[j]
            BY <3>1 DEF Complete
        <3>3. QED
            BY <3>1, <3>2
    <2>2. ASSUME NEW c \in Clients, NEW k \in Tasks, Cancel(c, k)
          PROVE  status[k] = "pending"
        BY <2>2 DEF Cancel, Pending
    <2>3. ASSUME NEW passed, Settle(passed)
          PROVE  \A j \in Tasks : j \in PendingTasks \/ status'[j] = status[j]
        BY <2>3, DecidedFacts DEF Settle, Complete
    <2>4. QED
        BY <1>1, <1>2, <1>4, <2>1, <2>2, <2>3
<1>5. ASSUME UNCHANGED status PROVE PendingTasks' \subseteq PendingTasks
    BY <1>1, <1>2, <1>5
<1>6. CASE UNCHANGED vars
    BY <1>5, <1>6 DEF vars, hubState
<1>7. ASSUME NEW c \in Clients, Call(c) PROVE UNCHANGED status \/ (\E k \in Tasks : Cancel(c, k))
                                             \/ \E k \in Tasks, q \in Queries : StartBackground(c, k, q)
    BY <1>7 DEF Call, RegisterSource, CloseSource, Publish, WaitBegins
<1>8. ASSUME NEW c \in Clients, NotifyAll(c) \/ Waiting(c) PROVE UNCHANGED status
    BY <1>8 DEF NotifyAll, Waiting, WaitReturns, WaitParks, WaitTimesOut, hubState
<1>9. ASSUME NEW x \in Threads, Drain(x) PROVE UNCHANGED status
    BY <1>9 DEF Drain, DrainNext, DrainEmit, DrainEnd, hubState
<1>10. CASE Coordinating
    <2>1. CoordinatorParks \/ CoordinatorTimesOut \/ CoordinatorStops => UNCHANGED status
        BY DEF CoordinatorParks, CoordinatorTimesOut, CoordinatorStops, hubState
    <2>2. QED
        BY <1>4, <1>5, <1>10, <2>1 DEF Coordinating
<1>11. CASE DropHub
    BY <1>5, <1>11 DEF DropHub
<1>12. CASE Next
    BY <1>3, <1>4, <1>5, <1>7, <1>8, <1>9, <1>10, <1>11, <1>12 DEF Next
<1>13. QED
    BY <1>6, <1>12

\* The pending tasks, of the hub and of every owner, are within the limits.
Limits ==
    /\ Cardinality(PendingTasks) <= HubLimit
    /\ \A k \in Tasks : Cardinality({j \in PendingTasks : Owner[j] = Owner[k]}) <= OwnerLimit

LEMMA LimitsStep ==
    ASSUME HubAssumption, HubInv, Limits, [Next]_vars
    PROVE  Limits'
<1> DEFINE P == PendingTasks
           Of(S, k) == {j \in S : Owner[j] = Owner[k]}
<1>1. IsFiniteSet(Tasks) /\ P \subseteq Tasks /\ HubLimit \in Nat /\ OwnerLimit \in Nat
    BY DEF HubAssumption, PendingTasks
<1>2. IsFiniteSet(P) /\ Cardinality(P) \in Nat
    BY <1>1, FS_Subset, FS_CardinalityType
<1>3. \A S, k : S \subseteq P => IsFiniteSet(Of(S, k)) /\ IsFiniteSet(S)
    <2>1. \A S : S \subseteq P => IsFiniteSet(S)
        BY <1>2, FS_Subset
    <2>2. \A S, k : S \subseteq P => Of(S, k) \subseteq P
        OBVIOUS
    <2> HIDE DEF Of
    <2>3. QED
        BY <2>1, <2>2
<1>4. /\ Cardinality(P) <= HubLimit
      /\ \A k \in Tasks : Cardinality(Of(P, k)) <= OwnerLimit
    BY DEF Limits
<1>5. ASSUME NEW Q, Q \subseteq P
      PROVE  Cardinality(Q) <= HubLimit /\ \A k \in Tasks : Cardinality(Of(Q, k)) <= OwnerLimit
    <2>1. IsFiniteSet(Q) /\ Cardinality(Q) \in Nat /\ Cardinality(Q) <= Cardinality(P)
        BY <1>2, <1>5, FS_Subset, FS_CardinalityType
    <2>2. ASSUME NEW k \in Tasks PROVE Cardinality(Of(Q, k)) <= OwnerLimit
        <3>1. Of(Q, k) \subseteq Of(P, k) /\ IsFiniteSet(Of(P, k)) /\ IsFiniteSet(Of(Q, k))
            BY <1>3, <1>5
        <3> HIDE DEF Of
        <3>2. /\ Cardinality(Of(Q, k)) <= Cardinality(Of(P, k))
              /\ Cardinality(Of(Q, k)) \in Nat /\ Cardinality(Of(P, k)) \in Nat
            BY <3>1, FS_Subset, FS_CardinalityType
        <3>3. QED
            BY <1>1, <1>4, <3>2
    <2>3. QED
        BY <1>1, <1>2, <1>4, <2>1, <2>2
<1>6. ASSUME NEW h \in Tasks, WithinLimits(h)
      PROVE  /\ Cardinality(P \cup {h}) <= HubLimit
             /\ \A k \in Tasks : Cardinality(Of(P \cup {h}, k)) <= OwnerLimit
    <2>1. Cardinality(P) < HubLimit /\ Cardinality(Of(P, h)) < OwnerLimit
        BY <1>6 DEF WithinLimits
    <2>2. Cardinality(P \cup {h}) <= HubLimit
        <3>1. Cardinality(P \cup {h}) = Cardinality(P) \/ Cardinality(P \cup {h}) = Cardinality(P) + 1
            BY <1>2, FS_AddElement
        <3>2. QED
            BY <1>1, <1>2, <2>1, <3>1
    <2>3. ASSUME NEW k \in Tasks PROVE Cardinality(Of(P \cup {h}, k)) <= OwnerLimit
        <3>1. IsFiniteSet(Of(P, k)) /\ Cardinality(Of(P, k)) \in Nat
            BY <1>3, FS_CardinalityType
        <3>2. CASE Owner[h] = Owner[k]
            <4>1. Of(P \cup {h}, k) = Of(P, k) \cup {h} /\ Of(P, k) = Of(P, h)
                BY <3>2
            <4> HIDE DEF Of, P
            <4>2. \/ Cardinality(Of(P, k) \cup {h}) = Cardinality(Of(P, k))
                  \/ Cardinality(Of(P, k) \cup {h}) = Cardinality(Of(P, k)) + 1
                BY <3>1, FS_AddElement
            <4>3. Cardinality(Of(P, k)) < OwnerLimit
                BY <2>1, <4>1
            <4>4. Cardinality(Of(P, k) \cup {h}) <= OwnerLimit
                BY <1>1, <3>1, <4>2, <4>3
            <4>5. QED
                BY <4>1, <4>4
        <3>3. CASE Owner[h] # Owner[k]
            <4>1. Of(P \cup {h}, k) = Of(P, k)
                BY <3>3
            <4>2. QED
                BY <1>4, <4>1
        <3>4. QED
            BY <3>2, <3>3
    <2>4. QED
        BY <2>2, <2>3
<1>7. PICK Q : Q = PendingTasks'
    OBVIOUS
<1>8. Cardinality(Q) <= HubLimit /\ \A k \in Tasks : Cardinality(Of(Q, k)) <= OwnerLimit
    <2>1. \/ Q \subseteq P
          \/ \E k \in Tasks : WithinLimits(k) /\ Q = P \cup {k}
        BY <1>7, PendingGrows
    <2> HIDE DEF Of, P
    <2>2. QED
        BY <1>5, <1>6, <2>1
<1>9. QED
    BY <1>7, <1>8 DEF Limits

LEMMA BoundedTable ==
    ASSUME HubAssumption, HubInv, Limits
    PROVE  TasksBounded
<1> DEFINE P == PendingTasks
           C == ToSet(completed)
<1>1. order \in Seq(Tasks) /\ completed \in Seq(Tasks) /\ Unrepeated(order) /\ Unrepeated(completed)
    BY DEF HubInv, TypeOK, Table
<1>2. ToSet(order) = P \cup C
    BY PendingIs DEF HubInv, Table
<1>3. IsFiniteSet(C) /\ Cardinality(C) = Len(completed) /\ Cardinality(ToSet(order)) = Len(order)
    BY <1>1, LengthIsCardinality
<1>4. IsFiniteSet(P)
    <2>1. P \subseteq Tasks /\ IsFiniteSet(Tasks)
        BY DEF HubAssumption, PendingTasks
    <2>2. QED
        BY <2>1, FS_Subset
<1> HIDE DEF P, C
<1>5. Cardinality(P \cup C) = Cardinality(P) + Cardinality(C) - Cardinality(P \cap C)
    BY <1>3, <1>4, FS_Union
<1>6. Cardinality(P \cap C) \in Nat /\ Cardinality(P) \in Nat
    BY <1>4, FS_Intersection, FS_CardinalityType
<1>7. /\ Cardinality(P) <= HubLimit /\ Len(completed) <= CompletedRetention
      /\ HubLimit \in Nat /\ CompletedRetention \in Nat /\ Len(completed) \in Nat
    BY <1>1 DEF HubAssumption, HubInv, Table, Limits, P
<1>8. Len(order) <= HubLimit + CompletedRetention
    BY <1>2, <1>3, <1>5, <1>6, <1>7
<1>9. QED
    BY <1>8 DEF TasksBounded, Limits

\* Whatever the limits are, the table of tasks stays within them.
THEOREM HubBounded == Spec => []TasksBounded
<1>1. Init => Limits
    <2>1. Init /\ HubAssumption => PendingTasks = {}
        BY MembersEmpty DEF Init, PendingTasks, Pending
    <2>2. \A k : {j \in {} : Owner[j] = Owner[k]} = {}
        OBVIOUS
    <2>3. Cardinality({}) = 0 /\ HubLimit \in Nat /\ OwnerLimit \in Nat
        BY FS_EmptySet, HubAssumption DEF HubAssumption
    <2>4. ASSUME PendingTasks = {} PROVE Limits
        <3>1. \A k : {j \in PendingTasks : Owner[j] = Owner[k]} = {}
            BY <2>2, <2>4
        <3>2. QED
            BY <2>3, <2>4, <3>1 DEF Limits
    <2>5. QED
        BY <2>1, <2>4, HubAssumption
<1>2. HubInv /\ Limits /\ [Next]_vars => Limits'
    BY LimitsStep, HubAssumption
<1>3. HubInv /\ Limits => TasksBounded
    BY BoundedTable, HubAssumption
<1>4. QED
    BY <1>1, <1>2, <1>3, HubInvariant, PTL DEF Spec

-----------------------------------------------------------------------------
(* An event wins *)

\* The newest EventRetention events are the ring.
LEMMA NewestRetained ==
    ASSUME HubAssumption, HubInv, NEW i \in DOMAIN log, i + EventRetention > sequence
    PROVE  \E j \in DOMAIN events : events[j] = log[i]
<1> DEFINE j == i - sequence + Len(events)
<1>1. /\ Len(log) = sequence /\ sequence \in Nat /\ EventRetention \in Nat /\ Len(events) \in Nat
      /\ i \in 1 .. sequence /\ DOMAIN events = 1 .. Len(events)
      /\ Len(events) = IF sequence < EventRetention THEN sequence ELSE EventRetention
      /\ \A h \in 1 .. Len(events) : events[h] = log[sequence - Len(events) + h]
    BY DEF HubInv, TypeOK, Ring, HubAssumption
<1>2. j \in 1 .. Len(events) /\ sequence - Len(events) + j = i
    BY <1>1
<1>3. events[j] = log[i]
    <2> HIDE DEF j
    <2>1. QED
        BY <1>1, <1>2
<1>4. QED
    BY <1>1, <1>2, <1>3

LEMMA EventWinsStep ==
    ASSUME HubAssumption, HubInv, [Next]_vars, NEW k \in Tasks,
           status[k] = "pending", status'[k] \in {"timed_out", "source_closed"}
    PROVE  \A i \in DOMAIN log : i + EventRetention > sequence => ~Matches(query[k], log[i])
<1>1. ~MatchRetained(query[k])
    <2>1. ASSUME NEW c \in Clients, NEW j \in Tasks, Cancel(c, j) PROVE FALSE
        <3>1. ToSet(<<j>>) = {j} /\ Complete(<<j>>, [h \in {j} |-> "cancelled"])
            BY <2>1, CancelCompletes
        <3>2. status'[k] = "cancelled" \/ status'[k] = status[k]
            BY <3>1 DEF Complete
        <3>3. QED
            BY <3>2
    <2>2. ASSUME NEW c \in Clients, NEW j \in Tasks, NEW q \in Queries, StartBackground(c, j, q)
          PROVE  FALSE
        <3>1. status' = [status EXCEPT ![j] = "pending"] /\ status \in [Tasks -> Statuses]
            BY <2>2 DEF StartBackground, HubInv, TypeOK
        <3>2. QED
            BY <3>1
    <2>3. ASSUME NEW passed, Settle(passed) PROVE ~MatchRetained(query[k])
        <3> DEFINE done == Decided(passed)
                   outcome == [j \in ToSet(done) |-> Outcome(query[j], j \in passed)]
        <3>1. Complete(done, outcome)
            BY <2>3 DEF Settle
        <3>2. status' = [j \in Tasks |-> IF j \in ToSet(done) THEN outcome[j] ELSE status[j]]
            BY <3>1 DEF Complete
        <3>3. k \in ToSet(done)
            BY <3>2
        <3>4. status'[k] = Outcome(query[k], k \in passed)
            BY <3>2, <3>3
        <3>5. QED
            BY <3>4 DEF Outcome
    <2>4. CASE UNCHANGED status
        BY <2>4
    <2>5. CASE UNCHANGED vars
        BY <2>4, <2>5 DEF vars, hubState
    <2>6. ASSUME NEW c \in Clients, Call(c)
          PROVE  \/ UNCHANGED status
                 \/ \E j \in Tasks : Cancel(c, j) \/ \E q \in Queries : StartBackground(c, j, q)
        BY <2>6 DEF Call, RegisterSource, CloseSource, Publish, WaitBegins
    <2>7. ASSUME NEW c \in Clients, NotifyAll(c) \/ Waiting(c) PROVE UNCHANGED status
        BY <2>7 DEF NotifyAll, Waiting, WaitReturns, WaitParks, WaitTimesOut, hubState
    <2>8. ASSUME NEW x \in Threads, Drain(x) PROVE UNCHANGED status
        BY <2>8 DEF Drain, DrainNext, DrainEmit, DrainEnd, hubState
    <2>9. ASSUME CoordinatorParks \/ CoordinatorTimesOut \/ CoordinatorStops PROVE UNCHANGED status
        BY <2>9 DEF CoordinatorParks, CoordinatorTimesOut, CoordinatorStops, hubState
    <2>10. CASE DropHub
        BY <2>4, <2>10 DEF DropHub
    <2>11. CASE Next
        BY <2>1, <2>2, <2>3, <2>4, <2>6, <2>7, <2>8, <2>9, <2>10, <2>11 DEF Next, Coordinating
    <2>12. QED
        BY <2>5, <2>11
<1>2. TAKE i \in DOMAIN log
<1>3. HAVE i + EventRetention > sequence
<1>4. PICK j \in DOMAIN events : events[j] = log[i]
    BY <1>3, NewestRetained
<1>5. QED
    BY <1>1, <1>4 DEF MatchRetained

\* A task never ends timed out or closed while one of the newest EventRetention events
\* matches it: settle_tasks looks at the ring before it looks at the sources and the clock.
THEOREM HubEventWins == Spec => EventWins
<1>1. HubInv /\ [Next]_vars =>
          [\A k \in Tasks :
              (status[k] = "pending" /\ status'[k] \in {"timed_out", "source_closed"}) =>
                  \A i \in DOMAIN log :
                      i + EventRetention > sequence => ~Matches(query[k], log[i])]_vars
    BY EventWinsStep, HubAssumption
<1>2. QED
    BY <1>1, HubInvariant, PTL DEF Spec, EventWins

-----------------------------------------------------------------------------
(* No lost wakeup *)

Notifying == \E c \in Clients : pc[c] \in {"notify", "drain"}

\* A step that leaves the sources, the ring and a query alone leaves its outcome alone.
LEMMA OutcomeStays ==
    ASSUME UNCHANGED <<source, events>>, NEW x, query'[x] = query[x], NEW b
    PROVE  Outcome(query[x], b)' = Outcome(query[x], b)
BY DEF Outcome, MatchRetained, SourcesClosed, Matches, Selected

\* The coordinator's sleep is right: nothing can be settled, every deadline is counted.
Asleep == Decided({}) = <<>> /\ PendingTasks \subseteq timed

LEMMA AsleepStays ==
    ASSUME Asleep, UNCHANGED <<source, events, order, status, timed>>,
           \A k \in Tasks : query'[k] = query[k]
    PROVE  Asleep'
<1>1. PendingTasks' = PendingTasks
    BY DEF PendingTasks, Pending
<1>2. \A k \in Tasks : Outcome(query[k], k \in {})' = Outcome(query[k], k \in {})
    BY OutcomeStays
<1>3. {k \in PendingTasks : Outcome(query[k], k \in {}) # "pending"}' =
          {k \in PendingTasks : Outcome(query[k], k \in {}) # "pending"}
    BY <1>1, <1>2 DEF PendingTasks
<1>4. Decided({})' = Decided({})
    BY <1>3 DEF Decided
<1>5. QED
    BY <1>1, <1>4 DEF Asleep

\* NoLostWakeup is kept by a step after which a client is about to notify.
LEMMA WakeupNotified ==
    ASSUME NEW c \in Clients, pc'[c] \in {"notify", "drain"}
    PROVE  NoLostWakeup'
BY DEF NoLostWakeup

\* A step keeps it if who sleeps afterwards either slept before, and nothing it looks at has
\* changed, or has just looked.
LEMMA WakeupStays ==
    ASSUME NoLostWakeup, UNCHANGED <<source, events>>, Notifying => Notifying',
           \A c \in Clients : pc'[c] = "parked" =>
               \/ pc[c] = "parked" /\ query'[c] = query[c]
               \/ (Outcome(query[c], FALSE) = "pending")',
           pc'[Coordinator] = "parked" =>
               \/ /\ pc[Coordinator] = "parked" /\ UNCHANGED <<order, status, timed>>
                  /\ \A k \in Tasks : query'[k] = query[k]
               \/ Asleep'
    PROVE  NoLostWakeup'
<1>1. ASSUME pc'[Coordinator] = "parked", ~Notifying' PROVE Asleep'
    <2>1. pc[Coordinator] = "parked" => Asleep
        BY <1>1 DEF NoLostWakeup, Asleep, Notifying
    <2>2. QED
        BY <1>1, <2>1, AsleepStays
<1>2. ASSUME NEW c \in Clients, pc'[c] = "parked", ~Notifying'
      PROVE  (Outcome(query[c], FALSE) = "pending")'
    <2>1. pc[c] = "parked" => Outcome(query[c], FALSE) = "pending"
        BY <1>2 DEF NoLostWakeup, Notifying
    <2>2. CASE pc[c] = "parked" /\ query'[c] = query[c]
        BY <2>1, <2>2, OutcomeStays
    <2>3. CASE ~(pc[c] = "parked" /\ query'[c] = query[c])
        BY <1>2, <2>3
    <2>4. QED
        BY <2>2, <2>3
<1>3. QED
    BY <1>1, <1>2 DEF NoLostWakeup, Asleep, Notifying

LEMMA NotifyWakes ==
    ASSUME HubAssumption, HubInv, NEW c \in Clients, NotifyAll(c)
    PROVE  NoLostWakeup'
<1>1. \A x \in Threads : pc'[x] # "parked"
    BY DEF NotifyAll
<1>2. QED
    BY <1>1 DEF NoLostWakeup, Threads

LEMMA DrainWakes ==
    ASSUME HubAssumption, HubInv, NoLostWakeup, NEW x \in Threads, Drain(x)
    PROVE  NoLostWakeup'
<1>1. /\ UNCHANGED <<source, events, order, status, query, timed>> /\ pc[x] = "drain"
      /\ \/ pc' = pc
         \/ pc' = [pc EXCEPT ![x] = AfterDrain(x)]
    BY DEF Drain, DrainNext, DrainEmit, DrainEnd, GoTo, hubState
<1>2. /\ \A y \in Threads : y # x => pc'[y] = pc[y]
      /\ pc'[x] = pc[x] \/ pc'[x] = AfterDrain(x)
    BY <1>1 DEF HubInv, TypeOK
<1>3. pc'[x] # "parked" /\ (x \in Clients => pc'[x] \in {"notify", "drain"})
    BY <1>1, <1>2 DEF AfterDrain, HubAssumption
<1>4. Notifying => Notifying'
    BY <1>2, <1>3 DEF Notifying, Threads
<1>5. \A y \in Threads : pc'[y] = "parked" => pc[y] = "parked"
    BY <1>2, <1>3
<1>6. QED
    BY <1>1, <1>4, <1>5, WakeupStays DEF Threads

LEMMA SettleWakes ==
    ASSUME HubAssumption, HubInv, NoLostWakeup, NEW passed, Settle(passed)
    PROVE  NoLostWakeup'
<1> DEFINE done == Decided(passed)
<1>1. ToSet(done) \subseteq Tasks
    BY DecidedFacts DEF PendingTasks
<1>2. /\ query' = [x \in Waiters |-> IF x \in ToSet(done) THEN NoQuery ELSE query[x]]
      /\ UNCHANGED <<source, events>>
      /\ pc' = [pc EXCEPT ![Coordinator] = IF draining THEN "settle" ELSE "drain"]
    BY DEF Settle, Complete, Enqueue, GoTo
<1> HIDE DEF done
<1>3. \A c \in Clients : query'[c] = query[c]
    BY <1>1, <1>2 DEF HubAssumption, Waiters
<1>4. pc'[Coordinator] # "parked" /\ \A c \in Clients : pc'[c] = pc[c]
    BY <1>2 DEF HubInv, TypeOK, Threads, HubAssumption
<1>5. Notifying => Notifying'
    BY <1>4 DEF Notifying
<1>6. QED
    BY <1>2, <1>3, <1>4, <1>5, WakeupStays

LEMMA CoordinatorWakes ==
    ASSUME HubAssumption, HubInv, NoLostWakeup,
           CoordinatorParks \/ CoordinatorTimesOut \/ CoordinatorStops
    PROVE  NoLostWakeup'
<1>1. /\ UNCHANGED <<source, events, order, status, query>>
      /\ \E l \in {"settle", "parked", "stopped"} : pc' = [pc EXCEPT ![Coordinator] = l]
    BY DEF CoordinatorParks, CoordinatorTimesOut, CoordinatorStops, hubState, GoTo
<1>2. \A c \in Clients : pc'[c] = pc[c] /\ query'[c] = query[c]
    BY <1>1 DEF HubInv, TypeOK, Threads, HubAssumption
<1>3. pc'[Coordinator] = "parked" => CoordinatorParks
    BY DEF CoordinatorTimesOut, CoordinatorStops, GoTo, HubInv, TypeOK, Threads
<1>4. CoordinatorParks => Asleep'
    <2>1. SUFFICES ASSUME CoordinatorParks PROVE Asleep'
        OBVIOUS
    <2>2. \A k \in PendingTasks : Outcome(query[k], k \in late) = "pending"
        BY <2>1, DecidedFacts DEF CoordinatorParks
    <2>3. \A k \in PendingTasks : Outcome(query[k], k \in {}) = "pending"
        BY <2>2 DEF Outcome
    <2>4. Decided({}) = <<>>
        BY <2>3, DecidedFacts
    <2>5. PICK P : P = PendingTasks
        OBVIOUS
    <2>6. Decided({})' = Decided({}) /\ PendingTasks' = P
        <3>1. PendingTasks' = PendingTasks
            BY <1>1 DEF PendingTasks, Pending
        <3>2. \A k \in Tasks : Outcome(query[k], k \in {})' = Outcome(query[k], k \in {})
            BY <1>1, OutcomeStays
        <3>3. {k \in PendingTasks : Outcome(query[k], k \in {}) # "pending"}' =
                  {k \in PendingTasks : Outcome(query[k], k \in {}) # "pending"}
            BY <3>1, <3>2 DEF PendingTasks
        <3>4. QED
            BY <1>1, <2>5, <3>1, <3>3 DEF Decided
    <2>7. timed' = P
        BY <2>1, <2>5 DEF CoordinatorParks
    <2>8. QED
        BY <2>4, <2>6, <2>7 DEF Asleep
<1>5. Notifying => Notifying'
    BY <1>2 DEF Notifying
<1>6. QED
    BY <1>1, <1>2, <1>3, <1>4, <1>5, WakeupStays

LEMMA WaitWakes ==
    ASSUME HubAssumption, HubInv, NoLostWakeup, NEW c \in Clients,
           (\E q \in Queries : WaitBegins(c, q)) \/ Waiting(c)
    PROVE  NoLostWakeup'
<1>1. /\ UNCHANGED <<source, events, order, status, timed>>
      /\ \/ query' = query
         \/ \E q : query' = [query EXCEPT ![c] = q]
      /\ pc[c] \notin {"notify", "drain"}
      /\ \E l \in {"idle", "parked"} : pc' = [pc EXCEPT ![c] = l]
    BY DEF Waiting, WaitBegins, WaitReturns, WaitParks, WaitTimesOut, hubState, GoTo
<1>2. /\ \A x \in Waiters : x # c => query'[x] = query[x]
      /\ \A x \in Threads : x # c => pc'[x] = pc[x]
    BY <1>1 DEF HubInv, TypeOK
<1>3. pc'[c] = "parked" => (Outcome(query[c], FALSE) = "pending")'
    <2>1. ASSUME pc'[c] = "parked"
          PROVE  \/ \E q \in Queries : WaitBegins(c, q)
                 \/ WaitParks(c)
        BY <2>1 DEF Waiting, WaitReturns, WaitTimesOut, GoTo, HubInv, TypeOK, Threads
    <2>2. ASSUME NEW q \in Queries, WaitBegins(c, q)
          PROVE  (Outcome(query[c], FALSE) = "pending")'
        <3>1. query'[c] = q /\ UNCHANGED <<source, events>> /\ Outcome(q, FALSE) = "pending"
            BY <2>2 DEF WaitBegins, HubInv, TypeOK, Waiters
        <3>2. QED
            BY <3>1 DEF Outcome, MatchRetained, SourcesClosed, Matches, Selected
    <2>3. ASSUME WaitParks(c) PROVE (Outcome(query[c], FALSE) = "pending")'
        <3>1. UNCHANGED <<source, events>> /\ query' = query /\ Outcome(query[c], FALSE) = "pending"
            BY <2>3 DEF WaitParks, hubState
        <3>2. QED
            BY <3>1, OutcomeStays
    <2>4. QED
        BY <2>1, <2>2, <2>3
<1>4. Notifying => Notifying'
    BY <1>1, <1>2 DEF Notifying, Threads
<1>5. \A k \in Tasks : query'[k] = query[k]
    BY <1>2 DEF Waiters, HubAssumption
<1>6. \A y \in Clients : pc'[y] = "parked" =>
          \/ pc[y] = "parked" /\ query'[y] = query[y]
          \/ (Outcome(query[y], FALSE) = "pending")'
    <2>1. TAKE y \in Clients
    <2>2. CASE y = c
        BY <1>3, <2>2
    <2>3. CASE y # c
        BY <1>2, <2>3 DEF Waiters, Threads
    <2>4. QED
        BY <2>2, <2>3
<1>7. pc'[Coordinator] = pc[Coordinator]
    BY <1>2 DEF Threads, HubAssumption
<1>8. QED
    BY <1>1, <1>4, <1>5, <1>6, <1>7, WakeupStays

LEMMA DropWakes ==
    ASSUME HubAssumption, HubInv, NoLostWakeup, DropHub
    PROVE  NoLostWakeup'
<1>1. /\ UNCHANGED <<source, events, query>>
      /\ pc' = [pc EXCEPT ![Coordinator] = IF pc[Coordinator] = "parked" THEN "settle"
                                           ELSE pc[Coordinator]]
    BY DEF DropHub, GoTo
<1>2. pc'[Coordinator] # "parked" /\ \A c \in Clients : pc'[c] = pc[c]
    BY <1>1 DEF HubInv, TypeOK, Threads, HubAssumption
<1>3. Notifying => Notifying'
    BY <1>2 DEF Notifying
<1>4. QED
    BY <1>1, <1>2, <1>3, WakeupStays

LEMMA WakeupStep ==
    ASSUME HubAssumption, HubInv, NoLostWakeup, [Next]_vars
    PROVE  NoLostWakeup'
<1>0. \A c \in Clients : c \in Threads
    BY DEF Threads
<1>1. CASE UNCHANGED vars
    <2>1. UNCHANGED <<source, events, order, status, timed, pc, query>>
        BY <1>1 DEF vars, hubState
    <2>2. Notifying => Notifying'
        BY <2>1 DEF Notifying
    <2>3. QED
        BY <2>1, <2>2, WakeupStays
<1>2. ASSUME NEW c \in Clients, Call(c), ~\E q \in Queries : WaitBegins(c, q)
      PROVE  pc'[c] \in {"notify", "drain"}
    BY <1>0, <1>2 DEF Call, RegisterSource, CloseSource, Publish, Cancel, StartBackground, Enqueue,
                      GoTo, HubInv, TypeOK
<1>3. ASSUME NEW c \in Clients, Call(c) PROVE NoLostWakeup'
    BY <1>2, <1>3, WakeupNotified, WaitWakes
<1>4. ASSUME NEW c \in Clients, NotifyAll(c) \/ Waiting(c) PROVE NoLostWakeup'
    BY <1>4, NotifyWakes, WaitWakes
<1>5. ASSUME NEW x \in Threads, Drain(x) PROVE NoLostWakeup'
    BY <1>5, DrainWakes
<1>6. CASE Coordinating
    BY <1>6, SettleWakes, CoordinatorWakes DEF Coordinating
<1>7. CASE DropHub
    BY <1>7, DropWakes
<1>8. CASE Next
    BY <1>3, <1>4, <1>5, <1>6, <1>7, <1>8 DEF Next
<1>9. QED
    BY <1>1, <1>8

\* No wakeup is lost between looking and sleeping, however many clients publish, wait and
\* cancel: whoever changes what a sleeper waits for is on its way to notify_all.
THEOREM HubWakeups == Spec => []NoLostWakeup
<1>1. HubAssumption /\ Init => NoLostWakeup
    BY DEF Init, NoLostWakeup, Threads, HubAssumption
<1>2. HubInv /\ NoLostWakeup /\ [Next]_vars => NoLostWakeup'
    BY WakeupStep, HubAssumption
<1>3. QED
    BY <1>1, <1>2, HubAssumption, HubInvariant, PTL DEF Spec

-----------------------------------------------------------------------------
(* What observers are shown *)

Update == [tasks : [Tasks -> Statuses \cup {"gone"}], done : Seq(Tasks)]

\* The completions that were emitted or are about to be, by the thread that drains.
Spoken == ToSet(told) \cup UNION {ToSet(unsaid[x]) : x \in Threads}

\* Only the end of a task is spoken of, and no table that is shown or will be shown after it
\* has the task pending; the newest of these tables is the hub's.
Shown ==
    /\ \A k \in Spoken : /\ status[k] \in Terminal
                         /\ taskState[k] # "pending"
                         /\ \A i \in DOMAIN updates : updates[i].tasks[k] # "pending"
    /\ \A i \in DOMAIN updates : \A k \in ToSet(updates[i].done) :
           /\ status[k] \in Terminal
           /\ \A j \in DOMAIN updates : i <= j => updates[j].tasks[k] # "pending"
    /\ updates = <<>> => taskState = Snapshot
    /\ updates # <<>> => updates[Len(updates)].tasks = Snapshot

LEMMA ShownIsFresh == HubInv /\ Shown => TaskStateFresh
<1> SUFFICES ASSUME HubInv, Shown PROVE TaskStateFresh
    OBVIOUS
<1>1. \A k \in ToSet(told) : taskState[k] # "pending"
    BY DEF Shown, Spoken
<1>2. ~draining => taskState = Snapshot
    BY DEF Shown, HubInv, Draining
<1>3. QED
    BY <1>1, <1>2 DEF TaskStateFresh

\* An update that tells of tasks that have just ended.
LEMMA ShownEnqueued ==
    ASSUME HubInv, Shown, NEW done \in Seq(Tasks), UNCHANGED <<told, unsaid, taskState>>,
           updates' = Append(updates, [tasks |-> Snapshot', done |-> done]),
           status' \in [Tasks -> Statuses],
           \A k \in Tasks : status[k] \in Terminal \/ k \in ToSet(done) => status'[k] \in Terminal
    PROVE  Shown'
<1> DEFINE u == [tasks |-> Snapshot', done |-> done]
           n == Len(updates)
<1>1. updates \in Seq(Update) /\ n \in Nat
    BY DEF HubInv, TypeOK, Update
<1>2. u \in Update /\ u.tasks = Snapshot' /\ u.done = done
    BY SnapshotType DEF Update
<1> HIDE DEF u
<1>3. /\ updates' \in Seq(Update) /\ updates' # <<>> /\ Len(updates') = n + 1
      /\ \A i \in 1 .. n : updates'[i] = updates[i]
      /\ updates'[n + 1] = u
    BY <1>1, <1>2, AppendProperties DEF u
<1>4. DOMAIN updates = 1 .. n /\ DOMAIN updates' = 1 .. n + 1
    BY <1>1, <1>3
<1> HIDE DEF n
<1>5. \A k \in Tasks : status'[k] \in Terminal => u.tasks[k] # "pending"
    BY <1>2 DEF Snapshot, Terminal
<1>6. /\ Spoken' = Spoken /\ Spoken \subseteq Tasks
      /\ \A i \in 1 .. n : ToSet(updates[i].done) \subseteq Tasks
      /\ ToSet(done) \subseteq Tasks
    <2>0. /\ \A v \in Update : v.done \in Seq(Tasks)
          /\ \A i \in 1 .. n : updates[i] \in Update
        <3>1. \A v \in Update : v.done \in Seq(Tasks)
            BY DEF Update
        <3>2. \A i \in 1 .. n : updates[i] \in Update
            BY <1>1, ElementOfSeq DEF n
        <3>3. QED
            BY <3>1, <3>2
    <2>1. /\ told \in Seq(Tasks) /\ \A x \in Threads : unsaid[x] \in Seq(Tasks)
          /\ \A i \in 1 .. n : updates[i].done \in Seq(Tasks)
        BY <2>0 DEF HubInv, TypeOK
    <2>2. ToSet(told) \subseteq Tasks /\ \A x \in Threads : ToSet(unsaid[x]) \subseteq Tasks
        BY <2>1, MembersOf
    <2>3. \A i \in 1 .. n : ToSet(updates[i].done) \subseteq Tasks
        BY <2>1, MembersOf
    <2>4. ToSet(done) \subseteq Tasks
        BY MembersOf
    <2>5. QED
        BY <2>2, <2>3, <2>4 DEF Spoken
<1>7. ASSUME NEW k \in Spoken
      PROVE  /\ status'[k] \in Terminal /\ taskState'[k] # "pending"
             /\ \A i \in 1 .. n + 1 : updates'[i].tasks[k] # "pending"
    <2>1. /\ status'[k] \in Terminal /\ taskState[k] # "pending"
          /\ \A i \in 1 .. n : updates[i].tasks[k] # "pending"
        BY <1>4, <1>6, <1>7 DEF Shown
    <2>2. updates'[n + 1].tasks[k] # "pending"
        BY <1>3, <1>5, <1>6, <1>7, <2>1
    <2>3. \A i \in 1 .. n + 1 : i \in 1 .. n \/ i = n + 1
        BY <1>1
    <2>4. QED
        BY <1>3, <2>1, <2>2, <2>3
<1>8. ASSUME NEW i \in 1 .. n + 1, NEW k \in ToSet(updates'[i].done)
      PROVE  /\ status'[k] \in Terminal
             /\ \A j \in 1 .. n + 1 : i <= j => updates'[j].tasks[k] # "pending"
    <2>1. \A j \in 1 .. n + 1 : j \in 1 .. n \/ j = n + 1
        BY <1>1
    <2>2. CASE i \in 1 .. n
        <3>1. k \in ToSet(updates[i].done) /\ k \in Tasks
            BY <1>3, <1>6, <1>8, <2>2
        <3>2. /\ status'[k] \in Terminal
              /\ \A j \in 1 .. n : i <= j => updates[j].tasks[k] # "pending"
            BY <1>4, <2>2, <3>1 DEF Shown
        <3>3. updates'[n + 1].tasks[k] # "pending"
            BY <1>3, <1>5, <3>1, <3>2
        <3>4. QED
            BY <1>3, <2>1, <3>2, <3>3
    <2>3. CASE i = n + 1
        <3>1. k \in ToSet(done) /\ k \in Tasks
            BY <1>2, <1>3, <1>6, <1>8, <2>3
        <3>2. status'[k] \in Terminal
            BY <3>1
        <3>3. \A j \in 1 .. n + 1 : i <= j => j = n + 1
            BY <1>1, <2>3
        <3>4. updates'[n + 1].tasks[k] # "pending"
            BY <1>3, <1>5, <3>1, <3>2
        <3>5. QED
            BY <3>2, <3>3, <3>4
    <2>4. QED
        BY <2>1, <2>2, <2>3
<1>9. updates'[Len(updates')].tasks = Snapshot'
    BY <1>2, <1>3
<1>10. \A k \in Spoken' : /\ status'[k] \in Terminal
                          /\ taskState'[k] # "pending"
                          /\ \A i \in DOMAIN updates' : updates'[i].tasks[k] # "pending"
    BY <1>4, <1>6, <1>7
<1>11. \A i \in DOMAIN updates' : \A k \in ToSet(updates'[i].done) :
           /\ status'[k] \in Terminal
           /\ \A j \in DOMAIN updates' : i <= j => updates'[j].tasks[k] # "pending"
    <2>1. TAKE i \in DOMAIN updates'
    <2>2. TAKE k \in ToSet(updates'[i].done)
    <2>3. i \in 1 .. n + 1
        BY <1>4
    <2>4. /\ status'[k] \in Terminal
          /\ \A j \in 1 .. n + 1 : i <= j => updates'[j].tasks[k] # "pending"
        BY <1>8, <2>3
    <2>5. QED
        BY <1>4, <2>4
<1>12. updates' = <<>> => taskState' = Snapshot'
    BY <1>3
<1>13. QED
    BY <1>9, <1>10, <1>11, <1>12 DEF Shown

LEMMA ShownDrained ==
    ASSUME HubAssumption, HubInv, Shown, NEW x \in Threads, DrainNext(x)
    PROVE  Shown'
<1>1. /\ pc[x] = "drain" /\ updates # <<>> /\ updates' = Tail(updates)
      /\ taskState' = Head(updates).tasks
      /\ unsaid' = [unsaid EXCEPT ![x] = Head(updates).done]
      /\ unsaid[x] = <<>>
      /\ UNCHANGED <<told, order, status>>
    BY DEF DrainNext, hubState
<1> DEFINE n == Len(updates')
<1>2. /\ updates \in Seq(Update) /\ unsaid \in [Threads -> Seq(Tasks)]
      /\ updates' \in Seq(Update) /\ n \in Nat /\ Len(updates) = n + 1
      /\ \A i \in 1 .. n : updates'[i] = updates[i + 1]
      /\ Head(updates) = updates[1]
    <2>1. updates \in Seq(Update) /\ unsaid \in [Threads -> Seq(Tasks)]
        BY DEF HubInv, TypeOK, Update
    <2>2. /\ Tail(updates) \in Seq(Update) /\ Len(Tail(updates)) = Len(updates) - 1
          /\ \A i \in 1 .. Len(Tail(updates)) : Tail(updates)[i] = updates[i + 1]
          /\ Len(updates) \in Nat \ {0}
        BY <1>1, <2>1, HeadTailProperties, EmptySeq
    <2>3. Head(updates) = updates[1]
        BY <1>1, <2>1
    <2>4. QED
        BY <1>1, <2>1, <2>2, <2>3
<1>3. DOMAIN updates = 1 .. n + 1 /\ DOMAIN updates' = 1 .. n
    BY <1>2
<1> HIDE DEF n
<1>4. /\ unsaid'[x] = updates[1].done
      /\ \A y \in Threads : y # x => unsaid'[y] = unsaid[y]
    BY <1>1, <1>2
<1>5. ASSUME NEW k \in Spoken' PROVE k \in Spoken \/ k \in ToSet(updates[1].done)
    BY <1>1, <1>4, <1>5 DEF Spoken
<1>6. Snapshot' = Snapshot
    BY <1>1 DEF Snapshot
<1>7. \A i \in 1 .. n : i + 1 \in 1 .. n + 1 /\ 1 <= i + 1
    BY <1>2
<1>8. 1 \in 1 .. n + 1
    BY <1>2
<1>9. ASSUME NEW k \in Spoken'
      PROVE  /\ status'[k] \in Terminal /\ taskState'[k] # "pending"
             /\ \A i \in 1 .. n : updates'[i].tasks[k] # "pending"
    <2>1. status[k] \in Terminal /\ \A i \in 1 .. n + 1 : updates[i].tasks[k] # "pending"
        <3>1. CASE k \in Spoken
            BY <1>3, <3>1 DEF Shown
        <3>2. CASE k \in ToSet(updates[1].done)
            <4>1. \A i \in 1 .. n + 1 : 1 <= i
                OBVIOUS
            <4>2. QED
                BY <1>3, <1>8, <3>2, <4>1 DEF Shown
        <3>3. QED
            BY <1>5, <1>9, <3>1, <3>2
    <2>2. QED
        BY <1>1, <1>2, <1>7, <1>8, <2>1
<1>10. ASSUME NEW i \in 1 .. n, NEW k \in ToSet(updates'[i].done)
       PROVE  /\ status'[k] \in Terminal
              /\ \A j \in 1 .. n : i <= j => updates'[j].tasks[k] # "pending"
    <2>1. k \in ToSet(updates[i + 1].done)
        BY <1>2, <1>10
    <2>2. /\ status[k] \in Terminal
          /\ \A j \in 1 .. n + 1 : i + 1 <= j => updates[j].tasks[k] # "pending"
        BY <1>3, <1>7, <2>1 DEF Shown
    <2>3. \A j \in 1 .. n : i <= j => i + 1 <= j + 1
        BY <1>2
    <2>4. QED
        BY <1>1, <1>2, <1>7, <2>2, <2>3
<1>11. updates' = <<>> => taskState' = Snapshot'
    <2>1. updates' = <<>> => n = 0
        BY DEF n
    <2>2. updates[n + 1].tasks = Snapshot
        BY <1>1, <1>2 DEF Shown
    <2>3. QED
        BY <1>1, <1>2, <1>6, <2>1, <2>2
<1>12. updates' # <<>> => updates'[Len(updates')].tasks = Snapshot'
    <2>1. SUFFICES ASSUME updates' # <<>> PROVE updates'[n].tasks = Snapshot'
        BY DEF n
    <2>2. n \in 1 .. n
        BY <1>2, <2>1, EmptySeq DEF n
    <2>3. updates'[n] = updates[n + 1]
        BY <1>2, <2>2
    <2>4. updates[n + 1].tasks = Snapshot
        BY <1>1, <1>2 DEF Shown
    <2>5. QED
        BY <1>6, <2>3, <2>4
<1>13. QED
    BY <1>3, <1>9, <1>10, <1>11, <1>12 DEF Shown

LEMMA ShownEmitted ==
    ASSUME HubInv, Shown, NEW x \in Threads, DrainEmit(x)
    PROVE  Shown'
<1>1. /\ unsaid[x] # <<>> /\ told' = Append(told, Head(unsaid[x]))
      /\ unsaid' = [unsaid EXCEPT ![x] = Tail(@)]
      /\ UNCHANGED <<updates, taskState, order, status>>
    BY DEF DrainEmit, hubState
<1>2. /\ unsaid \in [Threads -> Seq(Tasks)] /\ unsaid[x] \in Seq(Tasks) /\ told \in Seq(Tasks)
      /\ \A y \in Threads : unsaid[y] \in Seq(Tasks)
    BY DEF HubInv, TypeOK
<1>3. /\ Head(unsaid[x]) \in Tasks /\ Head(unsaid[x]) \in ToSet(unsaid[x])
      /\ Tail(unsaid[x]) \in Seq(Tasks) /\ ToSet(Tail(unsaid[x])) \subseteq ToSet(unsaid[x])
    <2> DEFINE s == unsaid[x]
    <2>1. /\ Head(s) \in Tasks /\ Tail(s) \in Seq(Tasks) /\ Len(Tail(s)) = Len(s) - 1
          /\ Head(s) = s[1] /\ Len(s) \in Nat \ {0}
          /\ \A i \in 1 .. Len(Tail(s)) : Tail(s)[i] = s[i + 1]
        BY <1>1, <1>2, HeadTailProperties, EmptySeq
    <2>2. s \in Seq(Tasks)
        BY <1>2
    <2> HIDE DEF s
    <2>3. 1 \in 1 .. Len(s) /\ \A i \in 1 .. Len(Tail(s)) : i + 1 \in 1 .. Len(s)
        BY <2>1
    <2>4. \A i \in 1 .. Len(s) : s[i] \in ToSet(s)
        BY <2>2, MembersOf
    <2>5. \A k \in ToSet(Tail(s)) : \E i \in 1 .. Len(Tail(s)) : Tail(s)[i] = k
        BY <2>1, MembersOf
    <2>6. Head(s) \in ToSet(s) /\ ToSet(Tail(s)) \subseteq ToSet(s)
        BY <2>1, <2>3, <2>4, <2>5
    <2>7. QED
        BY <2>1, <2>6 DEF s
<1>4. ToSet(told') = ToSet(told) \cup {Head(unsaid[x])}
    BY <1>1, <1>2, <1>3, MembersAppend
<1>5. unsaid'[x] = Tail(unsaid[x]) /\ \A y \in Threads : y # x => unsaid'[y] = unsaid[y]
    BY <1>1, <1>2
<1>6. Spoken' \subseteq Spoken
    BY <1>3, <1>4, <1>5 DEF Spoken
<1>7. Snapshot' = Snapshot
    BY <1>1 DEF Snapshot
<1>8. QED
    BY <1>1, <1>6, <1>7 DEF Shown

LEMMA ShownStays ==
    ASSUME Shown, UNCHANGED <<updates, taskState, order, status, told, unsaid>>
    PROVE  Shown'
<1>1. Snapshot' = Snapshot /\ Spoken' = Spoken
    BY DEF Snapshot, Spoken
<1>2. QED
    BY <1>1 DEF Shown

LEMMA ShownStep ==
    ASSUME HubAssumption, HubInv, Shown, [Next]_vars
    PROVE  Shown'
<1>0. status' \in [Tasks -> Statuses] /\ status \in [Tasks -> Statuses]
    <2>1. HubInv'
        BY HubStep
    <2>2. QED
        BY <2>1 DEF HubInv, TypeOK
<1>1. ASSUME NEW c \in Clients, NEW k \in Tasks, NEW q \in Queries, StartBackground(c, k, q)
      PROVE  Shown'
    <2>1. /\ UNCHANGED <<told, unsaid, taskState>> /\ status[k] = "unstarted"
          /\ updates' = Append(updates, [tasks |-> Snapshot', done |-> <<>>])
          /\ status' = [status EXCEPT ![k] = "pending"]
        BY <1>1 DEF StartBackground, Enqueue
    <2>2. \A j \in Tasks : status[j] \in Terminal => status'[j] \in Terminal
        BY <1>0, <2>1 DEF Terminal
    <2>3. <<>> \in Seq(Tasks) /\ ToSet(<<>>) = {}
        BY MembersEmpty
    <2>4. QED
        BY <1>0, <2>1, <2>2, <2>3, ShownEnqueued
<1>2. ASSUME NEW c \in Clients, NEW k \in Tasks, Cancel(c, k) PROVE Shown'
    <2> DEFINE done == <<k>>
               outcome == [j \in {k} |-> "cancelled"]
    <2>1. /\ done \in Seq(Tasks) /\ Unrepeated(done) /\ ToSet(done) \subseteq PendingTasks
          /\ \A j \in ToSet(done) : outcome[j] \in Terminal
          /\ Complete(done, outcome)
        BY <1>2, CancelCompletes
    <2>2. /\ UNCHANGED <<told, unsaid, taskState>>
          /\ updates' = Append(updates, [tasks |-> Snapshot', done |-> done])
        BY <1>2 DEF Cancel, Enqueue
    <2> HIDE DEF done, outcome
    <2>3. \A j \in Tasks : status[j] \in Terminal \/ j \in ToSet(done) => status'[j] \in Terminal
        BY <2>1, CompleteKeeps DEF HubInv
    <2>4. QED
        BY <1>0, <2>1, <2>2, <2>3, ShownEnqueued
<1>3. ASSUME NEW passed, Settle(passed) PROVE Shown'
    <2> DEFINE done == Decided(passed)
               outcome == [k \in ToSet(done) |-> Outcome(query[k], k \in passed)]
    <2>1. /\ done \in Seq(Tasks) /\ Unrepeated(done) /\ ToSet(done) \subseteq PendingTasks
          /\ \A k \in ToSet(done) : Outcome(query[k], k \in passed) # "pending"
        BY DecidedFacts
    <2>2. \A k \in ToSet(done) : outcome[k] \in Terminal
        <3>1. TAKE k \in ToSet(done)
        <3>2. outcome[k] = Outcome(query[k], k \in passed)
            OBVIOUS
        <3>3. QED
            BY <2>1, <3>2, OutcomeType
    <2>3. /\ UNCHANGED <<told, unsaid, taskState>> /\ Complete(done, outcome)
          /\ updates' = Append(updates, [tasks |-> Snapshot', done |-> done])
        BY <1>3 DEF Settle, Enqueue
    <2> HIDE DEF done, outcome
    <2>4. \A j \in Tasks : status[j] \in Terminal \/ j \in ToSet(done) => status'[j] \in Terminal
        BY <2>1, <2>2, <2>3, CompleteKeeps DEF HubInv
    <2>5. QED
        BY <1>0, <2>1, <2>3, <2>4, ShownEnqueued
<1>4. CASE UNCHANGED <<updates, taskState, order, status, told, unsaid>>
    BY <1>4, ShownStays
<1>5. CASE UNCHANGED vars
    BY <1>4, <1>5 DEF vars, hubState, updateQueue
<1>6. ASSUME NEW c \in Clients, Call(c)
      PROVE  \/ UNCHANGED <<updates, taskState, order, status, told, unsaid>>
             \/ \E k \in Tasks : Cancel(c, k) \/ \E q \in Queries : StartBackground(c, k, q)
    BY <1>6 DEF Call, RegisterSource, CloseSource, Publish, WaitBegins, updateQueue
<1>7. ASSUME NEW c \in Clients, NotifyAll(c) \/ Waiting(c)
      PROVE  UNCHANGED <<updates, taskState, order, status, told, unsaid>>
    BY <1>7 DEF NotifyAll, Waiting, WaitReturns, WaitParks, WaitTimesOut, hubState, updateQueue
<1>8. ASSUME NEW x \in Threads, Drain(x) PROVE Shown'
    <2>1. DrainEnd(x) => UNCHANGED <<updates, taskState, order, status, told, unsaid>>
        BY DEF DrainEnd, hubState
    <2>2. QED
        BY <1>4, <1>8, <2>1, ShownDrained, ShownEmitted DEF Drain
<1>9. ASSUME CoordinatorParks \/ CoordinatorTimesOut \/ CoordinatorStops
      PROVE  UNCHANGED <<updates, taskState, order, status, told, unsaid>>
    BY <1>9 DEF CoordinatorParks, CoordinatorTimesOut, CoordinatorStops, hubState, updateQueue
<1>10. CASE DropHub
    BY <1>4, <1>10 DEF DropHub, updateQueue
<1>11. CASE Next
    BY <1>1, <1>2, <1>3, <1>4, <1>6, <1>7, <1>8, <1>9, <1>10, <1>11 DEF Next, Coordinating
<1>12. QED
    BY <1>5, <1>11

\* Observers are never told of an end that the table they are shown does not have, whichever
\* threads share the draining.
THEOREM HubFresh == Spec => []TaskStateFresh
<1>1. HubAssumption /\ Init => Shown
    BY MembersEmpty DEF Init, Shown, Spoken
<1>2. HubInv /\ Shown /\ [Next]_vars => Shown'
    BY ShownStep, HubAssumption
<1>3. HubInv /\ Shown => TaskStateFresh
    BY ShownIsFresh
<1>4. QED
    BY <1>1, <1>2, <1>3, HubAssumption, HubInvariant, PTL DEF Spec

-----------------------------------------------------------------------------
(* Every completion exactly once *)

\* The completions that the updates of a queue carry.
Dones(us) == [i \in DOMAIN us |-> us[i].done]

LEMMA DonesType ==
    ASSUME NEW us \in Seq(Update)
    PROVE  /\ Dones(us) \in Seq(Seq(Tasks)) /\ Len(Dones(us)) = Len(us)
           /\ \A i \in 1 .. Len(us) : Dones(us)[i] = us[i].done
<1>1. Len(us) \in Nat /\ DOMAIN us = 1 .. Len(us) /\ \A i \in 1 .. Len(us) : us[i] \in Update
    BY LenProperties, ElementOfSeq
<1>2. \A u \in Update : u.done \in Seq(Tasks)
    BY DEF Update
<1>3. \A i \in 1 .. Len(us) : us[i].done \in Seq(Tasks)
    BY <1>1, <1>2
<1>4. Dones(us) = [i \in 1 .. Len(us) |-> us[i].done]
    BY <1>1 DEF Dones
<1>5. QED
    BY <1>1, <1>3, <1>4, IsASeq

LEMMA DonesAppend ==
    ASSUME NEW us \in Seq(Update), NEW u \in Update
    PROVE  Dones(Append(us, u)) = Append(Dones(us), u.done)
<1> DEFINE s == Dones(us)
           vs == Append(us, u)
           t == Append(s, u.done)
<1>1. /\ s \in Seq(Seq(Tasks)) /\ Len(s) = Len(us)
      /\ \A i \in 1 .. Len(us) : s[i] = us[i].done
    BY DonesType
<1>2. /\ vs \in Seq(Update) /\ Len(vs) = Len(us) + 1 /\ Len(us) \in Nat
      /\ \A i \in 1 .. Len(us) : vs[i] = us[i]
      /\ vs[Len(us) + 1] = u
    BY AppendProperties, LenProperties
<1>3. u.done \in Seq(Tasks)
    BY DEF Update
<1> HIDE DEF s, vs
<1>4. /\ t \in Seq(Seq(Tasks)) /\ Len(t) = Len(us) + 1
      /\ \A i \in 1 .. Len(us) : t[i] = s[i]
      /\ t[Len(us) + 1] = u.done
    BY <1>1, <1>3, AppendProperties
<1> HIDE DEF t
<1>5. /\ Dones(vs) \in Seq(Seq(Tasks)) /\ Len(Dones(vs)) = Len(us) + 1
      /\ \A i \in 1 .. Len(us) + 1 : Dones(vs)[i] = vs[i].done
    BY <1>2, DonesType
<1>6. \A i \in 1 .. Len(us) + 1 : Dones(vs)[i] = t[i]
    <2>1. \A i \in 1 .. Len(us) + 1 : i \in 1 .. Len(us) \/ i = Len(us) + 1
        BY <1>2
    <2>2. QED
        BY <1>1, <1>2, <1>4, <1>5, <2>1
<1>7. Dones(vs) = t
    BY <1>4, <1>5, <1>6, SeqEqual
<1>8. QED
    BY <1>7 DEF s, t, vs

LEMMA DonesHead ==
    ASSUME NEW us \in Seq(Update), us # <<>>
    PROVE  /\ Dones(us) # <<>> /\ Head(Dones(us)) = Head(us).done
           /\ Tail(Dones(us)) = Dones(Tail(us))
<1> DEFINE s == Dones(us)
           vs == Tail(us)
<1>1. /\ s \in Seq(Seq(Tasks)) /\ Len(s) = Len(us)
      /\ \A i \in 1 .. Len(us) : s[i] = us[i].done
    BY DonesType
<1>2. /\ vs \in Seq(Update) /\ Len(vs) = Len(us) - 1 /\ Len(us) \in Nat \ {0}
      /\ \A i \in 1 .. Len(vs) : vs[i] = us[i + 1]
    BY HeadTailProperties, EmptySeq
<1>3. Head(us) = us[1]
    OBVIOUS
<1> HIDE DEF s, vs
<1>4. s # <<>>
    <2>1. Len(s) # 0
        BY <1>1, <1>2
    <2>2. QED
        BY <2>1
<1>5. Head(s) = Head(us).done
    <2>1. Head(s) = s[1] /\ 1 \in 1 .. Len(us)
        BY <1>1, <1>2, <1>4
    <2>2. QED
        BY <1>1, <1>3, <2>1
<1>6. /\ Tail(s) \in Seq(Seq(Tasks)) /\ Len(Tail(s)) = Len(vs)
      /\ \A i \in 1 .. Len(vs) : Tail(s)[i] = s[i + 1]
    BY <1>1, <1>2, <1>4, HeadTailProperties
<1>7. /\ Dones(vs) \in Seq(Seq(Tasks)) /\ Len(Dones(vs)) = Len(vs)
      /\ \A i \in 1 .. Len(vs) : Dones(vs)[i] = vs[i].done
    BY <1>2, DonesType
<1>8. \A i \in 1 .. Len(vs) : i + 1 \in 1 .. Len(us)
    BY <1>2
<1>9. \A i \in 1 .. Len(vs) : Tail(s)[i] = Dones(vs)[i]
    BY <1>1, <1>2, <1>6, <1>7, <1>8
<1>10. Tail(s) = Dones(vs)
    BY <1>6, <1>7, <1>9, SeqEqual
<1>11. QED
    BY <1>4, <1>5, <1>10 DEF s, vs

\* The completions in the hand of the thread that drains, and all there have ever been.
InHand ==
    LET holders == {x \in Threads : unsaid[x] # <<>>}
    IN  IF holders = {} THEN <<>> ELSE unsaid[CHOOSE x \in holders : TRUE]
Reported == told \o InHand \o FlattenSeq(Dones(updates))

\* Each settled task is reported once, and the newest ones are the retained ones.
Reports(all) ==
    /\ Unrepeated(all)
    /\ ToSet(all) = {k \in Tasks : status[k] \in Terminal}
    /\ IsSuffix(completed, all)

LEMMA ExactlyOnceIs ==
    /\ ExactlyOnce <=> Reports(Reported)
    /\ ExactlyOnce' <=> Reports(Reported)'
BY DEF ExactlyOnce, Reports, Reported, InHand, Dones, Unrepeated

LEMMA InHandIs ==
    ASSUME NEW x \in Threads
    PROVE  /\ Draining /\ pc[x] = "drain" => InHand = unsaid[x]
           /\ Draining' /\ pc'[x] = "drain" => InHand' = unsaid'[x]
<1>1. ASSUME Draining, pc[x] = "drain" PROVE InHand = unsaid[x]
    <2>1. CASE unsaid[x] = <<>>
        BY <1>1, <2>1 DEF InHand, Draining
    <2>2. CASE unsaid[x] # <<>>
        <3>1. {y \in Threads : unsaid[y] # <<>>} = {x}
            BY <1>1, <2>2 DEF Draining
        <3>2. QED
            BY <3>1 DEF InHand
    <2>3. QED
        BY <2>1, <2>2
<1>2. ASSUME Draining', pc'[x] = "drain" PROVE InHand' = unsaid'[x]
    <2>1. CASE unsaid'[x] = <<>>
        BY <1>2, <2>1 DEF InHand, Draining
    <2>2. CASE unsaid'[x] # <<>>
        <3>1. {y \in Threads : unsaid'[y] # <<>>} = {x}
            BY <1>2, <2>2 DEF Draining
        <3>2. QED
            BY <3>1 DEF InHand
    <2>3. QED
        BY <2>1, <2>2
<1>3. QED
    BY <1>1, <1>2

LEMMA ReportedType ==
    ASSUME HubInv
    PROVE  /\ told \in Seq(Tasks) /\ InHand \in Seq(Tasks)
           /\ updates \in Seq(Update) /\ FlattenSeq(Dones(updates)) \in Seq(Tasks)
           /\ Reported \in Seq(Tasks)
<1>1. told \in Seq(Tasks) /\ unsaid \in [Threads -> Seq(Tasks)] /\ updates \in Seq(Update)
    BY DEF HubInv, TypeOK, Update
<1>2. InHand \in Seq(Tasks)
    BY <1>1 DEF InHand
<1>3. FlattenSeq(Dones(updates)) \in Seq(Tasks)
    BY <1>1, DonesType, FlattenType
<1>4. QED
    BY <1>1, <1>2, <1>3, ConcatProperties DEF Reported

LEMMA Associative ==
    \A a, b, c \in Seq(Tasks) : (a \o b) \o c = a \o (b \o c)
BY ConcatAssociative

\* An update adds its completions to what is reported.
LEMMA ReportedEnqueued ==
    ASSUME HubInv, NEW u \in Update, updates' = Append(updates, u), UNCHANGED <<told, unsaid>>
    PROVE  Reported' = Reported \o u.done
<1> DEFINE q == FlattenSeq(Dones(updates))
           f == told \o InHand
<1>1. /\ told \in Seq(Tasks) /\ InHand \in Seq(Tasks) /\ updates \in Seq(Update)
      /\ q \in Seq(Tasks) /\ f \in Seq(Tasks) /\ u.done \in Seq(Tasks)
    BY ReportedType, ConcatProperties DEF Update
<1>2. FlattenSeq(Dones(updates')) = q \o u.done
    <2>1. Dones(updates) \in Seq(Seq(Tasks)) /\ Dones(updates') = Append(Dones(updates), u.done)
        BY <1>1, DonesType, DonesAppend
    <2>2. QED
        BY <1>1, <2>1, FlattenAppend
<1>3. InHand' = InHand
    BY DEF InHand
<1>4. Reported' = f \o (q \o u.done) /\ Reported = f \o q
    BY <1>2, <1>3 DEF Reported
<1> HIDE DEF f, q
<1>5. f \o (q \o u.done) = (f \o q) \o u.done
    BY <1>1, Associative, ZenonT(60)
<1>6. QED
    BY <1>4, <1>5

\* Draining moves completions from the queue into the hand and on, and loses none.
LEMMA ReportedDrained ==
    ASSUME HubAssumption, HubInv, NEW x \in Threads, Drain(x)
    PROVE  Reported' = Reported
<1>1. /\ told \in Seq(Tasks) /\ updates \in Seq(Update) /\ unsaid[x] \in Seq(Tasks)
      /\ FlattenSeq(Dones(updates)) \in Seq(Tasks) /\ unsaid \in [Threads -> Seq(Tasks)]
    BY ReportedType DEF HubInv, TypeOK
<1>2. pc[x] = "drain" /\ InHand = unsaid[x]
    BY InHandIs DEF HubInv, Drain, DrainNext, DrainEmit, DrainEnd
<1>3. Draining'
    BY DrainNextKeeps, DrainEmitKeeps, DrainEndKeeps DEF Drain, HubInv
<1>4. CASE DrainNext(x)
    <2>1. /\ updates # <<>> /\ unsaid[x] = <<>> /\ updates' = Tail(updates)
          /\ unsaid'[x] = Head(updates).done /\ pc' = pc /\ told' = told
        BY <1>1, <1>4 DEF DrainNext
    <2>2. InHand' = Head(updates).done
        BY <1>2, <1>3, <2>1, InHandIs
    <2> DEFINE h == Head(updates).done
               q == FlattenSeq(Dones(Tail(updates)))
    <2>3. h \in Seq(Tasks) /\ q \in Seq(Tasks)
        <3>1. Head(updates) \in Update /\ Tail(updates) \in Seq(Update)
            BY <1>1, <2>1, HeadTailProperties
        <3>2. QED
            BY <3>1, DonesType, FlattenType DEF Update
    <2>4. FlattenSeq(Dones(updates)) = h \o q
        <3>1. Dones(updates) \in Seq(Seq(Tasks))
            BY <1>1, DonesType
        <3>2. /\ Dones(updates) # <<>> /\ Head(Dones(updates)) = Head(updates).done
              /\ Tail(Dones(updates)) = Dones(Tail(updates))
            BY <1>1, <2>1, DonesHead
        <3>3. QED
            BY <3>1, <3>2, FlattenHead
    <2>5. Reported = told \o <<>> \o (h \o q) /\ Reported' = told \o h \o q
        BY <1>2, <2>1, <2>2, <2>4 DEF Reported
    <2> HIDE DEF h, q
    <2>6. told \o <<>> = told
        BY <1>1, ConcatEmptySeq
    <2>7. (told \o h) \o q = told \o (h \o q)
        <3>1. told \in Seq(Tasks) /\ h \in Seq(Tasks) /\ q \in Seq(Tasks)
            BY <1>1, <2>3
        <3>2. QED
            BY <3>1, Associative, ZenonT(60)
    <2>8. QED
        BY <2>5, <2>6, <2>7
<1>5. CASE DrainEmit(x)
    <2> DEFINE s == unsaid[x]
               q == FlattenSeq(Dones(updates))
    <2>1. /\ s # <<>> /\ told' = Append(told, Head(s)) /\ unsaid'[x] = Tail(s)
          /\ updates' = updates /\ pc' = pc
        BY <1>1, <1>5 DEF DrainEmit
    <2>2. InHand' = Tail(s)
        BY <1>2, <1>3, <2>1, InHandIs
    <2>3. Reported = told \o s \o q /\ Reported' = Append(told, Head(s)) \o Tail(s) \o q
        BY <1>2, <2>1, <2>2 DEF Reported
    <2>4. s \in Seq(Tasks)
        BY <1>1
    <2> HIDE DEF s, q
    <2>5. Append(told, Head(s)) \o Tail(s) = told \o s
        <3>1. Head(s) \in Tasks /\ Tail(s) \in Seq(Tasks) /\ <<Head(s)>> \in Seq(Tasks)
            BY <2>1, <2>4, HeadTailProperties
        <3>2. Append(told, Head(s)) = told \o <<Head(s)>>
            BY <1>1, <3>1, AppendIsConcat
        <3>3. (told \o <<Head(s)>>) \o Tail(s) = told \o (<<Head(s)>> \o Tail(s))
            BY <1>1, <3>1, ConcatAssociative, SMTT(30)
        <3>4. <<Head(s)>> \o Tail(s) = s
            BY <2>1, <2>4
        <3>5. QED
            BY <3>2, <3>3, <3>4
    <2>6. QED
        BY <2>3, <2>5
<1>6. CASE DrainEnd(x)
    <2>1. UNCHANGED <<told, unsaid, updates>>
        BY <1>6 DEF DrainEnd
    <2>2. QED
        BY <2>1 DEF Reported, InHand
<1>7. QED
    BY <1>4, <1>5, <1>6 DEF Drain

\* What Complete and Enqueue do together to the reports.
LEMMA ReportsCompleted ==
    ASSUME HubAssumption, HubInv, Reports(Reported),
           NEW done \in Seq(Tasks), Unrepeated(done), ToSet(done) \subseteq PendingTasks,
           NEW outcome, \A k \in ToSet(done) : outcome[k] \in Terminal, Complete(done, outcome),
           updates' = Append(updates, [tasks |-> Snapshot', done |-> done]),
           UNCHANGED <<told, unsaid>>
    PROVE  Reports(Reported)'
<1> DEFINE all == Reported
<1>1. /\ status' \in [Tasks -> Statuses]
      /\ \A k \in Tasks : IF k \in ToSet(done) THEN status'[k] \in Terminal
                                              ELSE status'[k] = status[k]
      /\ \E m \in Nat \ {0} : completed' = SubSeq(completed \o done, m, Len(completed \o done))
    BY CompleteKeeps DEF HubInv
<1>2. all' = all \o done
    <2>1. [tasks |-> Snapshot', done |-> done] \in Update
        BY <1>1, SnapshotType DEF Update
    <2>2. QED
        BY <2>1, ReportedEnqueued
<1>3. all \in Seq(Tasks) /\ completed \in Seq(Tasks)
    BY ReportedType DEF HubInv, TypeOK
<1>4. /\ Unrepeated(all) /\ ToSet(all) = {k \in Tasks : status[k] \in Terminal}
      /\ IsSuffix(completed, all)
    BY DEF Reports
<1>5. ToSet(done) \subseteq {k \in Tasks : status[k] = "pending"}
    BY PendingIs DEF HubInv
<1> HIDE DEF all
<1>6. ToSet(all) \cap ToSet(done) = {}
    BY <1>4, <1>5 DEF Terminal
<1>7. Unrepeated(all \o done) /\ ToSet(all \o done) = ToSet(all) \cup ToSet(done)
    BY <1>3, <1>4, <1>6, MembersConcat
<1>8. ToSet(all) \cup ToSet(done) = {k \in Tasks : status'[k] \in Terminal}
    BY <1>1, <1>4, <1>5
<1>9. IsSuffix(completed', all \o done)
    <2>1. PICK m \in Nat \ {0} : completed' = SubSeq(completed \o done, m, Len(completed \o done))
        BY <1>1
    <2>2. QED
        BY <1>3, <1>4, <2>1, SuffixConcat
<1>10. /\ Unrepeated(all') /\ ToSet(all') = {k \in Tasks : status'[k] \in Terminal}
       /\ IsSuffix(completed', all')
    BY <1>2, <1>7, <1>8, <1>9
<1>11. QED
    BY <1>10 DEF all, Reports

\* What neither completes a task nor touches the queue of updates changes no report.
LEMMA ReportsStay ==
    ASSUME Reports(Reported), UNCHANGED <<told, unsaid, updates, status, completed>>
    PROVE  Reports(Reported)'
<1>1. Reported' = Reported
    BY DEF Reported, InHand
<1>2. QED
    BY <1>1 DEF Reports

LEMMA ReportsStep ==
    ASSUME HubAssumption, HubInv, Reports(Reported), [Next]_vars
    PROVE  Reports(Reported)'
<1>1. ASSUME NEW c \in Clients, NEW k \in Tasks, NEW q \in Queries, StartBackground(c, k, q)
      PROVE  Reports(Reported)'
    <2>1. /\ UNCHANGED <<told, unsaid, completed>> /\ status[k] = "unstarted"
          /\ updates' = Append(updates, [tasks |-> Snapshot', done |-> <<>>])
          /\ status' = [status EXCEPT ![k] = "pending"]
        BY <1>1 DEF StartBackground, Enqueue
    <2>2. status \in [Tasks -> Statuses]
        BY DEF HubInv, TypeOK
    <2>3. Reported' = Reported
        <3>1. status' \in [Tasks -> Statuses]
            BY <2>1, <2>2 DEF Statuses
        <3>2. [tasks |-> Snapshot', done |-> <<>>] \in Update
            BY <3>1, SnapshotType DEF Update
        <3>3. Reported' = Reported \o <<>>
            BY <2>1, <3>2, ReportedEnqueued
        <3>4. QED
            BY <3>3, ReportedType, ConcatEmptySeq
    <2>4. {j \in Tasks : status'[j] \in Terminal} = {j \in Tasks : status[j] \in Terminal}
        BY <2>1, <2>2 DEF Terminal
    <2>5. QED
        BY <2>1, <2>3, <2>4 DEF Reports
<1>2. ASSUME NEW c \in Clients, NEW k \in Tasks, Cancel(c, k) PROVE Reports(Reported)'
    <2> DEFINE done == <<k>>
               outcome == [j \in {k} |-> "cancelled"]
    <2>1. /\ done \in Seq(Tasks) /\ Unrepeated(done) /\ ToSet(done) \subseteq PendingTasks
          /\ \A j \in ToSet(done) : outcome[j] \in Terminal
          /\ Complete(done, outcome)
        BY <1>2, CancelCompletes
    <2>2. /\ UNCHANGED <<told, unsaid>>
          /\ updates' = Append(updates, [tasks |-> Snapshot', done |-> done])
        BY <1>2 DEF Cancel, Enqueue
    <2> HIDE DEF done, outcome
    <2>3. QED
        BY <2>1, <2>2, ReportsCompleted
<1>3. ASSUME NEW passed, Settle(passed) PROVE Reports(Reported)'
    <2> DEFINE done == Decided(passed)
               outcome == [k \in ToSet(done) |-> Outcome(query[k], k \in passed)]
    <2>1. /\ done \in Seq(Tasks) /\ Unrepeated(done) /\ ToSet(done) \subseteq PendingTasks
          /\ \A k \in ToSet(done) : Outcome(query[k], k \in passed) # "pending"
        BY DecidedFacts
    <2>2. \A k \in ToSet(done) : outcome[k] \in Terminal
        <3>1. TAKE k \in ToSet(done)
        <3>2. outcome[k] = Outcome(query[k], k \in passed)
            OBVIOUS
        <3>3. QED
            BY <2>1, <3>2, OutcomeType
    <2>3. /\ UNCHANGED <<told, unsaid>> /\ Complete(done, outcome)
          /\ updates' = Append(updates, [tasks |-> Snapshot', done |-> done])
        BY <1>3 DEF Settle, Enqueue
    <2> HIDE DEF done, outcome
    <2>4. QED
        BY <2>1, <2>2, <2>3, ReportsCompleted
<1>4. CASE UNCHANGED <<told, unsaid, updates, status, completed>>
    BY <1>4, ReportsStay
<1>5. CASE UNCHANGED vars
    BY <1>4, <1>5 DEF vars, hubState, updateQueue
<1>6. ASSUME NEW c \in Clients, Call(c)
      PROVE  \/ UNCHANGED <<told, unsaid, updates, status, completed>>
             \/ \E k \in Tasks : Cancel(c, k) \/ \E q \in Queries : StartBackground(c, k, q)
    BY <1>6 DEF Call, RegisterSource, CloseSource, Publish, WaitBegins, updateQueue
<1>7. ASSUME NEW c \in Clients, NotifyAll(c) \/ Waiting(c)
      PROVE  UNCHANGED <<told, unsaid, updates, status, completed>>
    BY <1>7 DEF NotifyAll, Waiting, WaitReturns, WaitParks, WaitTimesOut, hubState, updateQueue
<1>8. ASSUME NEW x \in Threads, Drain(x) PROVE Reports(Reported)'
    <2>1. UNCHANGED <<status, completed>>
        BY <1>8 DEF Drain, DrainNext, DrainEmit, DrainEnd, hubState
    <2>2. Reported' = Reported
        BY <1>8, ReportedDrained
    <2>3. QED
        BY <2>1, <2>2 DEF Reports
<1>9. ASSUME CoordinatorParks \/ CoordinatorTimesOut \/ CoordinatorStops
      PROVE  UNCHANGED <<told, unsaid, updates, status, completed>>
    BY <1>9 DEF CoordinatorParks, CoordinatorTimesOut, CoordinatorStops, hubState, updateQueue
<1>10. CASE DropHub
    BY <1>4, <1>10 DEF DropHub, updateQueue
<1>11. CASE Next
    BY <1>1, <1>2, <1>3, <1>4, <1>6, <1>7, <1>8, <1>9, <1>10, <1>11 DEF Next, Coordinating
<1>12. QED
    BY <1>5, <1>11

\* ExactlyOnce: however the threads that settle, cancel and start tasks share the draining,
\* every completion is emitted once and in order.
THEOREM HubExactlyOnce == Spec => []ExactlyOnce
<1>1. Init => ExactlyOnce
    <2> SUFFICES ASSUME Init PROVE Reports(Reported)
        BY ExactlyOnceIs
    <2>1. told = <<>> /\ InHand = <<>> /\ completed = <<>>
        BY DEF Init, InHand
    <2>2. Dones(updates) = <<>>
        BY DEF Init, Dones
    <2>3. Reported = <<>> \o <<>> \o <<>>
        BY <2>1, <2>2, FlattenEmpty DEF Reported
    <2>4. Reported = <<>>
        BY <2>3
    <2>5. {k \in Tasks : status[k] \in Terminal} = {}
        BY DEF Init, Terminal
    <2>6. IsSuffix(<<>>, <<>>)
        <3>1. <<>> \in Seq(Tasks) /\ Len(<<>>) = 0
            OBVIOUS
        <3>2. IsSuffix(<<>>, <<>>) <=>
                  /\ Len(<<>>) <= Len(<<>>)
                  /\ \A i \in 1 .. Len(<<>>) : <<>>[i] = <<>>[Len(<<>>) - Len(<<>>) + i]
            BY <3>1, SuffixAt, Zenon
        <3>3. QED
            BY <3>1, <3>2
    <2>7. QED
        BY <2>1, <2>4, <2>5, <2>6, MembersEmpty DEF Reports
<1>2. HubInv /\ ExactlyOnce /\ [Next]_vars => ExactlyOnce'
    BY ReportsStep, HubAssumption, ExactlyOnceIs
<1>3. QED
    BY <1>1, <1>2, HubInvariant, PTL DEF Spec

=============================================================================
