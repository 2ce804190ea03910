------------------------- MODULE PromptRouteProofs -------------------------
(***************************************************************************)
(* TLAPS proofs about PromptRoute for any projects and sessions and any    *)
(* bounds on commands, pipes and upsets.                                   *)
(*                                                                         *)
(* That a prompt is sent once, or comes back once, is not inductive: it    *)
(* says nothing of the prompts still on their way.  The inductive          *)
(* invariant RouteInv says where each of them is: what waits for a hook,   *)
(* or is in a hook's control, has not reached the application; what the    *)
(* application has is in one place of it, held for one project or deferred *)
(* in one session, and has neither been sent nor come back; what was       *)
(* given and is in neither is settled.  For DirectHome it also says where  *)
(* the prompts the application has will go.                                *)
(*                                                                         *)
(* A handler is a composition of functions on the state of the             *)
(* application, and the proof follows it: each function keeps every prompt *)
(* where it is (Calm) or moves those it names (Follows), both compose, and *)
(* BecomesKeeps turns what a handler has done into the next state.         *)
(***************************************************************************)
EXTENDS PromptRoute, SequenceLemmas

(* The state of the application, typed; g are the projects the commands were given in *)

Statuses == {"Offline", "Starting", "Ready", "Streaming", "Compacting", "Failed"}
Events == {"ready", "peer", "user", "assistant", "empty", "settled", "compacting", "compacted",
           "exited"}
Runs == {"off", "booting", "idle", "running", "compacting", "pausing", "gone"}

\* The commands that have been given.
Commands(g) ==
    {c \in [number : Numbers, kind : Prompts \cup {"model", "settings"},
            project : Projects \cup {Nothing}] :
        c.number \in DOMAIN g /\ c.project = g[c.number]}

Turns(g) ==
    [running : BOOLEAN, inRun : BOOLEAN, compacted : BOOLEAN, failed : BOOLEAN,
     pending : Commands(g) \cup {Nothing}]
Processes == [run : Runs, out : Seq(Events), in : SUBSET {"prompt", "compact"}]

Applications(g) ==
    [live : SUBSET Sessions, active : Sessions \cup {Nothing}, selected : Projects \cup {Nothing},
     status : Statuses, turn : [Sessions -> Turns(g)], pi : [Sessions -> Processes],
     model : BOOLEAN, edited : SUBSET Projects, reloads : SUBSET Projects,
     held : [Projects -> Seq(Commands(g))], parked : SUBSET Numbers,
     sent : [Numbers -> Seq(Sessions)], upsets : Nat]

WellFormed(a, g) ==
    /\ a \in Applications(g)
    /\ a.active \in a.live \cup {Nothing}
    /\ \A s \in Sessions : a.pi[s] # Off => s \in a.live

-----------------------------------------------------------------------------
(* Where a prompt is, once a handler has it *)

HeldAt(a, n) == \E p \in Projects : \E i \in DOMAIN a.held[p] : a.held[p][i].number = n
PendingAt(a, n) == \E s \in Sessions : a.turn[s].pending # Nothing /\ a.turn[s].pending.number = n

\* The numbers of the prompts the application has, or has sent in this step.
Open(a) == {n \in Numbers : HeldAt(a, n) \/ PendingAt(a, n) \/ a.sent[n] # <<>>}

\* Each is in one place.
Once(a) ==
    /\ \A p, q \in Projects : \A i \in DOMAIN a.held[p], j \in DOMAIN a.held[q] :
          a.held[p][i].number = a.held[q][j].number => p = q /\ i = j
    /\ \A s, t \in Sessions :
          a.turn[s].pending # Nothing /\ a.turn[t].pending # Nothing
          /\ a.turn[s].pending.number = a.turn[t].pending.number => s = t
    /\ \A n \in Numbers : Len(a.sent[n]) <= 1
    /\ \A n \in Numbers : HeldAt(a, n) => ~PendingAt(a, n)
    /\ \A n \in Numbers : HeldAt(a, n) \/ PendingAt(a, n) => a.sent[n] = <<>>

\* What is held was parked; what is not parked goes to a session of the project it was
\* given in.
Aimed(a, g) ==
    /\ \A p \in Projects : \A i \in DOMAIN a.held[p] : a.held[p][i].number \in a.parked
    /\ \A s \in Sessions : a.turn[s].pending # Nothing =>
          \/ a.turn[s].pending.number \in a.parked
          \/ Home[s] = a.turn[s].pending.project
    /\ \A n \in Numbers : \A i \in DOMAIN a.sent[n] :
          n \in DOMAIN g /\ (n \in a.parked \/ Home[a.sent[n][i]] = g[n])

Sound(a, g) == WellFormed(a, g) /\ Once(a) /\ Aimed(a, g)

-----------------------------------------------------------------------------
(* The queue of the controlled commands, and the answers *)

Unsettled(n) == fate[n].to = <<>> /\ fate[n].back = 0

\* Commands that have not been executed yet have not reached the application.
Untouched(n) == n \notin Open(app) /\ Unsettled(n)

\* The numbers a queue has in control or waiting.
Numbered(h) ==
    {c.number : c \in h.inControl} \cup {h.waiting[i].number : i \in DOMAIN h.waiting}

QueueOK ==
    /\ host \in [waiting : Seq(Commands(given)), inControl : SUBSET Commands(given)]
    /\ \A c, d \in host.inControl : c = d
    /\ \A n \in Numbered(host) : Untouched(n)

\* What was executed comes before what is in control, and that before what waits.
Line(h, ex) ==
    /\ \A i, j \in DOMAIN ex : i < j => ex[i] < ex[j]
    /\ \A i, j \in DOMAIN h.waiting : i < j => h.waiting[i].number < h.waiting[j].number
    /\ \A c \in h.inControl : \A i \in DOMAIN ex : ex[i] < c.number
    /\ \A c \in h.inControl : \A j \in DOMAIN h.waiting : c.number < h.waiting[j].number
    /\ \A i \in DOMAIN ex, j \in DOMAIN h.waiting : ex[i] < h.waiting[j].number

FateOK ==
    /\ fate \in [Numbers -> [to : Seq(Sessions), back : Nat]]
    /\ SettlesOnce
    /\ \A n \in Open(app) : Unsettled(n)
    /\ \A n \in Numbers \ DOMAIN given : Unsettled(n)
    /\ DirectHome

RouteInv ==
    /\ given \in Seq(Projects \cup {Nothing}) /\ Len(given) <= CommandBound
    /\ executed \in Seq(DOMAIN given)
    /\ Sound(app, given) /\ app.sent = NothingSent
    /\ QueueOK
    /\ Line(host, executed)
    /\ FateOK

-----------------------------------------------------------------------------
(* What the steps of a handler keep *)

\* No prompt moves; one that was pending is pending, or dropped with its session.
Calm(a, b, g) ==
    /\ WellFormed(b, g)
    /\ b.held = a.held /\ b.parked = a.parked /\ b.sent = a.sent
    /\ \A s \in Sessions : b.turn[s].pending \in {a.turn[s].pending, Nothing}

\* Prompts move; those the application gets are of numbers N.
Follows(a, b, g, N) ==
    /\ Sound(b, g)
    /\ Open(b) \subseteq Open(a) \cup N
    /\ a.parked \subseteq b.parked

LEMMA CalmSelf ==
    ASSUME NEW g, NEW a, WellFormed(a, g) PROVE Calm(a, a, g)
    BY DEF Calm

LEMMA CalmTwice ==
    ASSUME NEW g, NEW a, NEW b, NEW c, Calm(a, b, g), Calm(b, c, g)
    PROVE  Calm(a, c, g)
    BY DEF Calm

LEMMA CalmFollows ==
    ASSUME NEW g, NEW a, NEW b, Sound(a, g), Calm(a, b, g)
    PROVE  Follows(a, b, g, {})
<1>1. \A n : HeldAt(b, n) <=> HeldAt(a, n)
    BY DEF Calm, HeldAt
<1>2. \A s \in Sessions : b.turn[s].pending # Nothing => b.turn[s].pending = a.turn[s].pending
    BY DEF Calm
<1>3. \A n : PendingAt(b, n) => PendingAt(a, n)
    BY <1>2 DEF PendingAt
<1>4. b.sent = a.sent /\ b.held = a.held /\ b.parked = a.parked
    BY DEF Calm
<1>5. Open(b) \subseteq Open(a)
    BY <1>1, <1>3, <1>4 DEF Open
<1>6. Once(b)
    BY <1>1, <1>2, <1>3, <1>4 DEF Once, Sound
<1>7. Aimed(b, g)
    BY <1>2, <1>4 DEF Aimed, Sound
<1>8. QED
    BY <1>4, <1>5, <1>6, <1>7 DEF Follows, Sound, Calm

LEMMA FollowsSelf ==
    ASSUME NEW g, NEW a, Sound(a, g), NEW N PROVE Follows(a, a, g, N)
    BY DEF Follows

LEMMA FollowsTwice ==
    ASSUME NEW g, NEW a, NEW b, NEW c, NEW M, NEW N,
           Follows(a, b, g, M), Follows(b, c, g, N)
    PROVE  Follows(a, c, g, M \cup N)
    BY DEF Follows

-----------------------------------------------------------------------------
(* The pool and the visible session *)

LEMMA DropCalm ==
    ASSUME NEW g, NEW a, WellFormed(a, g), NEW ss, RouteAssumption
    PROVE  Calm(a, Drop(a, ss), g)
<1> DEFINE b == Drop(a, ss)
<1>0. a \in Applications(g) /\ a.active \in a.live \cup {Nothing}
    BY DEF WellFormed
<1>1. /\ b.live = a.live \ ss /\ b.active = (IF a.active \in ss THEN Nothing ELSE a.active)
      /\ b.held = a.held /\ b.parked = a.parked /\ b.sent = a.sent
      /\ \A s \in Sessions : b.turn[s] = (IF s \in ss THEN NoTurn ELSE a.turn[s])
      /\ \A s \in Sessions : b.pi[s] = (IF s \in ss THEN Off ELSE a.pi[s])
    BY <1>0 DEF Drop, Applications
<1>2. NoTurn \in Turns(g) /\ Off \in Processes
    BY EmptySeq DEF NoTurn, Turns, Off, Processes, Runs
<1>3. b \in Applications(g)
    BY <1>0, <1>2 DEF Drop, Applications
<1>4. QED
    BY <1>0, <1>1, <1>3 DEF Calm, WellFormed, NoTurn

LEMMA ActivateCalm ==
    ASSUME NEW g, NEW a, WellFormed(a, g), NEW s \in Sessions, s \in a.live, RouteAssumption
    PROVE  Calm(a, Activate(a, s), g)
<1> DEFINE b == Activate(a, s)
<1>0. a \in Applications(g) /\ Home[s] \in Projects
    BY DEF WellFormed, RouteAssumption
<1>1. /\ b.live = a.live /\ b.active = s /\ b.turn = a.turn /\ b.pi = a.pi
      /\ b.held = a.held /\ b.parked = a.parked /\ b.sent = a.sent
    BY <1>0 DEF Activate, Applications
<1>2. b \in Applications(g)
    BY <1>0 DEF Activate, Applications, Statuses
<1>3. QED
    BY <1>0, <1>1, <1>2 DEF Calm, WellFormed

LEMMA LaunchedCalm ==
    ASSUME NEW g, NEW a, WellFormed(a, g), NEW s \in Sessions, RouteAssumption
    PROVE  Calm(a, Launched(a, s), g) /\ s \in Launched(a, s).live
<1> DEFINE b == Launched(a, s)
<1>0. a \in Applications(g) /\ a.active \in a.live \cup {Nothing}
    BY DEF WellFormed
<1>1. /\ b.live = a.live \cup {s} /\ b.active = a.active
      /\ b.held = a.held /\ b.parked = a.parked /\ b.sent = a.sent
      /\ \A x \in Sessions : b.turn[x] = (IF x = s THEN NoTurn ELSE a.turn[x])
      /\ \A x \in Sessions : b.pi[x] = (IF x = s THEN Booting ELSE a.pi[x])
    BY <1>0 DEF Launched, Applications
<1>2. NoTurn \in Turns(g) /\ Booting \in Processes
    BY EmptySeq DEF NoTurn, Turns, Booting, Off, Processes, Runs
<1>3. b \in Applications(g)
    BY <1>0, <1>2 DEF Launched, Applications
<1>4. QED
    BY <1>0, <1>1, <1>3 DEF Calm, WellFormed, NoTurn

\* What changes fields that hold no prompt is calm.
LEMMA ElsewhereCalm ==
    ASSUME NEW g, NEW a, WellFormed(a, g), NEW b \in Applications(g),
           b.live = a.live, b.active = a.active, b.turn = a.turn, b.pi = a.pi,
           b.held = a.held, b.parked = a.parked, b.sent = a.sent
    PROVE  Calm(a, b, g)
    BY DEF Calm, WellFormed

LEMMA UpsetCalm ==
    ASSUME NEW g, NEW a, WellFormed(a, g)
    PROVE  Calm(a, Upset(a), g)
<1> DEFINE b == Upset(a)
<1>1. a \in Applications(g)
    BY DEF WellFormed
<1>0. a.upsets + 1 \in Nat
    BY <1>1 DEF Applications
<1>2. b \in Applications(g)
    BY <1>0, <1>1 DEF Upset, Applications
<1>3. /\ b.live = a.live /\ b.active = a.active /\ b.turn = a.turn /\ b.pi = a.pi
      /\ b.held = a.held /\ b.parked = a.parked /\ b.sent = a.sent
    BY <1>1 DEF Upset, Applications
<1>4. QED
    BY <1>2, <1>3, ElsewhereCalm

LEMMA NotLaunchedCalm ==
    ASSUME NEW g, NEW a, WellFormed(a, g), NEW p, NEW b \in NotLaunched(a, p)
    PROVE  Calm(a, b, g)
<1> DEFINE c == Upset(a)
           told == IF a.active = Nothing THEN {"Starting", "Failed"} ELSE {a.status}
<1>1. Calm(a, c, g) /\ WellFormed(c, g) /\ c \in Applications(g)
    BY UpsetCalm DEF Calm, WellFormed
<1>2. told \subseteq Statuses
    BY DEF WellFormed, Applications, Statuses
<1>3. \/ b = c
      \/ \E t \in told : b = [c EXCEPT !.status = t]
      \/ \E t \in told : b = [c EXCEPT !.status = t, !.edited = @ \ {p}]
    BY DEF NotLaunched
<1> HIDE DEF c, told
<1>4. CASE b = c
    BY <1>1, <1>4
<1>5. ASSUME NEW t \in told, b = [c EXCEPT !.status = t] PROVE Calm(c, b, g)
    <2>1. b \in Applications(g)
        BY <1>1, <1>2, <1>5 DEF Applications
    <2>2. QED
        BY <1>1, <1>5, <2>1, ElsewhereCalm DEF Applications
<1>6. ASSUME NEW t \in told, b = [c EXCEPT !.status = t, !.edited = @ \ {p}]
      PROVE  Calm(c, b, g)
    <2>1. b \in Applications(g)
        BY <1>1, <1>2, <1>6 DEF Applications
    <2>2. QED
        BY <1>1, <1>6, <2>1, ElsewhereCalm DEF Applications
<1>7. QED
    BY <1>1, <1>3, <1>4, <1>5, <1>6, CalmTwice

\* A session is launched and shown.
LEMMA OpenedCalm ==
    ASSUME NEW g, NEW a, WellFormed(a, g), NEW s \in Sessions, RouteAssumption
    PROVE  Calm(a, Activate(Launched(a, s), s), g)
<1>1. Calm(a, Launched(a, s), g) /\ s \in Launched(a, s).live
    BY LaunchedCalm
<1>2. WellFormed(Launched(a, s), g)
    BY <1>1 DEF Calm
<1>3. Calm(Launched(a, s), Activate(Launched(a, s), s), g)
    BY <1>1, <1>2, ActivateCalm
<1>4. QED
    BY <1>1, <1>3, CalmTwice

LEMMA SwitchSessionCalm ==
    ASSUME NEW g, NEW a, WellFormed(a, g), NEW s \in Sessions, RouteAssumption,
           NEW b \in SwitchSession(a, s)
    PROVE  Calm(a, b, g)
<1>1. CASE s \in a.live
    BY <1>1, ActivateCalm DEF SwitchSession
<1>2. CASE s \notin a.live
    BY <1>2, NotLaunchedCalm, OpenedCalm DEF SwitchSession
<1>3. QED
    BY <1>1, <1>2

LEMMA SelectCalm ==
    ASSUME NEW g, NEW a, WellFormed(a, g), NEW p \in Projects
    PROVE  Calm(a, [a EXCEPT !.selected = p], g)
<1> DEFINE b == [a EXCEPT !.selected = p]
<1>1. a \in Applications(g)
    BY DEF WellFormed
<1>2. b \in Applications(g)
    BY <1>1 DEF Applications
<1>3. /\ b.live = a.live /\ b.active = a.active /\ b.turn = a.turn /\ b.pi = a.pi
      /\ b.held = a.held /\ b.parked = a.parked /\ b.sent = a.sent
    BY <1>1 DEF Applications
<1>4. QED
    BY <1>2, <1>3, ElsewhereCalm

LEMMA StartNewSessionCalm ==
    ASSUME NEW g, NEW a, WellFormed(a, g), NEW p \in Projects, RouteAssumption,
           NEW b \in StartNewSession(a, p)
    PROVE  Calm(a, b, g)
<1> DEFINE c == [a EXCEPT !.selected = p]
<1>1. Calm(a, c, g)
    BY SelectCalm
<1>2. WellFormed(c, g)
    BY <1>1 DEF Calm
<1>3. \/ b = c \/ b \in NotLaunched(c, p)
      \/ \E s \in Sessions : b = Activate(Launched(c, s), s)
    BY DEF StartNewSession
<1> HIDE DEF c
<1>4. Calm(c, b, g)
    BY <1>2, <1>3, CalmSelf, NotLaunchedCalm, OpenedCalm
<1>5. QED
    BY <1>1, <1>4, CalmTwice

LEMMA StartProjectCalm ==
    ASSUME NEW g, NEW a, WellFormed(a, g), NEW p \in Projects, RouteAssumption,
           NEW b \in StartProject(a, p)
    PROVE  Calm(a, b, g)
<1>1. \/ \E s \in Sessions : s \in a.live /\ b = Activate(a, s)
      \/ b \in StartNewSession(a, p)
      \/ \E s \in Sessions : b \in SwitchSession(a, s)
    BY DEF StartProject, WellFormed, Applications
<1>2. QED
    BY <1>1, ActivateCalm, StartNewSessionCalm, SwitchSessionCalm

\* The status alone changes.
LEMMA StatusCalm ==
    ASSUME NEW g, NEW a, WellFormed(a, g), NEW t \in Statuses
    PROVE  Calm(a, [a EXCEPT !.status = t], g)
<1> DEFINE b == [a EXCEPT !.status = t]
<1>1. a \in Applications(g)
    BY DEF WellFormed
<1>2. b \in Applications(g)
    BY <1>1 DEF Applications
<1>3. /\ b.live = a.live /\ b.active = a.active /\ b.turn = a.turn /\ b.pi = a.pi
      /\ b.held = a.held /\ b.parked = a.parked /\ b.sent = a.sent
    BY <1>1 DEF Applications
<1>4. QED
    BY <1>2, <1>3, ElsewhereCalm

\* Sessions are dropped, and the status follows.
LEMMA DroppedCalm ==
    ASSUME NEW g, NEW a, WellFormed(a, g), NEW ss, NEW t \in Statuses, RouteAssumption
    PROVE  Calm(a, [Drop(a, ss) EXCEPT !.status = t], g)
<1> DEFINE b == Drop(a, ss)
<1>1. Calm(a, b, g)
    BY DropCalm
<1>2. WellFormed(b, g)
    BY <1>1 DEF Calm
<1> HIDE DEF b
<1>3. Calm(b, [b EXCEPT !.status = t], g)
    BY <1>2, StatusCalm
<1>4. Calm(a, [b EXCEPT !.status = t], g)
    BY <1>1, <1>3, CalmTwice
<1>5. QED
    BY <1>4 DEF b

LEMMA StopProjectCalm ==
    ASSUME NEW g, NEW a, WellFormed(a, g), NEW p, RouteAssumption
    PROVE  Calm(a, StopProject(a, p), g)
<1> DEFINE theirs == {s \in a.live : Home[s] = p}
           t == IF a.active \in theirs THEN "Offline" ELSE a.status
<1>1. t \in Statuses /\ Drop(a, theirs).status = a.status
    BY DEF WellFormed, Applications, Statuses, Drop
<1>2. StopProject(a, p) = [Drop(a, theirs) EXCEPT !.status = t]
    BY <1>1 DEF StopProject
<1>3. QED
    BY <1>1, <1>2, DroppedCalm

LEMMA RestartSelectedProjectCalm ==
    ASSUME NEW g, NEW a, WellFormed(a, g), RouteAssumption, NEW b \in RestartSelectedProject(a)
    PROVE  Calm(a, b, g)
<1>1. CASE a.selected = Nothing
    BY <1>1, CalmSelf DEF RestartSelectedProject
<1>2. CASE a.selected # Nothing
    <2> DEFINE c == StopProject(a, a.selected)
    <2>1. a.selected \in Projects /\ b \in StartProject(c, a.selected)
        BY <1>2 DEF WellFormed, Applications, RestartSelectedProject
    <2>2. Calm(a, c, g)
        BY StopProjectCalm
    <2>3. WellFormed(c, g)
        BY <2>2 DEF Calm
    <2>4. Calm(c, b, g)
        BY <2>1, <2>3, StartProjectCalm
    <2>5. QED
        BY <2>2, <2>4, CalmTwice
<1>3. QED
    BY <1>1, <1>2

-----------------------------------------------------------------------------
(* Reloading the hooks *)

LEMMA ReloadsCalm ==
    ASSUME NEW g, NEW a, WellFormed(a, g), NEW ps \in SUBSET Projects
    PROVE  Calm(a, [a EXCEPT !.reloads = ps], g)
<1> DEFINE b == [a EXCEPT !.reloads = ps]
<1>1. a \in Applications(g)
    BY DEF WellFormed
<1>2. b \in Applications(g)
    BY <1>1 DEF Applications
<1>3. /\ b.live = a.live /\ b.active = a.active /\ b.turn = a.turn /\ b.pi = a.pi
      /\ b.held = a.held /\ b.parked = a.parked /\ b.sent = a.sent
    BY <1>1 DEF Applications
<1>4. QED
    BY <1>2, <1>3, ElsewhereCalm

LEMMA EditedCalm ==
    ASSUME NEW g, NEW a, WellFormed(a, g), NEW ps \in SUBSET Projects
    PROVE  Calm(a, [a EXCEPT !.edited = ps], g)
<1> DEFINE b == [a EXCEPT !.edited = ps]
<1>1. a \in Applications(g)
    BY DEF WellFormed
<1>2. b \in Applications(g)
    BY <1>1 DEF Applications
<1>3. /\ b.live = a.live /\ b.active = a.active /\ b.turn = a.turn /\ b.pi = a.pi
      /\ b.held = a.held /\ b.parked = a.parked /\ b.sent = a.sent
    BY <1>1 DEF Applications
<1>4. QED
    BY <1>2, <1>3, ElsewhereCalm

LEMMA RestartHooksIfSettledCalm ==
    ASSUME NEW g, NEW a, WellFormed(a, g), NEW p \in Projects, RouteAssumption,
           NEW b \in RestartHooksIfSettled(a, p)
    PROVE  Calm(a, b, g)
<1> DEFINE ps == a.reloads \ {p}
           c == [a EXCEPT !.reloads = ps]
           d == StopProject(c, p)
<1>1. ps \in SUBSET Projects
    BY DEF WellFormed, Applications
<1>2. b = a \/ b = d \/ b \in StartProject(d, p)
    BY DEF RestartHooksIfSettled
<1> HIDE DEF ps
<1>3. Calm(a, c, g)
    BY <1>1, ReloadsCalm
<1> HIDE DEF c
<1>4. Calm(c, d, g)
    BY <1>3, StopProjectCalm DEF Calm
<1> HIDE DEF d
<1>5. Calm(a, d, g) /\ WellFormed(d, g)
    BY <1>3, <1>4, CalmTwice DEF Calm
<1>6. b \in StartProject(d, p) => Calm(a, b, g)
    BY <1>5, StartProjectCalm, CalmTwice
<1>7. QED
    BY <1>2, <1>5, <1>6, CalmSelf

LEMMA RequestHookReloadCalm ==
    ASSUME NEW g, NEW a, WellFormed(a, g), NEW p \in Projects, RouteAssumption,
           NEW b \in RequestHookReload(a, p)
    PROVE  Calm(a, b, g)
<1> DEFINE ps == a.reloads \cup {p}
           c == [a EXCEPT !.reloads = ps]
<1>1. ps \in SUBSET Projects
    BY DEF WellFormed, Applications
<1>2. b \in RestartHooksIfSettled(c, p)
    BY DEF RequestHookReload
<1> HIDE DEF ps
<1>3. Calm(a, c, g)
    BY <1>1, ReloadsCalm
<1> HIDE DEF c
<1>4. WellFormed(c, g)
    BY <1>3 DEF Calm
<1>5. Calm(c, b, g)
    BY <1>2, <1>4, RestartHooksIfSettledCalm
<1>6. QED
    BY <1>3, <1>5, CalmTwice

-----------------------------------------------------------------------------
(* Sending a prompt *)

\* A command that is nowhere yet, and may go to a session of project p.
Fits(a, g, c, p) ==
    /\ c \in Commands(g)
    /\ c.number \notin Open(a)
    /\ c.number \in a.parked \/ c.project = p

LEMMA FitsCalm ==
    ASSUME NEW g, NEW a, Sound(a, g), NEW b, Calm(a, b, g), NEW c, NEW p, Fits(a, g, c, p)
    PROVE  Fits(b, g, c, p)
<1>1. Follows(a, b, g, {})
    BY CalmFollows
<1>2. QED
    BY <1>1 DEF Follows, Fits

LEMMA SendPromptFollows ==
    ASSUME NEW g, NEW a, Sound(a, g), NEW s \in Sessions, s \in a.live, NEW c,
           Fits(a, g, c, Home[s]), NEW b \in SendPrompt(a, s, c)
    PROVE  Follows(a, b, g, {c.number})
<1> DEFINE o == c.number
           d == [a EXCEPT !.turn[s].running = TRUE, !.pi[s].in = @ \cup {"prompt"},
                          !.status = IF a.active = s THEN "Streaming" ELSE @,
                          !.sent[c.number] = Append(@, s)]
<1>0. /\ a \in Applications(g) /\ c \in Commands(g) /\ o \in Numbers /\ o \in DOMAIN g
      /\ c.project = g[o]
    BY DEF Sound, WellFormed, Fits, Commands
<1>1. b = a \/ b = d
    BY DEF SendPrompt
<1>2. CASE b = a
    BY <1>2, FollowsSelf
<1>3. CASE b = d
    <2>1. /\ b.live = a.live /\ b.active = a.active /\ b.held = a.held /\ b.parked = a.parked
          /\ \A x \in Sessions : b.turn[x].pending = a.turn[x].pending
          /\ \A x \in Sessions : x # s => b.pi[x] = a.pi[x]
          /\ \A n \in Numbers : b.sent[n] = IF n = o THEN Append(a.sent[n], s) ELSE a.sent[n]
        BY <1>0, <1>3 DEF Applications, Turns
    <2>2. a.sent[o] = <<>> /\ ~HeldAt(a, o) /\ ~PendingAt(a, o)
        BY <1>0 DEF Fits, Open
    <2> DEFINE w == Append(<<>>, s)
    <2>3. /\ \A n \in Numbers : b.sent[n] = IF n = o THEN w ELSE a.sent[n]
          /\ w \in Seq(Sessions) /\ Len(w) = 1 /\ DOMAIN w = 1 .. 1 /\ w[1] = s
        <3>1. <<>> \in Seq(Sessions) /\ Len(<<>>) = 0
            BY EmptySeq
        <3>2. w \in Seq(Sessions) /\ Len(w) = 1 /\ w[1] = s
            BY <3>1, AppendProperties
        <3>3. QED
            BY <2>1, <2>2, <3>2, LenProperties
    <2> HIDE DEF w
    <2>4. b \in Applications(g)
        <3>0. a.turn[s] \in Turns(g) /\ a.pi[s] \in Processes
            BY <1>0 DEF Applications
        <3>1. [a.turn[s] EXCEPT !.running = TRUE] \in Turns(g)
            BY <3>0 DEF Turns
        <3>2. [a.pi[s] EXCEPT !.in = @ \cup {"prompt"}] \in Processes
            BY <3>0 DEF Processes
        <3>3. Append(a.sent[o], s) \in Seq(Sessions)
            BY <1>0 DEF Applications
        <3>4. "Streaming" \in Statuses
            BY DEF Statuses
        <3>5. QED
            BY <1>0, <1>3, <3>1, <3>2, <3>3, <3>4 DEF Applications
    <2>5. WellFormed(b, g)
        BY <2>1, <2>4 DEF Sound, WellFormed
    <2>6. \A n : (HeldAt(b, n) <=> HeldAt(a, n)) /\ (PendingAt(b, n) <=> PendingAt(a, n))
        BY <2>1 DEF HeldAt, PendingAt
    <2>7. Once(b)
        <3>1. Once(a)
            BY DEF Sound
        <3>2. ASSUME NEW n \in Numbers PROVE Len(b.sent[n]) <= 1
            <4>1. CASE n = o
                <5>1. b.sent[n] = w
                    BY <2>3, <4>1
                <5>2. Len(w) <= 1
                    BY <2>3
                <5>3. QED
                    BY <5>1, <5>2, Zenon
            <4>2. CASE n # o
                BY <2>3, <3>1, <4>2 DEF Once
            <4>3. QED
                BY <4>1, <4>2
        <3>3. QED
            BY <2>1, <2>2, <2>3, <2>6, <3>1, <3>2 DEF Once
    <2>8. Aimed(b, g)
        <3>1. Aimed(a, g)
            BY DEF Sound
        <3>2. o \in b.parked \/ Home[s] = g[o]
            BY <1>0, <2>1 DEF Fits
        <3>3. \A n \in Numbers : \A i \in DOMAIN b.sent[n] :
                 n \in DOMAIN g /\ (n \in b.parked \/ Home[b.sent[n][i]] = g[n])
            BY <1>0, <2>1, <2>3, <3>1, <3>2 DEF Aimed
        <3>4. QED
            BY <2>1, <3>1, <3>3 DEF Aimed
    <2>9. Open(b) \subseteq Open(a) \cup {o}
        BY <2>3, <2>6 DEF Open
    <2>10. QED
        BY <2>1, <2>5, <2>7, <2>8, <2>9 DEF Follows, Sound
<1>4. QED
    BY <1>1, <1>2, <1>3

LEMMA DeferForCompactionFollows ==
    ASSUME NEW g, NEW a, Sound(a, g), NEW s \in Sessions, s \in a.live, NEW c,
           Fits(a, g, c, Home[s]), NEW b \in DeferForCompaction(a, s, c)
    PROVE  Follows(a, b, g, {c.number})
<1> DEFINE o == c.number
           d == [a EXCEPT !.turn[s].pending = c, !.turn[s].running = TRUE,
                          !.pi[s].in = @ \cup {"compact"}, !.status = "Compacting"]
<1>0. a \in Applications(g) /\ c \in Commands(g) /\ o \in Numbers /\ o \in DOMAIN g
    BY DEF Sound, WellFormed, Fits, Commands
<1>1. b = a \/ b = d
    BY DEF DeferForCompaction
<1>2. CASE b = a
    BY <1>2, FollowsSelf
<1>3. CASE b = d
    <2>1. /\ b.live = a.live /\ b.active = a.active /\ b.held = a.held /\ b.parked = a.parked
          /\ b.sent = a.sent
          /\ \A x \in Sessions : b.turn[x].pending = IF x = s THEN c ELSE a.turn[x].pending
          /\ \A x \in Sessions : x # s => b.pi[x] = a.pi[x]
        BY <1>0, <1>3 DEF Applications, Turns
    <2>2. a.sent[o] = <<>> /\ ~HeldAt(a, o) /\ ~PendingAt(a, o)
        BY <1>0 DEF Fits, Open
    <2>4. b \in Applications(g)
        <3>0. a.turn[s] \in Turns(g) /\ a.pi[s] \in Processes
            BY <1>0 DEF Applications
        <3>1. [[a.turn[s] EXCEPT !.pending = c] EXCEPT !.running = TRUE] \in Turns(g)
            BY <1>0, <3>0 DEF Turns
        <3>2. [a.pi[s] EXCEPT !.in = @ \cup {"compact"}] \in Processes
            BY <3>0 DEF Processes
        <3>4. "Compacting" \in Statuses
            BY DEF Statuses
        <3>5. QED
            BY <1>0, <1>3, <3>1, <3>2, <3>4 DEF Applications
    <2>5. WellFormed(b, g)
        BY <2>1, <2>4 DEF Sound, WellFormed
    <2>6. \A n : HeldAt(b, n) <=> HeldAt(a, n)
        BY <2>1 DEF HeldAt
    <2>7. \A n : n # o /\ PendingAt(b, n) => PendingAt(a, n)
        BY <2>1 DEF PendingAt
    <2>8. Once(b)
        <3>1. Once(a)
            BY DEF Sound
        <3>2. \A x \in Sessions : a.turn[x].pending # Nothing => a.turn[x].pending.number # o
            BY <2>2 DEF PendingAt
        <3>3. \A x, t \in Sessions :
                 b.turn[x].pending # Nothing /\ b.turn[t].pending # Nothing
                 /\ b.turn[x].pending.number = b.turn[t].pending.number => x = t
            BY <2>1, <3>1, <3>2 DEF Once
        <3>4. QED
            BY <2>1, <2>2, <2>6, <2>7, <3>1, <3>3 DEF Once
    <2>9. Aimed(b, g)
        <3>1. Aimed(a, g)
            BY DEF Sound
        <3>2. o \in b.parked \/ Home[s] = c.project
            BY <1>0, <2>1 DEF Fits
        <3>3. QED
            BY <2>1, <3>1, <3>2 DEF Aimed
    <2>10. Open(b) \subseteq Open(a) \cup {o}
        BY <2>1, <2>6, <2>7 DEF Open
    <2>11. QED
        BY <2>1, <2>5, <2>8, <2>9, <2>10 DEF Follows, Sound
<1>4. QED
    BY <1>1, <1>2, <1>3

\* A prompt held for its project.
LEMMA HeldFollows ==
    ASSUME NEW g, NEW a, Sound(a, g), NEW p \in Projects, NEW c,
           Fits(a, g, c, p), NEW b,
           b = [a EXCEPT !.held[p] = Append(@, c), !.parked = @ \cup {c.number}]
    PROVE  Follows(a, b, g, {c.number})
<1> DEFINE o == c.number
           h == a.held[p]
<1>0. /\ a \in Applications(g) /\ c \in Commands(g) /\ o \in Numbers
      /\ \A q \in Projects : a.held[q] \in Seq(Commands(g))
    BY DEF Sound, WellFormed, Fits, Commands, Applications
<1>1. /\ b.live = a.live /\ b.active = a.active /\ b.turn = a.turn /\ b.pi = a.pi
      /\ b.sent = a.sent /\ b.parked = a.parked \cup {o}
      /\ \A q \in Projects : b.held[q] = IF q = p THEN Append(h, c) ELSE a.held[q]
    BY <1>0 DEF Applications
<1>2. a.sent[o] = <<>> /\ ~HeldAt(a, o) /\ ~PendingAt(a, o)
    BY <1>0 DEF Fits, Open
<1>3. PICK m \in Nat : m = Len(h)
    BY <1>0
<1>4. /\ DOMAIN h = 1 .. m /\ DOMAIN Append(h, c) = 1 .. m + 1
      /\ \A i \in 1 .. m : Append(h, c)[i] = h[i]
      /\ Append(h, c)[m + 1] = c
    BY <1>0, <1>3
<1>5. b \in Applications(g)
    <2>1. Append(h, c) \in Seq(Commands(g))
        BY <1>0
    <2>2. QED
        BY <1>0, <2>1 DEF Applications
<1>6. WellFormed(b, g)
    BY <1>1, <1>5 DEF Sound, WellFormed
<1>7. \A q \in Projects : \A i \in DOMAIN b.held[q] :
         \/ q = p /\ i = m + 1 /\ b.held[q][i] = c
         \/ i \in DOMAIN a.held[q] /\ b.held[q][i] = a.held[q][i]
    BY <1>1, <1>4
<1>8. \A n : n # o /\ HeldAt(b, n) => HeldAt(a, n)
    BY <1>7 DEF HeldAt
<1>9. \A n : PendingAt(b, n) <=> PendingAt(a, n)
    BY <1>1 DEF PendingAt
<1>10. Once(b)
    <2>1. Once(a)
        BY DEF Sound
    <2>2. \A q \in Projects : \A i \in DOMAIN a.held[q] : a.held[q][i].number # o
        BY <1>2 DEF HeldAt
    <2>3. \A q, r \in Projects : \A i \in DOMAIN b.held[q], j \in DOMAIN b.held[r] :
             b.held[q][i].number = b.held[r][j].number => q = r /\ i = j
        BY <1>7, <2>1, <2>2 DEF Once
    <2>4. QED
        BY <1>1, <1>2, <1>8, <1>9, <2>1, <2>3 DEF Once
<1>11. Aimed(b, g)
    <2>1. Aimed(a, g)
        BY DEF Sound
    <2>2. \A q \in Projects : \A i \in DOMAIN b.held[q] : b.held[q][i].number \in b.parked
        BY <1>1, <1>7, <2>1 DEF Aimed
    <2>3. QED
        BY <1>1, <2>1, <2>2 DEF Aimed
<1>12. Open(b) \subseteq Open(a) \cup {o}
    BY <1>1, <1>8, <1>9 DEF Open
<1>13. QED
    BY <1>1, <1>6, <1>10, <1>11, <1>12 DEF Follows, Sound

LEMMA ApplyModelCalm ==
    ASSUME NEW g, NEW a, WellFormed(a, g), NEW m \in BOOLEAN
    PROVE  Calm(a, [a EXCEPT !.model = m], g)
<1> DEFINE b == [a EXCEPT !.model = m]
<1>1. a \in Applications(g)
    BY DEF WellFormed
<1>2. b \in Applications(g)
    BY <1>1 DEF Applications
<1>3. /\ b.live = a.live /\ b.active = a.active /\ b.turn = a.turn /\ b.pi = a.pi
      /\ b.held = a.held /\ b.parked = a.parked /\ b.sent = a.sent
    BY <1>1 DEF Applications
<1>4. QED
    BY <1>2, <1>3, ElsewhereCalm

\* submit_prompt puts the prompt in one place more, or nowhere.
LEMMA SubmitPromptFollows ==
    ASSUME NEW g, NEW a, Sound(a, g), NEW c, Fits(a, g, c, a.selected),
           NEW b \in SubmitPrompt(a, c), RouteAssumption
    PROVE  Follows(a, b, g, {c.number})
<1> DEFINE p == a.selected
           s == a.active
           h == [a EXCEPT !.held[p] = Append(@, c), !.parked = @ \cup {c.number}]
           m == ApplyModel(a)
<1>1. CASE ~CanSubmit(a)
    BY <1>1, FollowsSelf DEF SubmitPrompt
<1>2. CASE CanSubmit(a) /\ p \in a.edited
    <2>1. b \in RequestHookReload(h, p) /\ p \in Projects
        BY <1>2 DEF SubmitPrompt, Sound, WellFormed, Applications
    <2>2. Follows(a, h, g, {c.number})
        BY <2>1, HeldFollows
    <2> HIDE DEF h
    <2>3. Sound(h, g) /\ WellFormed(h, g)
        BY <2>2 DEF Follows, Sound
    <2>4. Calm(h, b, g)
        BY <2>1, <2>3, RequestHookReloadCalm
    <2>5. Follows(h, b, g, {})
        BY <2>3, <2>4, CalmFollows
    <2>6. Follows(a, b, g, {c.number} \cup {})
        BY <2>2, <2>5, FollowsTwice
    <2>7. QED
        BY <2>6
<1>3. CASE CanSubmit(a) /\ p \notin a.edited
    <2>1. /\ s \in a.live /\ Home[s] = p /\ s \in Sessions
        BY <1>3 DEF CanSubmit, Sound, WellFormed, Applications
    <2>2. b \in SendPrompt(m, s, c) \/ b \in DeferForCompaction(a, s, c)
        BY <1>3 DEF SubmitPrompt
    <2>3. CASE b \in DeferForCompaction(a, s, c)
        BY <2>1, <2>3, DeferForCompactionFollows
    <2>4. CASE b \in SendPrompt(m, s, c)
        <3>1. Calm(a, m, g)
            BY ApplyModelCalm DEF ApplyModel, Sound
        <3>2. m.live = a.live
            BY DEF ApplyModel, Sound, WellFormed, Applications
        <3> HIDE DEF m
        <3>3. Follows(a, m, g, {})
            BY <3>1, CalmFollows
        <3>4. Fits(m, g, c, Home[s]) /\ Sound(m, g)
            BY <2>1, <3>1, <3>3, FitsCalm DEF Follows
        <3>5. Follows(m, b, g, {c.number})
            BY <2>1, <2>4, <3>2, <3>4, SendPromptFollows
        <3>6. Follows(a, b, g, {} \cup {c.number})
            BY <3>3, <3>5, FollowsTwice
        <3>7. QED
            BY <3>6
    <2>5. QED
        BY <2>2, <2>3, <2>4
<1>4. QED
    BY <1>1, <1>2, <1>3

-----------------------------------------------------------------------------
(* The prompts held for a project, sent one after the other *)

\* f holds what SubmitAll has after each prompt.
AfterBy(as, prompts, f) ==
    /\ f[0] = as
    /\ \A n \in 1 .. Len(prompts) :
          f[n] = UNION {SubmitPrompt(a, prompts[n]) : a \in f[n - 1]}

LEMMA SubmitAllDef ==
    ASSUME NEW T, NEW prompts \in Seq(T), NEW as
    PROVE  \E f : AfterBy(as, prompts, f) /\ SubmitAll(as, prompts) = f[Len(prompts)]
<1> DEFINE step(f, n) == IF n = 0 THEN as
                         ELSE UNION {SubmitPrompt(a, prompts[n]) : a \in f[n - 1]}
           r == CHOOSE f : f = [n \in 0 .. Len(prompts) |-> step(f, n)]
           partial(m, h) == h = [n \in 0 .. m |-> step(h, n)]
           D == {m \in Nat : m <= Len(prompts) => \E h : partial(m, h)}
<1>0. Len(prompts) \in Nat
    BY LenProperties
<1>1. SubmitAll(as, prompts) = r[Len(prompts)]
    BY Zenon DEF SubmitAll
<1>2. 0 \in D
    <2> DEFINE h == [n \in 0 .. 0 |-> as]
    <2>1. \A n \in 0 .. 0 : step(h, n) = as
        OBVIOUS
    <2>2. partial(0, h)
        BY <2>1
    <2>3. QED
        BY <2>2
<1>3. ASSUME NEW m \in Nat, m \in D PROVE m + 1 \in D
    <2>0. m + 1 \in Nat
        OBVIOUS
    <2>1. SUFFICES ASSUME m + 1 <= Len(prompts) PROVE \E h : partial(m + 1, h)
        BY <2>0, Zenon
    <2>2. PICK h : partial(m, h)
        <3>1. m <= Len(prompts)
            BY <1>0, <2>1
        <3>2. QED
            BY <1>3, <3>1, Zenon
    <2> DEFINE k == [n \in 0 .. (m + 1) |-> IF n = m + 1 THEN step(h, m + 1) ELSE h[n]]
    <2>3. \A n \in 0 .. (m + 1) : k[n] = step(k, n)
        <3>1. TAKE n \in 0 .. (m + 1)
        <3>2. n # 0 => n - 1 \in 0 .. m /\ k[n - 1] = h[n - 1]
            OBVIOUS
        <3>3. n # m + 1 => n \in 0 .. m /\ k[n] = h[n]
            OBVIOUS
        <3>4. n \in 0 .. m => h[n] = step(h, n)
            BY <2>2
        <3>5. step(k, n) = step(h, n)
            BY <3>2
        <3>6. k[m + 1] = step(h, m + 1)
            OBVIOUS
        <3> HIDE DEF k, step
        <3>7. QED
            BY <3>3, <3>4, <3>5, <3>6
    <2>4. partial(m + 1, k)
        <3>1. k = [n \in 0 .. (m + 1) |-> k[n]]
            OBVIOUS
        <3> HIDE DEF k, step
        <3>2. QED
            BY <2>3, <3>1
    <2>5. QED
        BY <2>4
<1>4. \E f : f = [n \in 0 .. Len(prompts) |-> step(f, n)]
    <2>1. \A n \in Nat : n \in D
        <3> HIDE DEF D
        <3>1. QED
            BY <1>2, <1>3, InductionOverSet
    <2>2. Len(prompts) \in D
        BY <1>0, <2>1
    <2>3. \E h : partial(Len(prompts), h)
        <3>1. Len(prompts) <= Len(prompts)
            BY <1>0
        <3>2. QED
            BY <2>2, <3>1, Zenon
    <2>4. QED
        BY <2>3, Zenon
<1>5. r = [n \in 0 .. Len(prompts) |-> step(r, n)]
    BY <1>4, Zenon
<1>6. AfterBy(as, prompts, r)
    <2> HIDE DEF r
    <2>1. \A n \in 0 .. Len(prompts) : r[n] = step(r, n)
        BY <1>5
    <2>2. 0 \in 0 .. Len(prompts) /\ \A n \in 1 .. Len(prompts) : n # 0 /\ n \in 0 .. Len(prompts)
        BY <1>0
    <2>3. r[0] = as
        BY <2>1, <2>2, Zenon
    <2>4. ASSUME NEW n \in 1 .. Len(prompts)
          PROVE  r[n] = UNION {SubmitPrompt(a, prompts[n]) : a \in r[n - 1]}
        <3>1. r[n] = step(r, n) /\ n # 0
            BY <2>1, <2>2, Zenon
        <3>2. QED
            BY <3>1, Zenon
    <2>5. QED
        BY <2>3, <2>4, Zenon DEF AfterBy
<1>7. QED
    BY <1>1, <1>6

\* The numbers of the first n prompts.
NumbersUpTo(prompts, n) == {prompts[i].number : i \in 1 .. n}

\* Prompts submitted one after the other are each in one place afterwards.
LEMMA SubmitAllFollows ==
    ASSUME NEW g, NEW a, Sound(a, g), NEW prompts \in Seq(Commands(g)),
           \A i, j \in 1 .. Len(prompts) : prompts[i].number = prompts[j].number => i = j,
           \A i \in 1 .. Len(prompts) :
              prompts[i].number \notin Open(a) /\ prompts[i].number \in a.parked,
           NEW b \in SubmitAll({a}, prompts), RouteAssumption
    PROVE  Follows(a, b, g, NumbersUpTo(prompts, Len(prompts)))
<1>1. PICK f : AfterBy({a}, prompts, f) /\ SubmitAll({a}, prompts) = f[Len(prompts)]
    BY SubmitAllDef
<1>2. PICK m \in Nat : m = Len(prompts)
    BY LenProperties
<1> DEFINE D == {n \in Nat : n <= m =>
                    \A c \in f[n] : Follows(a, c, g, NumbersUpTo(prompts, n))}
<1>3. 0 \in D
    <2>1. f[0] = {a}
        BY <1>1 DEF AfterBy
    <2>2. QED
        BY <2>1, FollowsSelf
<1>4. ASSUME NEW n \in Nat, n \in D PROVE n + 1 \in D
    <2>1. SUFFICES ASSUME n + 1 <= m, NEW d \in f[n + 1]
                   PROVE  Follows(a, d, g, NumbersUpTo(prompts, n + 1))
        OBVIOUS
    <2>2. n + 1 \in 1 .. Len(prompts) /\ (n + 1) - 1 = n /\ n <= m
        BY <1>2, <2>1
    <2>3. f[n + 1] = UNION {SubmitPrompt(x, prompts[n + 1]) : x \in f[n]}
        BY <1>1, <2>2 DEF AfterBy
    <2>4. PICK c \in f[n] : d \in SubmitPrompt(c, prompts[n + 1])
        BY <2>3
    <2>5. Follows(a, c, g, NumbersUpTo(prompts, n))
        BY <1>4, <2>2
    <2> DEFINE o == prompts[n + 1]
    <2>6. o \in Commands(g) /\ o.number \notin Open(a) /\ o.number \in a.parked
        BY <2>2
    <2>7. o.number \notin NumbersUpTo(prompts, n)
        BY <1>2, <2>2 DEF NumbersUpTo
    <2>8. Fits(c, g, o, c.selected)
        BY <2>5, <2>6, <2>7 DEF Follows, Fits
    <2>9. Follows(c, d, g, {o.number})
        BY <2>4, <2>5, <2>8, SubmitPromptFollows DEF Follows
    <2>10. NumbersUpTo(prompts, n) \cup {o.number} \subseteq NumbersUpTo(prompts, n + 1)
        <3>1. 1 .. n \subseteq 1 .. n + 1 /\ n + 1 \in 1 .. n + 1
            BY <2>2
        <3>2. QED
            BY <3>1 DEF NumbersUpTo
    <2>11. Follows(a, d, g, NumbersUpTo(prompts, n) \cup {o.number})
        BY <2>5, <2>9, FollowsTwice
    <2>12. QED
        BY <2>10, <2>11 DEF Follows
<1>5. \A n \in Nat : n \in D
    <2> HIDE DEF D
    <2>1. QED
        BY <1>3, <1>4, InductionOverSet
<1>6. QED
    BY <1>1, <1>2, <1>5

\* What was held for the project leaves the table before it is sent.
LEMMA FlushPendingHookInputsFollows ==
    ASSUME NEW g, NEW a, Sound(a, g), NEW s \in Sessions, RouteAssumption,
           NEW b \in FlushPendingHookInputs(a, s)
    PROVE  Follows(a, b, g, {})
<1> DEFINE p == Home[s]
           h == a.held[p]
           c == [a EXCEPT !.held[p] = <<>>]
<1>0. p \in Projects /\ a \in Applications(g) /\ h \in Seq(Commands(g))
    BY DEF RouteAssumption, Sound, WellFormed, Applications
<1>1. b = a \/ b \in SubmitAll({c}, h)
    BY DEF FlushPendingHookInputs
<1>2. CASE b = a
    BY <1>2, FollowsSelf
<1>3. CASE b \in SubmitAll({c}, h)
    <2>1. /\ c.live = a.live /\ c.active = a.active /\ c.turn = a.turn /\ c.pi = a.pi
          /\ c.sent = a.sent /\ c.parked = a.parked
          /\ \A q \in Projects : c.held[q] = IF q = p THEN <<>> ELSE a.held[q]
          /\ DOMAIN <<>> = {} /\ DOMAIN h = 1 .. Len(h)
        BY <1>0, EmptySeq, LenProperties DEF Applications
    <2>2. c \in Applications(g)
        BY <1>0, EmptySeq DEF Applications
    <2> HIDE DEF c
    <2>3. WellFormed(c, g)
        BY <2>1, <2>2 DEF Sound, WellFormed
    <2>4. \A q \in Projects : \A i \in DOMAIN c.held[q] :
             q # p /\ i \in DOMAIN a.held[q] /\ c.held[q][i] = a.held[q][i]
        BY <2>1
    <2>5. \A n : HeldAt(c, n) => HeldAt(a, n)
        BY <2>4 DEF HeldAt
    <2>6. \A n : PendingAt(c, n) <=> PendingAt(a, n)
        BY <2>1 DEF PendingAt
    <2>7. Once(a) /\ Aimed(a, g)
        BY DEF Sound
    <2>8. Once(c)
        <3>1. \A q, r \in Projects : \A i \in DOMAIN c.held[q], j \in DOMAIN c.held[r] :
                 c.held[q][i].number = c.held[r][j].number => q = r /\ i = j
            BY <2>4, <2>7 DEF Once
        <3>2. QED
            BY <2>1, <2>5, <2>6, <2>7, <3>1 DEF Once
    <2>9. Aimed(c, g)
        <3>1. \A q \in Projects : \A i \in DOMAIN c.held[q] : c.held[q][i].number \in c.parked
            BY <2>1, <2>4, <2>7 DEF Aimed
        <3>2. QED
            BY <2>1, <2>7, <3>1 DEF Aimed
    <2>10. Open(c) \subseteq Open(a)
        BY <2>1, <2>5, <2>6 DEF Open
    <2>11. Sound(c, g)
        BY <2>3, <2>8, <2>9 DEF Sound
    <2>12. \A i, j \in 1 .. Len(h) : h[i].number = h[j].number => i = j
        BY <1>0, <2>1, <2>7 DEF Once
    <2>13. ASSUME NEW i \in 1 .. Len(h)
           PROVE  /\ h[i].number \notin Open(c) /\ h[i].number \in c.parked
                  /\ h[i].number \in Open(a)
        <3>1. i \in DOMAIN a.held[p] /\ h[i] \in Commands(g)
            BY <1>0, <2>1
        <3>2. HeldAt(a, h[i].number) /\ h[i].number \in Numbers
            BY <1>0, <3>1 DEF HeldAt, Commands
        <3>3. a.sent[h[i].number] = <<>> /\ ~PendingAt(a, h[i].number)
            BY <2>7, <3>2 DEF Once
        <3>4. ~HeldAt(c, h[i].number)
            BY <1>0, <2>4, <2>7, <3>1 DEF Once, HeldAt
        <3>5. h[i].number \in c.parked
            BY <1>0, <2>1, <2>7, <3>1 DEF Aimed
        <3>6. QED
            BY <2>1, <2>6, <3>2, <3>3, <3>4, <3>5 DEF Open
    <2>14. Follows(c, b, g, NumbersUpTo(h, Len(h)))
        BY <1>0, <1>3, <2>11, <2>12, <2>13, SubmitAllFollows
    <2>15. NumbersUpTo(h, Len(h)) \subseteq Open(a)
        BY <2>13 DEF NumbersUpTo
    <2>16. QED
        BY <2>1, <2>10, <2>14, <2>15 DEF Follows
<1>4. QED
    BY <1>1, <1>2, <1>3

-----------------------------------------------------------------------------
(* The outcome of a handler becomes the state *)

LEMMA ResetSound ==
    ASSUME NEW g, NEW a, Sound(a, g), NEW b, b = [a EXCEPT !.sent = NothingSent]
    PROVE  /\ Sound(b, g) /\ b.sent = NothingSent /\ b.parked = a.parked
           /\ \A n \in Open(b) : n \in Open(a) /\ a.sent[n] = <<>>
<1>0. a \in Applications(g) /\ Once(a) /\ Aimed(a, g)
    BY DEF Sound, WellFormed
<1>1. /\ b.live = a.live /\ b.active = a.active /\ b.held = a.held /\ b.parked = a.parked
      /\ b.turn = a.turn /\ b.pi = a.pi /\ b.sent = NothingSent
    BY <1>0 DEF Applications
<1>2. \A n \in Numbers : b.sent[n] = <<>> /\ Len(b.sent[n]) = 0 /\ DOMAIN b.sent[n] = {}
    BY <1>1, EmptySeq DEF NothingSent
<1>3. b \in Applications(g)
    <2>1. NothingSent \in [Numbers -> Seq(Sessions)]
        BY EmptySeq DEF NothingSent
    <2>2. QED
        BY <1>0, <2>1 DEF Applications
<1>4. \A n : (HeldAt(b, n) <=> HeldAt(a, n)) /\ (PendingAt(b, n) <=> PendingAt(a, n))
    BY <1>1 DEF HeldAt, PendingAt
<1>5. Once(b)
    BY <1>0, <1>1, <1>2, <1>4 DEF Once
<1>6. Aimed(b, g)
    BY <1>0, <1>1, <1>2 DEF Aimed
<1>7. WellFormed(b, g)
    BY <1>1, <1>3 DEF Sound, WellFormed
<1>8. \A n \in Open(b) : n \in Open(a) /\ a.sent[n] = <<>>
    BY <1>0, <1>2, <1>4 DEF Open, Once
<1>9. QED
    BY <1>1, <1>5, <1>6, <1>7, <1>8 DEF Sound

\* More may have been given.
GrowsTo(g) ==
    /\ given' = g /\ DOMAIN g \subseteq Numbers
    /\ DOMAIN given \subseteq DOMAIN g /\ \A n \in DOMAIN given : g[n] = given[n]

\* Numbers N may enter the application, numbers of back return to the composer.
Admits(g, N, back) ==
    /\ N \subseteq DOMAIN g /\ back \subseteq DOMAIN g
    /\ \A n \in N \cup back : Unsettled(n)
    /\ \A n \in back : n \notin Open(app) \cup N

\* The step has dealt with them, and with no other.
DealtWith(g, N, back) ==
    /\ Sound(app', g) /\ app'.sent = NothingSent /\ FateOK'
    /\ Open(app') \subseteq Open(app) \cup N
    /\ \A n \in Numbers \ (Open(app) \cup N \cup back) : fate'[n] = fate[n]

\* A handler that has admitted prompts of numbers N and answered those of back, none of
\* them seen by the application before, settles what it sent or answered and nothing else.
LEMMA BecomesKeeps ==
    ASSUME RouteAssumption, FateOK, NEW g, GrowsTo(g), NEW N, NEW back, Admits(g, N, back),
           NEW outcomes, \A a \in outcomes : Follows(app, a, g, N),
           Becomes(outcomes, back)
    PROVE  DealtWith(g, N, back)
<1>0. /\ DOMAIN given \subseteq DOMAIN g /\ \A n \in DOMAIN given : g[n] = given[n]
      /\ given' = g /\ DOMAIN g \subseteq Numbers
      /\ N \subseteq DOMAIN g /\ back \subseteq DOMAIN g
      /\ \A n \in N \cup back : Unsettled(n)
      /\ \A n \in back : n \notin Open(app) \cup N
    BY DEF GrowsTo, Admits
<1>1. PICK a \in outcomes :
        /\ app' = [a EXCEPT !.sent = NothingSent]
        /\ fate' = [n \in Numbers |->
              [to |-> fate[n].to \o a.sent[n],
               back |-> fate[n].back + IF n \in back THEN 1 ELSE 0]]
    BY DEF Becomes
<1>2. /\ Sound(a, g) /\ Open(a) \subseteq Open(app) \cup N /\ app.parked \subseteq a.parked
    BY DEF Follows
<1>3. /\ Sound(app', g) /\ app'.sent = NothingSent /\ app'.parked = a.parked
      /\ \A n \in Open(app') : n \in Open(a) /\ a.sent[n] = <<>>
    BY <1>1, <1>2, ResetSound
<1>4. /\ a.sent \in [Numbers -> Seq(Sessions)] /\ Once(a) /\ Aimed(a, g)
    BY <1>2 DEF Sound, WellFormed, Applications
<1>5. ASSUME NEW n \in Numbers
      PROVE  /\ fate[n] \in [to : Seq(Sessions), back : Nat]
             /\ a.sent[n] \in Seq(Sessions) /\ Len(a.sent[n]) <= 1
             /\ fate'[n].to = fate[n].to \o a.sent[n]
             /\ n \in back => fate'[n].back = fate[n].back + 1
             /\ n \notin back => fate'[n].back = fate[n].back
             /\ fate'[n] \in [to : Seq(Sessions), back : Nat]
    <2>1. fate[n] \in [to : Seq(Sessions), back : Nat] /\ a.sent[n] \in Seq(Sessions)
        BY <1>4 DEF FateOK
    <2>2. fate[n].to \in Seq(Sessions) /\ fate[n].back \in Nat
        BY <2>1
    <2>3. fate[n].to \o a.sent[n] \in Seq(Sessions)
        BY <2>1, <2>2, ConcatProperties
    <2>0. PICK k \in Nat : k = IF n \in back THEN 1 ELSE 0
        OBVIOUS
    <2>5. PICK m \in Nat : m = fate[n].back + k
        BY <2>0, <2>2
    <2>4. fate'[n] = [to |-> fate[n].to \o a.sent[n], back |-> m]
        BY <1>1, <2>0, <2>5, Zenon
    <2>6. Len(a.sent[n]) <= 1
        BY <1>4 DEF Once
    <2>7. fate'[n] \in [to : Seq(Sessions), back : Nat]
        BY <2>3, <2>4, <2>5
    <2>8. fate'[n].to = fate[n].to \o a.sent[n] /\ fate'[n].back = m
        <3>1. PICK x \in Seq(Sessions) : x = fate[n].to \o a.sent[n]
            BY <2>3
        <3>2. fate'[n] = [to |-> x, back |-> m]
            BY <2>4, <3>1, Zenon
        <3>3. fate'[n].to = x /\ fate'[n].back = m
            BY <3>2
        <3>4. QED
            BY <3>1, <3>3, Zenon
    <2>9. /\ n \in back => fate'[n].back = fate[n].back + 1
          /\ n \notin back => fate'[n].back = fate[n].back
        BY <2>0, <2>2, <2>5, <2>8
    <2>10. QED
        BY <2>1, <2>6, <2>7, <2>8, <2>9
\* A number that enters, or is in the application, is sent now or not yet.
<1>6. ASSUME NEW n \in Numbers, n \in Open(app) \cup N
      PROVE  fate'[n].to = a.sent[n] /\ fate'[n].back = 0
    <2>1. Unsettled(n) /\ n \notin back
        BY <1>0, <1>6 DEF FateOK
    <2>2. <<>> \o a.sent[n] = a.sent[n]
        BY <1>5, ConcatEmptySeq
    <2>3. QED
        BY <1>5, <2>1, <2>2 DEF Unsettled
<1>7. ASSUME NEW n \in Numbers, n \notin Open(app) \cup N
      PROVE  fate'[n].to = fate[n].to
    <2>1. a.sent[n] = <<>>
        BY <1>2, <1>7 DEF Open
    <2>2. fate[n].to \o <<>> = fate[n].to
        BY <1>5, ConcatEmptySeq
    <2>3. QED
        BY <1>5, <2>1, <2>2
<1>8. \A n \in Numbers \ (Open(app) \cup N \cup back) : fate'[n] = fate[n]
    <2>1. TAKE n \in Numbers \ (Open(app) \cup N \cup back)
    <2>2. fate'[n].to = fate[n].to
        BY <1>7
    <2>3. fate'[n].back = fate[n].back
        BY <1>5
    <2>4. /\ fate[n] \in [to : Seq(Sessions), back : Nat]
          /\ fate'[n] \in [to : Seq(Sessions), back : Nat]
        BY <1>5
    <2>5. QED
        BY <2>2, <2>3, <2>4
<1>9. Open(app') \subseteq Open(app) \cup N
    BY <1>2, <1>3
<1>10. FateOK'
    <2>1. fate' \in [Numbers -> [to : Seq(Sessions), back : Nat]]
        <3>1. fate' = [n \in Numbers |-> fate'[n]]
            BY <1>1
        <3>2. QED
            BY <1>5, <3>1
    <2>2. SettlesOnce'
        <3>1. SUFFICES ASSUME NEW n \in Numbers PROVE Len(fate'[n].to) + fate'[n].back <= 1
            BY DEF SettlesOnce
        <3>2. CASE n \in Open(app) \cup N
            <4>1. Len(a.sent[n]) <= 1 /\ Len(a.sent[n]) \in Nat
                BY <1>5, LenProperties
            <4>2. QED
                BY <1>6, <3>2, <4>1
        <3>3. CASE n \notin Open(app) \cup N /\ n \in back
            <4>1. fate[n].to = <<>> /\ fate[n].back = 0
                BY <1>0, <3>3 DEF Unsettled
            <4>0. fate'[n].to = fate[n].to /\ fate'[n].back = fate[n].back + 1
                BY <1>5, <1>7, <3>3
            <4>2. fate'[n].to = <<>> /\ fate'[n].back = 1
                BY <4>0, <4>1
            <4>3. QED
                BY <4>2, EmptySeq
        <3>4. CASE n \notin Open(app) \cup N /\ n \notin back
            BY <1>8, <3>4 DEF FateOK, SettlesOnce
        <3>5. QED
            BY <3>2, <3>3, <3>4
    <2>3. \A n \in Open(app') : Unsettled(n)'
        <3>1. SUFFICES ASSUME NEW n \in Open(app') PROVE fate'[n].to = <<>> /\ fate'[n].back = 0
            BY DEF Unsettled
        <3>2. n \in Numbers /\ n \in Open(app) \cup N /\ a.sent[n] = <<>>
            BY <1>3, <1>9 DEF Open
        <3>3. QED
            BY <1>6, <3>2
    <2>4. \A n \in Numbers \ DOMAIN g : Unsettled(n)'
        <3>1. SUFFICES ASSUME NEW n \in Numbers, n \notin DOMAIN g
                       PROVE fate'[n].to = <<>> /\ fate'[n].back = 0
            BY DEF Unsettled
        <3>2. n \notin N /\ n \notin back /\ Unsettled(n)
            BY <1>0, <3>1 DEF FateOK
        <3>3. CASE n \in Open(app)
            <4>1. a.sent[n] = <<>>
                <5>1. DOMAIN a.sent[n] = {}
                    BY <1>4, <3>1 DEF Aimed
                <5>2. a.sent[n] \in Seq(Sessions)
                    BY <1>5
                <5>3. Len(a.sent[n]) \in Nat /\ DOMAIN a.sent[n] = 1 .. Len(a.sent[n])
                    BY <5>2, LenProperties
                <5>4. Len(a.sent[n]) = 0
                    <6>1. PICK k \in Nat : k = Len(a.sent[n]) /\ 1 .. k = {}
                        BY <5>1, <5>3
                    <6>2. k = 0
                        <7>1. k # 0 => 1 \in 1 .. k
                            OBVIOUS
                        <7>2. QED
                            BY <6>1, <7>1
                    <6>3. QED
                        BY <6>1, <6>2
                <5>5. QED
                    BY <5>2, <5>4, EmptySeq
            <4>2. QED
                BY <1>6, <3>3, <4>1
        <3>4. CASE n \notin Open(app)
            BY <1>8, <3>2, <3>4 DEF Unsettled
        <3>5. QED
            BY <3>3, <3>4
    <2>5. DirectHome'
        <3>1. SUFFICES ASSUME NEW n \in Numbers, n \notin app'.parked,
                              NEW i \in DOMAIN fate'[n].to
                       PROVE  Home[fate'[n].to[i]] = g[n]
            BY <1>0 DEF DirectHome
        <3>2. CASE n \in Open(app) \cup N
            <4>1. fate'[n].to = a.sent[n]
                BY <1>6, <3>2
            <4>2. n \in DOMAIN g /\ (n \in a.parked \/ Home[a.sent[n][i]] = g[n])
                BY <1>4, <3>1, <4>1 DEF Aimed
            <4>3. QED
                BY <1>3, <3>1, <4>1, <4>2
        <3>3. CASE n \notin Open(app) \cup N
            <4>1. fate'[n].to = fate[n].to /\ n \notin app.parked
                BY <1>2, <1>3, <1>7, <3>1, <3>3
            <4>2. Home[fate'[n].to[i]] = given[n]
                BY <3>1, <4>1 DEF FateOK, DirectHome
            <4>3. n \in DOMAIN given
                <5>1. SUFFICES ASSUME n \notin DOMAIN given PROVE FALSE
                    OBVIOUS
                <5>2. fate[n].to = <<>>
                    BY <5>1 DEF FateOK, Unsettled
                <5>3. DOMAIN <<>> = {}
                    OBVIOUS
                <5>4. QED
                    BY <3>1, <4>1, <5>2, <5>3
            <4>4. QED
                BY <1>0, <4>2, <4>3
        <3>4. QED
            BY <3>2, <3>3
    <2>6. QED
        BY <1>0, <2>1, <2>2, <2>3, <2>4, <2>5 DEF FateOK
<1>11. QED
    BY <1>3, <1>8, <1>9, <1>10 DEF DealtWith

-----------------------------------------------------------------------------
(* The queue of the controlled commands *)

Queues(T) == [waiting : Seq(T), inControl : SUBSET T]

LEMMA BeginNextKeeps ==
    ASSUME NEW g \in Seq(Projects \cup {Nothing}), NEW h \in Queues(Commands(g)), NEW ex,
           Line(h, ex), \A c, d \in h.inControl : c = d
    PROVE  /\ BeginNext(h) \in Queues(Commands(g))
           /\ Line(BeginNext(h), ex)
           /\ Numbered(BeginNext(h)) \subseteq Numbered(h)
           /\ \A c, d \in BeginNext(h).inControl : c = d
<1> DEFINE w == h.waiting
           b == BeginNext(h)
<1>1. CASE h.inControl # {} \/ w = <<>>
    BY <1>1 DEF BeginNext
<1>2. CASE h.inControl = {} /\ w # <<>>
    <2>1. w \in Seq(Commands(g))
        BY DEF Queues
    <2>2. PICK m \in Nat : m = Len(w) /\ m # 0
        BY <1>2, <2>1, EmptySeq, LenProperties
    <2>3. /\ Tail(w) \in Seq(Commands(g)) /\ Head(w) = w[1] /\ w[1] \in Commands(g)
          /\ DOMAIN w = 1 .. m /\ DOMAIN Tail(w) = 1 .. m - 1
          /\ \A i \in 1 .. m - 1 : Tail(w)[i] = w[i + 1]
        BY <1>2, <2>1, <2>2, HeadTailProperties, LenProperties
    <2>4. b = [waiting |-> Tail(w), inControl |-> {w[1]}]
        BY <1>2, <2>3 DEF BeginNext
    <2>5. b.waiting = Tail(w) /\ b.inControl = {w[1]}
        BY <2>4
    <2>6. b \in Queues(Commands(g))
        BY <2>3, <2>4 DEF Queues
    <2>7. \A i \in 1 .. m - 1 : i + 1 \in 1 .. m /\ 1 < i + 1 /\ i \in Nat
        BY <2>2
    <2>8. 1 \in 1 .. m
        BY <2>2
    <2>9. Line(b, ex)
        <3>1. \A i, j \in 1 .. m - 1 : i < j => Tail(w)[i].number < Tail(w)[j].number
            <4>1. TAKE i, j \in 1 .. m - 1
            <4>2. i < j => i + 1 < j + 1
                OBVIOUS
            <4>3. QED
                BY <2>3, <2>7, <4>2 DEF Line
        <3>2. \A j \in 1 .. m - 1 : w[1].number < Tail(w)[j].number
            BY <2>3, <2>7, <2>8 DEF Line
        <3>3. QED
            BY <2>3, <2>5, <2>7, <2>8, <3>1, <3>2 DEF Line
    <2>10. Numbered(b) \subseteq Numbered(h)
        BY <2>3, <2>5, <2>7, <2>8 DEF Numbered
    <2>11. QED
        BY <2>5, <2>6, <2>9, <2>10
<1>3. QED
    BY <1>1, <1>2

-----------------------------------------------------------------------------
(* Another command is given *)

LEMMA MoreGiven ==
    ASSUME NEW f, NEW g, DOMAIN f \subseteq DOMAIN g, \A n \in DOMAIN f : g[n] = f[n]
    PROVE  /\ Commands(f) \subseteq Commands(g)
           /\ \A a : Sound(a, f) => Sound(a, g)
<1>1. Commands(f) \subseteq Commands(g)
    BY DEF Commands
<1>2. Turns(f) \subseteq Turns(g)
    BY <1>1 DEF Turns
<1>3. Seq(Commands(f)) \subseteq Seq(Commands(g))
    BY <1>1, SeqMonotonic
<1>4. Applications(f) \subseteq Applications(g)
    BY <1>2, <1>3 DEF Applications
<1>5. ASSUME NEW a, Sound(a, f) PROVE Sound(a, g)
    <2>1. WellFormed(a, g)
        BY <1>4, <1>5 DEF Sound, WellFormed
    <2>2. Aimed(a, g)
        BY <1>5 DEF Sound, Aimed
    <2>3. QED
        BY <1>5, <2>1, <2>2 DEF Sound
<1>6. QED
    BY <1>1, <1>5

\* What the application has was given.
LEMMA OpenWasGiven ==
    ASSUME Sound(app, given), app.sent = NothingSent, NEW n \in Open(app)
    PROVE  n \in DOMAIN given
<1>1. app \in Applications(given)
    BY DEF Sound, WellFormed
<1>2. HeldAt(app, n) => n \in DOMAIN given
    <2>1. SUFFICES ASSUME NEW p \in Projects, NEW i \in DOMAIN app.held[p],
                          app.held[p][i].number = n
                   PROVE  n \in DOMAIN given
        BY DEF HeldAt
    <2>2. app.held[p] \in Seq(Commands(given))
        BY <1>1 DEF Applications
    <2>3. app.held[p][i] \in Commands(given)
        BY <2>2, LenProperties
    <2>4. QED
        BY <2>1, <2>3 DEF Commands
<1>3. PendingAt(app, n) => n \in DOMAIN given
    <2>1. SUFFICES ASSUME NEW s \in Sessions, app.turn[s].pending # Nothing,
                          app.turn[s].pending.number = n
                   PROVE  n \in DOMAIN given
        BY DEF PendingAt
    <2>2. app.turn[s] \in Turns(given)
        BY <1>1 DEF Applications
    <2>3. app.turn[s].pending \in Commands(given)
        BY <2>1, <2>2 DEF Turns
    <2>4. QED
        BY <2>1, <2>3 DEF Commands
<1>4. n \in Numbers /\ app.sent[n] = <<>>
    BY DEF Open, NothingSent
<1>5. QED
    BY <1>2, <1>3, <1>4 DEF Open

\* execute_envelope: the command goes to one place, or comes back.
LEMMA ExecuteKeeps ==
    ASSUME RouteAssumption, FateOK, NEW g, GrowsTo(g),
           Sound(app, g), NEW c \in Commands(g), c.number \notin Open(app), Unsettled(c.number),
           Execute(c)
    PROVE  DealtWith(g, {c.number}, {})
<1> DEFINE o == c.number
<1>0. o \in DOMAIN g /\ c.kind \in Prompts \cup {"model", "settings"} /\ WellFormed(app, g)
    BY DEF Commands, Sound
<1>1. CASE c.kind \in Prompts /\ ~RouteIsCurrent(app, c.project)
    <2>1. Becomes({app}, {o})
        BY <1>1 DEF Execute
    <2>2. \A a \in {app} : Follows(app, a, g, {})
        BY FollowsSelf
    <2>3. Admits(g, {}, {o})
        BY <1>0 DEF Admits
    <2>4. DealtWith(g, {}, {o})
        BY <2>1, <2>2, <2>3, BecomesKeeps
    <2>5. QED
        BY <2>4 DEF DealtWith
<1>2. CASE ~(c.kind \in Prompts /\ ~RouteIsCurrent(app, c.project))
    <2>1. Becomes(Handle(c), {})
        BY <1>2 DEF Execute
    <2>2. ASSUME NEW a \in Handle(c) PROVE Follows(app, a, g, {o})
        <3>1. CASE c.kind \in Prompts
            <4>0. c.project = app.selected
                BY <1>2, <3>1 DEF RouteIsCurrent
            <4>1. a \in SubmitPrompt(app, c)
                <5>1. c.kind # "model" /\ c.kind # "settings"
                    BY <3>1 DEF Prompts
                <5>2. Handle(c) = SubmitPrompt(app, c)
                    BY <3>1, <5>1 DEF Handle
                <5>3. QED
                    BY <2>2, <5>2
            <4>2. Fits(app, g, c, app.selected)
                BY <4>0 DEF Fits
            <4>3. QED
                BY <4>1, <4>2, SubmitPromptFollows
        <3>2. CASE c.kind = "model"
            <4>1. a = [app EXCEPT !.model = TRUE]
                BY <2>2, <3>2 DEF Handle, Prompts
            <4>2. Calm(app, a, g)
                BY <1>0, <4>1, ApplyModelCalm
            <4>3. QED
                BY <4>2, CalmFollows DEF Follows
        <3>3. CASE c.kind = "settings"
            <4>1. a \in RestartSelectedProject(app)
                BY <2>2, <3>3 DEF Handle, Prompts
            <4>2. Calm(app, a, g)
                BY <1>0, <4>1, RestartSelectedProjectCalm
            <4>3. QED
                BY <4>2, CalmFollows DEF Follows
        <3>4. QED
            BY <1>0, <3>1, <3>2, <3>3
    <2>3. Admits(g, {o}, {})
        BY <1>0 DEF Admits
    <2>4. DealtWith(g, {o}, {})
        BY <2>1, <2>2, <2>3, BecomesKeeps
    <2>5. QED
        BY <2>4
<1>3. QED
    BY <1>1, <1>2

\* A prompt a step does not deal with stays where the application does not have it.
LEMMA UntouchedKept ==
    ASSUME NEW g, NEW N, NEW back, DealtWith(g, N, back),
           NEW n \in Numbers, Untouched(n), n \notin N \cup back
    PROVE  Untouched(n)'
<1>1. fate'[n] = fate[n] /\ n \notin Open(app')
    BY DEF DealtWith, Untouched
<1>2. QED
    BY <1>1 DEF Untouched, Unsettled

LEMMA NumberedGiven ==
    ASSUME NEW g, NEW h \in Queues(Commands(g)), NEW n \in Numbered(h)
    PROVE  n \in DOMAIN g /\ n \in Numbers
<1>1. \A c \in Commands(g) : c.number \in DOMAIN g /\ c.number \in Numbers
    BY DEF Commands
<1>2. CASE \E c \in h.inControl : n = c.number
    BY <1>1, <1>2 DEF Queues
<1>3. CASE \E i \in DOMAIN h.waiting : n = h.waiting[i].number
    <2>1. PICK i \in DOMAIN h.waiting : n = h.waiting[i].number
        BY <1>3
    <2>2. h.waiting \in Seq(Commands(g))
        BY DEF Queues
    <2>3. h.waiting[i] \in Commands(g)
        BY <2>1, <2>2, LenProperties
    <2>4. QED
        BY <1>1, <2>1, <2>3
<1>4. QED
    BY <1>2, <1>3 DEF Numbered

-----------------------------------------------------------------------------
(* The invariant, action by action *)

LEMMA GivenFacts ==
    ASSUME RouteAssumption, RouteInv
    PROVE  /\ DOMAIN given = 1 .. Len(given) /\ Len(given) \in Nat /\ DOMAIN given \subseteq Numbers
           /\ WellFormed(app, given)
           /\ host \in Queues(Commands(given)) /\ Numbered(host) \subseteq Numbers
<1>1. DOMAIN given = 1 .. Len(given) /\ Len(given) \in Nat
    BY LenProperties DEF RouteInv
<1>2. DOMAIN given \subseteq Numbers
    BY <1>1 DEF RouteInv, Numbers, RouteAssumption
<1>3. host \in Queues(Commands(given))
    BY DEF RouteInv, QueueOK, Queues
<1>4. QED
    BY <1>1, <1>2, <1>3, NumberedGiven DEF RouteInv, Sound, GrowsTo

\* A step that changes the application and the answers only, and adds no prompt.
LEMMA CalmStep ==
    ASSUME RouteAssumption, RouteInv, NEW outcomes, Becomes(outcomes, {}),
           \A a \in outcomes : Follows(app, a, given, {}),
           UNCHANGED <<host, given, executed>>
    PROVE  RouteInv'
<1>1. GrowsTo(given) /\ Admits(given, {}, {})
    BY GivenFacts DEF GrowsTo, Admits
<1>2. DealtWith(given, {}, {})
    BY <1>1, BecomesKeeps DEF RouteInv
<1>3. \A n \in Numbered(host) : Untouched(n)'
    BY <1>2, GivenFacts, UntouchedKept DEF RouteInv, QueueOK
<1>4. QueueOK'
    BY <1>3 DEF RouteInv, QueueOK
<1>5. QED
    BY <1>2, <1>4 DEF RouteInv, DealtWith

\* A step that changes the application only, and moves no prompt.
LEMMA QuietStep ==
    ASSUME RouteAssumption, RouteInv, Calm(app, app', given),
           UNCHANGED <<host, given, fate, executed>>
    PROVE  RouteInv'
<1>1. Follows(app, app', given, {})
    BY CalmFollows DEF RouteInv
<1>2. Open(app') \subseteq Open(app) /\ Sound(app', given)
    BY <1>1 DEF Follows
<1>3. app'.sent = NothingSent /\ app'.parked = app.parked
    BY DEF Calm, RouteInv
<1>4. QueueOK'
    BY <1>2 DEF RouteInv, QueueOK, Untouched, Unsettled
<1>5. FateOK'
    BY <1>2, <1>3 DEF RouteInv, FateOK, Unsettled, SettlesOnce, DirectHome
<1>6. QED
    BY <1>2, <1>3, <1>4, <1>5 DEF RouteInv

\* A command is numbered and waits for its hook, or is carried out at once.
LEMMA GiveKeeps ==
    ASSUME RouteAssumption, RouteInv, NEW kind \in Prompts \cup {"model", "settings"},
           NEW controlled \in BOOLEAN, Give(kind, controlled)
    PROVE  RouteInv'
<1> DEFINE c == [number |-> Len(given) + 1, kind |-> kind, project |-> app.selected]
<1>1. PICK m \in Nat : m = Len(given) /\ DOMAIN given = 1 .. m
    BY GivenFacts
<1>2. PICK g : g = Append(given, app.selected)
    OBVIOUS
<1>3. app.selected \in Projects \cup {Nothing}
    BY DEF RouteInv, Sound, WellFormed, Applications
<1>4. /\ g \in Seq(Projects \cup {Nothing}) /\ Len(g) = m + 1 /\ DOMAIN g = 1 .. m + 1
      /\ g[m + 1] = app.selected /\ \A n \in 1 .. m : g[n] = given[n]
    <2>1. given \in Seq(Projects \cup {Nothing})
        BY DEF RouteInv
    <2>2. QED
        BY <1>1, <1>2, <1>3, <2>1, AppendProperties, LenProperties
<1>5. given' = g /\ executed' = executed /\ m < CommandBound /\ CommandBound \in Nat
    BY <1>1, <1>2 DEF Give, RouteAssumption
<1>6. DOMAIN g \subseteq Numbers /\ m + 1 \in DOMAIN g /\ m + 1 \notin DOMAIN given
    BY <1>1, <1>4, <1>5 DEF Numbers
<1>7. GrowsTo(g)
    BY <1>1, <1>4, <1>5, <1>6 DEF GrowsTo
<1>8. c \in Commands(g) /\ c.number = m + 1
    BY <1>1, <1>3, <1>4, <1>6 DEF Commands
<1>9. Sound(app, g) /\ Commands(given) \subseteq Commands(g)
    BY <1>7, MoreGiven DEF RouteInv, GrowsTo
<1>10. m + 1 \notin Open(app)
    BY <1>6, OpenWasGiven DEF RouteInv
<1>11. Unsettled(m + 1)
    BY <1>6 DEF RouteInv, FateOK
<1>12. executed' \in Seq(DOMAIN g) /\ executed \in Seq(DOMAIN given)
    BY <1>5, <1>7, SeqMonotonic DEF RouteInv, GrowsTo
<1>13. host \in Queues(Commands(g))
    BY <1>9, GivenFacts, SeqMonotonic DEF Queues
<1>14. \A n \in Numbered(host) : n \in DOMAIN given /\ n \in Numbers
    BY GivenFacts, NumberedGiven
<1> HIDE DEF c
<1>15. CASE controlled
    <2> DEFINE w == host.waiting
               h == [host EXCEPT !.waiting = Append(@, c)]
    <2>1. host' = BeginNext(h) /\ UNCHANGED <<app, fate>>
        BY <1>15 DEF Give, c
    <2>2. w \in Seq(Commands(given)) /\ w \in Seq(Commands(g))
        BY <1>13, GivenFacts DEF Queues
    <2>3. PICK k \in Nat : k = Len(w) /\ DOMAIN w = 1 .. k
        BY <2>2, LenProperties
    <2>4. /\ Append(w, c) \in Seq(Commands(g)) /\ DOMAIN Append(w, c) = 1 .. k + 1
          /\ Append(w, c)[k + 1] = c /\ \A i \in 1 .. k : Append(w, c)[i] = w[i]
        BY <1>8, <2>2, <2>3, AppendProperties, LenProperties
    <2>5. h.waiting = Append(w, c) /\ h.inControl = host.inControl
        BY <1>13 DEF Queues
    <2>6. h \in Queues(Commands(g))
        BY <1>13, <2>4 DEF Queues
    <2>7. Numbered(h) \subseteq Numbered(host) \cup {m + 1}
        BY <1>8, <2>3, <2>4, <2>5 DEF Numbered
    <2>8. Line(h, executed)
        <3>1. Line(host, executed)
            BY DEF RouteInv
        <3>2. \A n \in Numbered(host) : n < m + 1
            BY <1>1, <1>14
        <3>3. \A i \in DOMAIN executed : executed[i] < m + 1
            BY <1>1, <1>12, LenProperties
        <3>4. \A i \in 1 .. k : w[i].number < m + 1
            BY <2>3, <3>2 DEF Numbered
        <3>5. \A d \in host.inControl : d.number < m + 1
            BY <3>2 DEF Numbered
        <3>6. \A i, j \in 1 .. k + 1 : i < j =>
                 Append(w, c)[i].number < Append(w, c)[j].number
            <4>1. TAKE i, j \in 1 .. k + 1
            <4>2. HAVE i < j
            <4>3. i \in 1 .. k /\ (j = k + 1 \/ j \in 1 .. k)
                BY <4>2
            <4>4. QED
                BY <1>8, <2>3, <2>4, <3>1, <3>4, <4>2, <4>3 DEF Line
        <3>7. \A j \in 1 .. k + 1 : j = k + 1 \/ j \in 1 .. k
            OBVIOUS
        <3>8. QED
            BY <1>8, <2>3, <2>4, <2>5, <3>1, <3>3, <3>5, <3>6, <3>7 DEF Line
    <2>9. \A d, e \in h.inControl : d = e
        BY <2>5 DEF RouteInv, QueueOK
    <2> HIDE DEF h
    <2>10. /\ host' \in Queues(Commands(g)) /\ Line(host', executed)
           /\ Numbered(host') \subseteq Numbered(h)
           /\ \A d, e \in host'.inControl : d = e
        BY <1>4, <2>1, <2>6, <2>8, <2>9, BeginNextKeeps
    <2>11. \A n \in Numbered(host) \cup {m + 1} : Untouched(n)
        BY <1>10, <1>11 DEF RouteInv, QueueOK, Untouched
    <2>12. QueueOK'
        BY <1>5, <2>1, <2>7, <2>10, <2>11 DEF QueueOK, Untouched, Unsettled, Queues
    <2>13. FateOK'
        <3>1. FateOK
            BY DEF RouteInv
        <3>2. DirectHome'
            <4>1. SUFFICES ASSUME NEW n \in Numbers, n \notin app.parked, NEW i \in DOMAIN fate[n].to
                           PROVE  Home[fate[n].to[i]] = g[n]
                BY <1>5, <2>1 DEF DirectHome
            <4>2. n \in DOMAIN given
                <5>1. SUFFICES ASSUME n \notin DOMAIN given PROVE FALSE
                    OBVIOUS
                <5>2. fate[n].to = <<>>
                    BY <3>1, <5>1 DEF FateOK, Unsettled
                <5>3. DOMAIN <<>> = {}
                    OBVIOUS
                <5>4. QED
                    BY <4>1, <5>2, <5>3
            <4>3. QED
                BY <1>7, <3>1, <4>1, <4>2 DEF FateOK, DirectHome, GrowsTo
        <3>3. QED
            BY <1>5, <1>7, <2>1, <3>1, <3>2 DEF FateOK, Unsettled, SettlesOnce, GrowsTo
    <2>14. m + 1 <= CommandBound
        BY <1>5
    <2>15. QED
        BY <1>4, <1>5, <1>9, <1>12, <2>1, <2>10, <2>12, <2>13, <2>14 DEF RouteInv
<1>16. CASE ~controlled
    <2>1. host' = host /\ Execute(c)
        BY <1>16 DEF Give, c
    <2>2. DealtWith(g, {m + 1}, {})
        BY <1>7, <1>8, <1>9, <1>10, <1>11, <2>1, ExecuteKeeps DEF RouteInv
    <2>3. \A n \in Numbered(host) : Untouched(n)'
        <3>1. TAKE n \in Numbered(host)
        <3>2. n \in Numbers /\ n \notin {m + 1} \cup {} /\ Untouched(n)
            BY <1>6, <1>14 DEF RouteInv, QueueOK
        <3>3. QED
            BY <2>2, <3>2, UntouchedKept
    <2>4. QueueOK'
        BY <1>5, <1>13, <2>1, <2>3 DEF RouteInv, QueueOK, Queues
    <2>5. m + 1 <= CommandBound
        BY <1>5
    <2>6. QED
        BY <1>4, <1>5, <1>12, <2>1, <2>2, <2>4, <2>5 DEF RouteInv, DealtWith
<1>17. QED
    BY <1>15, <1>16

LEMMA ControlledKeeps ==
    ASSUME RouteAssumption, RouteInv, NEW c \in host.inControl, NEW allowed \in BOOLEAN,
           Controlled(c, allowed)
    PROVE  RouteInv'
<1> DEFINE o == c.number
           h == [host EXCEPT !.inControl = @ \ {c}]
<1>1. host \in Queues(Commands(given)) /\ c \in Commands(given)
    BY GivenFacts DEF Queues
<1>2. o \in Numbers /\ o \in DOMAIN given /\ Untouched(o) /\ Line(host, executed)
    BY <1>1 DEF Commands, RouteInv, QueueOK, Numbered
<1>3. h.waiting = host.waiting /\ h.inControl = {} /\ h \in Queues(Commands(given))
    BY <1>1 DEF Queues, RouteInv, QueueOK
<1>4. host' = BeginNext(h) /\ given' = given
    BY DEF Controlled
<1>5. PICK k \in Nat : DOMAIN host.waiting = 1 .. k
    BY <1>1, LenProperties DEF Queues
<1>6. \A n \in Numbered(h) : n \in Numbered(host) /\ n \in Numbers /\ n # o
    <2>1. TAKE n \in Numbered(h)
    <2>2. PICK i \in DOMAIN host.waiting : n = host.waiting[i].number
        BY <1>3 DEF Numbered
    <2>3. o < n
        BY <1>2, <2>2 DEF Line
    <2>4. n \in Numbers
        BY <1>3, NumberedGiven
    <2>5. o \in Nat /\ n \in Nat
        BY <1>2, <2>4 DEF Numbers
    <2>6. QED
        BY <2>2, <2>3, <2>4, <2>5 DEF Numbered
<1>7. executed \in Seq(DOMAIN given)
    BY DEF RouteInv
<1>8. PICK e : e = IF allowed THEN Append(executed, o) ELSE executed
    OBVIOUS
<1>9. executed' = e
    BY <1>8 DEF Controlled
<1>10. e \in Seq(DOMAIN given)
    BY <1>2, <1>7, <1>8, AppendProperties
<1>11. Line(h, e)
    <2>1. CASE ~allowed
        BY <1>2, <1>3, <1>8, <2>1 DEF Line
    <2>2. CASE allowed
        <3>1. PICK m \in Nat : m = Len(executed) /\ DOMAIN executed = 1 .. m
            BY <1>7, LenProperties
        <3>2. /\ DOMAIN e = 1 .. m + 1 /\ e[m + 1] = o
              /\ \A i \in 1 .. m : e[i] = executed[i]
            BY <1>2, <1>7, <1>8, <1>10, <2>2, <3>1, AppendProperties, LenProperties
        <3>3. \A i \in 1 .. m + 1 : i = m + 1 \/ i \in 1 .. m
            OBVIOUS
        <3>4. \A i \in 1 .. m : executed[i] < o
            BY <1>2, <3>1 DEF Line
        <3>5. \A i, j \in 1 .. m + 1 : i < j => e[i] < e[j]
            <4>1. TAKE i, j \in 1 .. m + 1
            <4>2. HAVE i < j
            <4>3. i \in 1 .. m /\ (j = m + 1 \/ j \in 1 .. m)
                BY <4>2
            <4>4. QED
                BY <1>2, <3>1, <3>2, <3>4, <4>2, <4>3 DEF Line
        <3>6. \A j \in DOMAIN host.waiting : o < host.waiting[j].number
            BY <1>2 DEF Line
        <3>7. \A i \in 1 .. m + 1, j \in DOMAIN host.waiting : e[i] < host.waiting[j].number
            BY <1>2, <3>1, <3>2, <3>3, <3>6 DEF Line
        <3>8. QED
            BY <1>2, <1>3, <3>2, <3>5, <3>7 DEF Line
    <2>3. QED
        BY <2>1, <2>2
<1>12. /\ BeginNext(h) \in Queues(Commands(given)) /\ Line(BeginNext(h), e)
       /\ Numbered(BeginNext(h)) \subseteq Numbered(h)
       /\ \A x, y \in BeginNext(h).inControl : x = y
    <2>1. \A x, y \in h.inControl : x = y
        BY <1>3
    <2>2. given \in Seq(Projects \cup {Nothing})
        BY DEF RouteInv
    <2> HIDE DEF h
    <2>3. QED
        BY <1>3, <1>11, <2>1, <2>2, BeginNextKeeps
<1> HIDE DEF h
<1>13. PICK N, back : DealtWith(given, N, back) /\ N \cup back \subseteq {o}
    <2>1. GrowsTo(given)
        BY <1>4, GivenFacts DEF GrowsTo
    <2>2. CASE allowed
        <3>1. Execute(c)
            BY <2>2 DEF Controlled
        <3>2. c.number \notin Open(app) /\ Unsettled(c.number)
            BY <1>2 DEF Untouched
        <3>3. DealtWith(given, {c.number}, {})
            BY <1>1, <2>1, <3>1, <3>2, ExecuteKeeps DEF RouteInv
        <3>4. {c.number} \cup {} \subseteq {o}
            OBVIOUS
        <3>5. QED
            BY <3>3, <3>4, Zenon
    <2>3. CASE ~allowed
        <3>1. PICK back : Becomes({app}, back) /\ back \subseteq {o}
            BY <2>3 DEF Controlled
        <3>2. Admits(given, {}, back)
            BY <1>2, <3>1 DEF Admits, Untouched
        <3>3. \A a \in {app} : Follows(app, a, given, {})
            BY FollowsSelf DEF RouteInv
        <3>4. DealtWith(given, {}, back)
            BY <2>1, <3>1, <3>2, <3>3, BecomesKeeps DEF RouteInv
        <3>5. {} \cup back \subseteq {o}
            BY <3>1
        <3>6. QED
            BY <3>4, <3>5, Zenon
    <2>4. QED
        BY <2>2, <2>3
<1>14. \A n \in Numbered(h) : Untouched(n)'
    <2>1. TAKE n \in Numbered(h)
    <2>2. n \in Numbers /\ n \notin N \cup back /\ Untouched(n)
        BY <1>6, <1>13 DEF RouteInv, QueueOK
    <2>3. QED
        BY <1>13, <2>2, UntouchedKept
<1>15. QueueOK'
    BY <1>4, <1>12, <1>14 DEF QueueOK, Queues
<1>16. QED
    BY <1>4, <1>9, <1>10, <1>12, <1>13, <1>15 DEF RouteInv, DealtWith

LEMMA NavigateKeeps ==
    ASSUME RouteAssumption, RouteInv, NEW outcomes, Navigate(outcomes),
           \A a \in outcomes : Calm(app, a, given)
    PROVE  RouteInv'
<1>1. \A a \in outcomes : Follows(app, a, given, {})
    BY CalmFollows DEF RouteInv
<1>2. Becomes(outcomes, {}) /\ UNCHANGED <<host, given, executed>>
    BY DEF Navigate
<1>3. QED
    BY <1>1, <1>2, CalmStep

\* The session or project the user opens, leaves or drops.
LEMMA NavigationKeeps ==
    ASSUME RouteAssumption, RouteInv,
           \/ \E s \in Sessions : OpenSession(s)
           \/ \E p \in Projects : OpenProject(p)
           \/ \E p \in Projects : NewSession(p)
           \/ \E p \in Projects : RemoveProject(p)
           \/ \E s \in Sessions : DeleteSession(s)
           \/ ChangeTrust
    PROVE  RouteInv'
<1>1. WellFormed(app, given) /\ app \in Applications(given)
    BY GivenFacts DEF WellFormed
<1>2. ASSUME NEW s \in Sessions, OpenSession(s) PROVE RouteInv'
    BY <1>1, <1>2, SwitchSessionCalm, NavigateKeeps DEF OpenSession
<1>3. ASSUME NEW p \in Projects, OpenProject(p) PROVE RouteInv'
    BY <1>1, <1>3, StartProjectCalm, NavigateKeeps DEF OpenProject
<1>4. ASSUME NEW p \in Projects, NewSession(p) PROVE RouteInv'
    BY <1>1, <1>4, StartNewSessionCalm, NavigateKeeps DEF NewSession
<1> DEFINE u == Upset(app)
<1>5. Calm(app, u, given)
    BY <1>1, UpsetCalm
<1>6. WellFormed(u, given) /\ u.status \in Statuses
    BY <1>5 DEF Calm, WellFormed, Applications
<1> HIDE DEF u
<1>7. ASSUME NEW p \in Projects, RemoveProject(p) PROVE RouteInv'
    <2>1. Navigate({StopProject(u, p)})
        BY <1>7 DEF RemoveProject, u
    <2>2. Calm(app, StopProject(u, p), given)
        BY <1>5, <1>6, StopProjectCalm, CalmTwice
    <2>3. QED
        BY <2>1, <2>2, NavigateKeeps
<1>8. ASSUME NEW s \in Sessions, DeleteSession(s) PROVE RouteInv'
    <2>1. PICK t : t = IF app.active = s THEN "Offline" ELSE u.status
        OBVIOUS
    <2>2. t \in Statuses
        BY <1>6, <2>1 DEF Statuses
    <2>3. Drop(u, {s}).status = u.status
        BY <1>6 DEF Drop, WellFormed, Applications
    <2>4. Navigate({[Drop(u, {s}) EXCEPT !.status = t]})
        BY <1>8, <2>1, <2>3 DEF DeleteSession, u
    <2>5. Calm(app, [Drop(u, {s}) EXCEPT !.status = t], given)
        BY <1>5, <1>6, <2>2, DroppedCalm, CalmTwice
    <2>6. QED
        BY <2>4, <2>5, NavigateKeeps
<1>9. ASSUME ChangeTrust PROVE RouteInv'
    <2>1. app.selected \in Projects
        BY <1>1, <1>9 DEF ChangeTrust, Applications
    <2>2. PICK ps \in {app.edited \cup {app.selected}, app.edited \ {app.selected}} :
              Navigate(RequestHookReload([u EXCEPT !.edited = ps], app.selected))
        BY <1>9 DEF ChangeTrust, u
    <2>3. ps \in SUBSET Projects
        BY <1>1, <2>1, <2>2 DEF Applications
    <2>4. PICK e : e = [u EXCEPT !.edited = ps]
        OBVIOUS
    <2>5. Calm(u, e, given)
        BY <1>6, <2>3, <2>4, EditedCalm
    <2>6. Calm(app, e, given) /\ WellFormed(e, given)
        BY <1>5, <2>5, CalmTwice DEF Calm
    <2>7. \A b \in RequestHookReload(e, app.selected) : Calm(app, b, given)
        BY <2>1, <2>6, RequestHookReloadCalm, CalmTwice
    <2>8. Navigate(RequestHookReload(e, app.selected))
        BY <2>2, <2>4
    <2>9. QED
        BY <2>7, <2>8, NavigateKeeps
<1>10. QED
    BY <1>2, <1>3, <1>4, <1>7, <1>8, <1>9

LEMMA EditHooksKeeps ==
    ASSUME RouteAssumption, RouteInv, NEW p \in Projects, EditHooks(p)
    PROVE  RouteInv'
<1> DEFINE u == Upset(app)
           es == app.edited \cup {p}
           b == [u EXCEPT !.edited = es]
<1>1. Calm(app, u, given) /\ u.edited = app.edited
    BY GivenFacts, UpsetCalm DEF Upset, WellFormed, Applications
<1>2. u \in Applications(given) /\ WellFormed(u, given) /\ es \in SUBSET Projects
    BY <1>1 DEF Calm, WellFormed, Applications
<1>3. app' = b
    BY <1>1 DEF EditHooks
<1> HIDE DEF u, es
<1>4. b \in Applications(given)
    BY <1>2 DEF Applications
<1>5. /\ b.live = u.live /\ b.active = u.active /\ b.turn = u.turn /\ b.pi = u.pi
      /\ b.held = u.held /\ b.parked = u.parked /\ b.sent = u.sent
    BY <1>2 DEF Applications
<1>6. Calm(u, b, given)
    BY <1>2, <1>4, <1>5, ElsewhereCalm
<1>7. Calm(app, app', given)
    BY <1>1, <1>3, <1>6, CalmTwice
<1>8. UNCHANGED <<host, given, fate, executed>>
    BY DEF EditHooks
<1>9. QED
    BY <1>7, <1>8, QuietStep

-----------------------------------------------------------------------------
(* What Pi tells *)

\* A pooled session's process and turn change; a prompt it had pending may be taken.
LEMMA SessionCalm ==
    ASSUME NEW g, NEW a, WellFormed(a, g), NEW s \in Sessions, s \in a.live,
           NEW b \in Applications(g), b.live = a.live, b.active = a.active,
           \A x \in Sessions : x # s => b.turn[x] = a.turn[x] /\ b.pi[x] = a.pi[x],
           b.turn[s].pending \in {a.turn[s].pending, Nothing},
           b.held = a.held, b.parked = a.parked, b.sent = a.sent
    PROVE  Calm(a, b, g)
    BY DEF Calm, WellFormed

\* An event leaves the queue of a session.
LEMMA TookCalm ==
    ASSUME RouteAssumption, RouteInv, NEW s \in Sessions, NEW event, Heard(s, event)
    PROVE  /\ Calm(app, Took(s), given) /\ WellFormed(Took(s), given)
           /\ s \in Took(s).live /\ Took(s).turn = app.turn /\ Took(s).status = app.status
           /\ Took(s).active = app.active
<1> DEFINE b == Took(s)
           q == [app.pi[s] EXCEPT !.out = Tail(@)]
<1>1. app \in Applications(given) /\ s \in app.live /\ app.pi[s].out # <<>>
    BY GivenFacts DEF WellFormed, Heard
<1>2. app.pi[s] \in Processes /\ app.turn[s] \in Turns(given)
    BY <1>1 DEF Applications
<1>3. Tail(app.pi[s].out) \in Seq(Events)
    BY <1>1, <1>2, HeadTailProperties DEF Processes
<1>4. q \in Processes
    BY <1>2, <1>3 DEF Processes
<1>5. /\ b.live = app.live /\ b.active = app.active /\ b.turn = app.turn
      /\ b.held = app.held /\ b.parked = app.parked /\ b.sent = app.sent
      /\ \A x \in Sessions : x # s => b.pi[x] = app.pi[x]
      /\ b.status = app.status
    BY <1>1 DEF Took, Applications
<1>6. b \in Applications(given)
    BY <1>1, <1>4 DEF Took, Applications
<1>8. Calm(app, b, given)
    BY <1>1, <1>5, <1>6, GivenFacts, SessionCalm
<1>9. QED
    BY <1>1, <1>5, <1>8 DEF Calm

\* A turn is set, and the status follows if the session is visible.
LEMMA TurnCalm ==
    ASSUME NEW g, NEW a, WellFormed(a, g), NEW s \in Sessions, s \in a.live,
           NEW t \in Turns(g), t.pending \in {a.turn[s].pending, Nothing}
    PROVE  Calm(a, [a EXCEPT !.turn[s] = t], g)
<1> DEFINE b == [a EXCEPT !.turn[s] = t]
<1>1. a \in Applications(g)
    BY DEF WellFormed
<1>2. /\ b.live = a.live /\ b.active = a.active
      /\ b.turn[s] = t /\ \A x \in Sessions : x # s => b.turn[x] = a.turn[x]
      /\ b.held = a.held /\ b.parked = a.parked /\ b.sent = a.sent /\ b.pi = a.pi
    BY <1>1 DEF Applications
<1>3. b \in Applications(g)
    BY <1>1 DEF Applications
<1>4. QED
    BY <1>2, <1>3, SessionCalm

LEMMA SetStatusCalm ==
    ASSUME NEW g, NEW a, WellFormed(a, g), NEW s, NEW t \in Statuses
    PROVE  /\ Calm(a, SetStatus(a, s, t), g) /\ SetStatus(a, s, t).live = a.live
           /\ SetStatus(a, s, t).turn = a.turn
<1>1. a \in Applications(g)
    BY DEF WellFormed
<1>2. Calm(a, SetStatus(a, s, t), g)
    BY StatusCalm, CalmSelf DEF SetStatus
<1>3. QED
    BY <1>1, <1>2 DEF SetStatus, Applications

\* An event whose handler admits no prompt keeps the invariant if what it does follows.
LEMMA HeardStep ==
    ASSUME RouteAssumption, RouteInv, NEW s \in Sessions, NEW event, Heard(s, event),
           NEW outcomes, Becomes(outcomes, {}),
           \A a \in outcomes : Follows(app, a, given, {})
    PROVE  RouteInv'
<1>1. UNCHANGED <<host, given, executed>>
    BY DEF Heard
<1>2. QED
    BY <1>1, CalmStep

LEMMA HearReadyKeeps ==
    ASSUME RouteAssumption, RouteInv, NEW s \in Sessions, HearReady(s)
    PROVE  RouteInv'
<1> DEFINE outcomes == UNION {FlushPendingHookInputs(a, s) :
                                 a \in RestartHooksIfSettled(Took(s), Home[s])}
<1>1. Heard(s, "ready") /\ Becomes(outcomes, {})
    BY DEF HearReady
<1>2. Calm(app, Took(s), given) /\ WellFormed(Took(s), given)
    BY <1>1, TookCalm
<1>3. ASSUME NEW b \in outcomes PROVE Follows(app, b, given, {})
    <2>1. PICK a \in RestartHooksIfSettled(Took(s), Home[s]) : b \in FlushPendingHookInputs(a, s)
        OBVIOUS
    <2>2. Home[s] \in Projects
        BY DEF RouteAssumption
    <2>3. Calm(Took(s), a, given)
        BY <1>2, <2>1, <2>2, RestartHooksIfSettledCalm
    <2>4. Calm(app, a, given)
        BY <1>2, <2>3, CalmTwice
    <2>5. Follows(app, a, given, {})
        BY <2>4, CalmFollows DEF RouteInv
    <2>6. Follows(a, b, given, {})
        BY <2>1, <2>5, FlushPendingHookInputsFollows DEF Follows
    <2>7. Follows(app, b, given, {} \cup {})
        BY <2>5, <2>6, FollowsTwice
    <2>8. QED
        BY <2>7
<1> HIDE DEF outcomes
<1>4. QED
    BY <1>1, <1>3, HeardStep

\* An event after which the session is turned to t, and nothing else.
LEMMA HeardTurn ==
    ASSUME RouteAssumption, RouteInv, NEW s \in Sessions, NEW event, Heard(s, event),
           NEW t \in Turns(given), t.pending = app.turn[s].pending,
           Becomes({[Took(s) EXCEPT !.turn[s] = t]}, {})
    PROVE  RouteInv'
<1> DEFINE k == Took(s)
           b == [k EXCEPT !.turn[s] = t]
<1>1. Calm(app, k, given) /\ WellFormed(k, given) /\ s \in k.live /\ k.turn = app.turn
    BY TookCalm
<1> HIDE DEF k
<1>2. Calm(k, b, given)
    BY <1>1, TurnCalm
<1>3. Follows(app, b, given, {})
    BY <1>1, <1>2, CalmTwice, CalmFollows DEF RouteInv
<1>4. Becomes({b}, {})
    BY DEF k
<1> HIDE DEF b
<1>5. QED
    BY <1>3, <1>4, HeardStep

LEMMA HearMessageKeeps ==
    ASSUME RouteAssumption, RouteInv, NEW s \in Sessions,
           HearPeer(s) \/ HearUser(s) \/ HearAssistant(s)
    PROVE  RouteInv'
<1> DEFINE k == Took(s)
           peer == [app.turn[s] EXCEPT !.running = TRUE]
           user == [app.turn[s] EXCEPT !.running = TRUE, !.inRun = TRUE]
           assistant == [app.turn[s] EXCEPT !.running = TRUE, !.inRun = TRUE,
                                            !.compacted = @ /\ app.active # s]
<1>1. PICK event : Heard(s, event)
    BY DEF HearPeer, HearUser, HearAssistant
<1>2. k \in Applications(given) /\ k.turn = app.turn /\ app.turn[s] \in Turns(given)
    BY <1>1, TookCalm DEF WellFormed, Applications
<1>3. /\ peer \in Turns(given) /\ peer.pending = app.turn[s].pending
      /\ user \in Turns(given) /\ user.pending = app.turn[s].pending
      /\ assistant \in Turns(given) /\ assistant.pending = app.turn[s].pending
    BY <1>2 DEF Turns
<1>4. /\ HearPeer(s) => Becomes({[k EXCEPT !.turn[s].running = TRUE]}, {})
      /\ HearUser(s) => Becomes({[k EXCEPT !.turn[s].running = TRUE, !.turn[s].inRun = TRUE]}, {})
      /\ HearAssistant(s) =>
            Becomes({[k EXCEPT !.turn[s].running = TRUE, !.turn[s].inRun = TRUE,
                         !.turn[s].compacted = @ /\ app.active # s]}, {})
    BY DEF HearPeer, HearUser, HearAssistant
<1> HIDE DEF k
<1>5. /\ [k EXCEPT !.turn[s].running = TRUE] = [k EXCEPT !.turn[s] = peer]
      /\ [k EXCEPT !.turn[s].running = TRUE, !.turn[s].inRun = TRUE] = [k EXCEPT !.turn[s] = user]
      /\ [k EXCEPT !.turn[s].running = TRUE, !.turn[s].inRun = TRUE,
             !.turn[s].compacted = @ /\ app.active # s] = [k EXCEPT !.turn[s] = assistant]
    <2>1. [k EXCEPT !.turn[s].running = TRUE] = [k EXCEPT !.turn[s] = peer]
        BY <1>2 DEF Applications, Turns
    <2>2. [k EXCEPT !.turn[s].running = TRUE, !.turn[s].inRun = TRUE] = [k EXCEPT !.turn[s] = user]
        BY <1>2 DEF Applications, Turns
    <2>3. [k EXCEPT !.turn[s].running = TRUE, !.turn[s].inRun = TRUE,
             !.turn[s].compacted = @ /\ app.active # s] = [k EXCEPT !.turn[s] = assistant]
        <3> DEFINE c == app.turn[s].compacted /\ app.active # s
        <3>1. k.turn[s].compacted = app.turn[s].compacted
            BY <1>2
        <3>2. assistant = [app.turn[s] EXCEPT !.running = TRUE, !.inRun = TRUE, !.compacted = c]
            OBVIOUS
        <3>3. [k EXCEPT !.turn[s].running = TRUE, !.turn[s].inRun = TRUE,
                  !.turn[s].compacted = @ /\ app.active # s]
              = [k EXCEPT !.turn[s].running = TRUE, !.turn[s].inRun = TRUE,
                          !.turn[s].compacted = c]
            BY <3>1, Zenon
        <3> HIDE DEF c
        <3>4. [k EXCEPT !.turn[s].running = TRUE, !.turn[s].inRun = TRUE, !.turn[s].compacted = c]
              = [k EXCEPT !.turn[s] = [app.turn[s] EXCEPT !.running = TRUE, !.inRun = TRUE,
                                                          !.compacted = c]]
            BY <1>2 DEF Applications, Turns
        <3>5. QED
            BY <3>2, <3>3, <3>4
    <2>4. QED
        BY <2>1, <2>2, <2>3
<1> HIDE DEF peer, user, assistant
<1>6. \/ Becomes({[k EXCEPT !.turn[s] = peer]}, {})
      \/ Becomes({[k EXCEPT !.turn[s] = user]}, {})
      \/ Becomes({[k EXCEPT !.turn[s] = assistant]}, {})
    BY <1>4, <1>5
<1>7. QED
    BY <1>1, <1>3, <1>6, HeardTurn DEF k

LEMMA HearEmptyKeeps ==
    ASSUME RouteAssumption, RouteInv, NEW s \in Sessions, HearEmpty(s)
    PROVE  RouteInv'
<1> DEFINE k == Took(s)
           t == [k.turn[s] EXCEPT !.failed = TRUE]
           b == [k EXCEPT !.turn[s] = t]
<1>1. Heard(s, "empty")
    BY DEF HearEmpty
<1>2. /\ Calm(app, k, given) /\ WellFormed(k, given) /\ s \in k.live
      /\ k \in Applications(given) /\ k.turn[s] \in Turns(given)
    BY <1>1, TookCalm DEF WellFormed, Applications
<1>3. Becomes({[k EXCEPT !.turn[s].failed = TRUE],
               SetStatus([k EXCEPT !.turn[s].failed = TRUE], s, "Failed")}, {})
    BY DEF HearEmpty
<1> HIDE DEF k
<1>4. [k EXCEPT !.turn[s].failed = TRUE] = b
    BY <1>2 DEF Applications, Turns
<1>5. t \in Turns(given) /\ t.pending = k.turn[s].pending
    BY <1>2 DEF Turns
<1> HIDE DEF t
<1>6. Calm(k, b, given)
    BY <1>2, <1>5, TurnCalm
<1> HIDE DEF b
<1>7. Calm(app, b, given) /\ WellFormed(b, given)
    BY <1>2, <1>6, CalmTwice DEF Calm
<1>8. Calm(app, SetStatus(b, s, "Failed"), given)
    <2>1. "Failed" \in Statuses
        BY DEF Statuses
    <2>2. QED
        BY <1>7, <2>1, SetStatusCalm, CalmTwice
<1>9. Becomes({b, SetStatus(b, s, "Failed")}, {})
    BY <1>3, <1>4
<1>10. \A x \in {b, SetStatus(b, s, "Failed")} : Follows(app, x, given, {})
    BY <1>7, <1>8, CalmFollows DEF RouteInv
<1>11. QED
    BY <1>1, <1>9, <1>10, HeardStep

LEMMA HearSettledKeeps ==
    ASSUME RouteAssumption, RouteInv, NEW s \in Sessions, HearSettled(s)
    PROVE  RouteInv'
<1> DEFINE k == Took(s)
           t == [k.turn[s] EXCEPT !.running = FALSE, !.inRun = FALSE,
                                  !.failed = FALSE]
           b == [k EXCEPT !.turn[s] = t]
<1>1. Heard(s, "settled")
    BY DEF HearSettled
<1>2. /\ Calm(app, k, given) /\ WellFormed(k, given) /\ s \in k.live
      /\ k \in Applications(given) /\ k.turn[s] \in Turns(given)
    BY <1>1, TookCalm DEF WellFormed, Applications
<1>3. PICK status \in {"Ready", "Failed"} :
        Becomes(RestartHooksIfSettled(
            SetStatus([k EXCEPT !.turn[s].running = FALSE, !.turn[s].inRun = FALSE,
                                !.turn[s].failed = FALSE], s, status),
            Home[s]), {})
    BY DEF HearSettled
<1> HIDE DEF k
<1>4. [k EXCEPT !.turn[s].running = FALSE, !.turn[s].inRun = FALSE, !.turn[s].failed = FALSE] = b
    BY <1>2 DEF Applications, Turns
<1>5. t \in Turns(given) /\ t.pending = k.turn[s].pending
    BY <1>2 DEF Turns
<1> HIDE DEF t
<1>6. Calm(k, b, given)
    BY <1>2, <1>5, TurnCalm
<1> HIDE DEF b
<1>7. Calm(app, b, given) /\ WellFormed(b, given)
    BY <1>2, <1>6, CalmTwice DEF Calm
<1>8. PICK d : d = SetStatus(b, s, status)
    OBVIOUS
<1>9. status \in Statuses
    BY DEF Statuses
<1>10. Calm(app, d, given) /\ WellFormed(d, given)
    BY <1>7, <1>8, <1>9, SetStatusCalm, CalmTwice DEF Calm
<1>11. Home[s] \in Projects
    BY DEF RouteAssumption
<1>12. \A x \in RestartHooksIfSettled(d, Home[s]) : Follows(app, x, given, {})
    <2>1. TAKE x \in RestartHooksIfSettled(d, Home[s])
    <2>2. Calm(d, x, given)
        BY <1>10, <1>11, RestartHooksIfSettledCalm
    <2>3. QED
        BY <1>10, <2>2, CalmTwice, CalmFollows DEF RouteInv
<1>13. Becomes(RestartHooksIfSettled(d, Home[s]), {})
    BY <1>3, <1>4, <1>8
<1>14. QED
    BY <1>1, <1>12, <1>13, HeardStep

LEMMA HearCompactingKeeps ==
    ASSUME RouteAssumption, RouteInv, NEW s \in Sessions, HearCompacting(s)
    PROVE  RouteInv'
<1> DEFINE k == Took(s)
           t == [k.turn[s] EXCEPT !.running = TRUE]
           b == [k EXCEPT !.turn[s] = t]
<1>1. Heard(s, "compacting")
    BY DEF HearCompacting
<1>2. /\ Calm(app, k, given) /\ WellFormed(k, given) /\ s \in k.live
      /\ k \in Applications(given) /\ k.turn[s] \in Turns(given)
    BY <1>1, TookCalm DEF WellFormed, Applications
<1>3. Becomes({SetStatus([k EXCEPT !.turn[s].running = TRUE], s, "Compacting")}, {})
    BY DEF HearCompacting
<1> HIDE DEF k
<1>4. [k EXCEPT !.turn[s].running = TRUE] = b
    BY <1>2 DEF Applications, Turns
<1>5. t \in Turns(given) /\ t.pending = k.turn[s].pending
    BY <1>2 DEF Turns
<1> HIDE DEF t
<1>6. Calm(k, b, given)
    BY <1>2, <1>5, TurnCalm
<1> HIDE DEF b
<1>7. Calm(app, b, given) /\ WellFormed(b, given)
    BY <1>2, <1>6, CalmTwice DEF Calm
<1>8. PICK d : d = SetStatus(b, s, "Compacting")
    OBVIOUS
<1>9. "Compacting" \in Statuses
    BY DEF Statuses
<1>10. Calm(app, d, given)
    BY <1>7, <1>8, <1>9, SetStatusCalm, CalmTwice
<1>11. Follows(app, d, given, {})
    BY <1>10, CalmFollows DEF RouteInv
<1>12. Becomes({d}, {})
    BY <1>3, <1>4, <1>8
<1>13. QED
    BY <1>1, <1>11, <1>12, HeardStep

\* The prompt held back leaves the session before it is sent.
LEMMA HearCompactedKeeps ==
    ASSUME RouteAssumption, RouteInv, NEW s \in Sessions, HearCompacted(s)
    PROVE  RouteInv'
<1>1. Heard(s, "compacted")
    BY DEF HearCompacted
<1> DEFINE turn == app.turn[s]
           k == Took(s)
<1>2. /\ Calm(app, k, given) /\ WellFormed(k, given) /\ s \in k.live /\ k.turn = app.turn
      /\ k \in Applications(given) /\ turn \in Turns(given)
    BY <1>1, TookCalm DEF WellFormed, Applications
<1>3. PICK failed \in BOOLEAN, status \in Statuses :
        LET t == [turn EXCEPT !.running = @ /\ turn.inRun, !.compacted = ~failed,
                              !.pending = Nothing]
            a == SetStatus([k EXCEPT !.turn[s] = t], s, status) IN
        Becomes(IF turn.pending = Nothing THEN {a} ELSE SendPrompt(ApplyModel(a), s, turn.pending), {})
    <2>1. PICK failed \in BOOLEAN, benign \in BOOLEAN :
            LET t == [turn EXCEPT !.running = @ /\ turn.inRun, !.compacted = ~failed,
                                  !.pending = Nothing]
                a == SetStatus([k EXCEPT !.turn[s] = t], s,
                               IF turn.inRun THEN "Streaming"
                               ELSE IF failed /\ ~benign THEN "Failed" ELSE "Ready") IN
            Becomes(IF turn.pending = Nothing THEN {a}
                    ELSE SendPrompt(ApplyModel(a), s, turn.pending), {})
        BY Zenon DEF HearCompacted
    <2>2. PICK status : status = IF turn.inRun THEN "Streaming"
                                 ELSE IF failed /\ ~benign THEN "Failed" ELSE "Ready"
        OBVIOUS
    <2>3. status \in Statuses
        BY <2>2 DEF Statuses
    <2>4. QED
        BY <2>1, <2>2, <2>3, Zenon
<1> DEFINE t == [turn EXCEPT !.running = @ /\ turn.inRun, !.compacted = ~failed, !.pending = Nothing]
           b == [k EXCEPT !.turn[s] = t]
           a == SetStatus(b, s, status)
           m == ApplyModel(a)
<1>4. Becomes(IF turn.pending = Nothing THEN {a} ELSE SendPrompt(m, s, turn.pending), {})
    BY <1>3
<1>5. t \in Turns(given) /\ t.pending = Nothing
    BY <1>2 DEF Turns
<1> HIDE DEF k, t
<1>6. Calm(k, b, given) /\ b.live = k.live /\ b.turn[s] = t
    BY <1>2, <1>5, TurnCalm DEF Applications
<1> HIDE DEF b
<1>7. Calm(app, b, given) /\ WellFormed(b, given)
    BY <1>2, <1>6, CalmTwice DEF Calm
<1>8. Calm(app, a, given) /\ WellFormed(a, given) /\ a.live = b.live /\ a.turn = b.turn
    BY <1>7, SetStatusCalm, CalmTwice DEF Calm
<1> HIDE DEF a
<1>9. Follows(app, a, given, {})
    BY <1>8, CalmFollows DEF RouteInv
<1>10. CASE turn.pending = Nothing
    <2>1. Becomes({a}, {})
        BY <1>4, <1>10
    <2>2. QED
        BY <1>1, <1>9, <2>1, HeardStep
<1>11. CASE turn.pending # Nothing
    <2> DEFINE c == turn.pending
    <2>1. Becomes(SendPrompt(m, s, c), {})
        BY <1>4, <1>11
    <2>2. Calm(a, m, given)
        BY <1>8, ApplyModelCalm DEF ApplyModel
    <2>3. m.live = a.live /\ m.turn = a.turn
        BY <1>8 DEF ApplyModel, WellFormed, Applications
    <2> HIDE DEF m
    <2>4. Calm(app, m, given)
        BY <1>8, <2>2, CalmTwice
    <2>5. Follows(app, m, given, {})
        BY <2>4, CalmFollows DEF RouteInv
    <2>6. c \in Commands(given) /\ c.number \in Numbers
        BY <1>2, <1>11 DEF Turns, Commands
    <2>7. PendingAt(app, c.number) /\ c.number \in Open(app)
        BY <1>11, <2>6 DEF PendingAt, Open
    <2>8. ~HeldAt(app, c.number) /\ app.sent[c.number] = <<>>
        BY <2>6, <2>7 DEF RouteInv, Sound, Once
    <2>9. ~HeldAt(m, c.number) /\ m.sent[c.number] = <<>> /\ m.parked = app.parked
        BY <2>4, <2>8 DEF Calm, HeldAt
    <2>10. ~PendingAt(m, c.number)
        <3>1. SUFFICES ASSUME NEW x \in Sessions, m.turn[x].pending # Nothing,
                              m.turn[x].pending.number = c.number
                       PROVE  FALSE
            BY DEF PendingAt
        <3>2. m.turn[s].pending = Nothing
            BY <1>5, <1>6, <1>8, <2>3
        <3>3. m.turn[x].pending = app.turn[x].pending
            BY <2>4, <3>1 DEF Calm
        <3>4. x = s
            BY <1>11, <3>1, <3>3 DEF RouteInv, Sound, Once
        <3>5. QED
            BY <3>1, <3>2, <3>4
    <2>11. c.number \notin Open(m)
        BY <2>9, <2>10 DEF Open
    <2>12. c.number \in m.parked \/ c.project = Home[s]
        BY <1>11, <2>9 DEF RouteInv, Sound, Aimed
    <2>13. Fits(m, given, c, Home[s]) /\ s \in m.live /\ Sound(m, given)
        BY <1>2, <1>6, <1>8, <2>3, <2>5, <2>6, <2>11, <2>12 DEF Fits, Follows
    <2>14. ASSUME NEW d \in SendPrompt(m, s, c) PROVE Follows(app, d, given, {})
        <3>1. Follows(m, d, given, {c.number})
            BY <2>13, SendPromptFollows
        <3>2. Follows(app, d, given, {} \cup {c.number})
            BY <2>5, <3>1, FollowsTwice
        <3>3. QED
            BY <2>7, <3>2 DEF Follows
    <2>15. QED
        BY <1>1, <2>1, <2>14, HeardStep
<1>12. QED
    BY <1>10, <1>11

LEMMA HearExitedKeeps ==
    ASSUME RouteAssumption, RouteInv, NEW s \in Sessions, HearExited(s)
    PROVE  RouteInv'
<1> DEFINE a == SetStatus(app, s, "Failed")
           b == Drop(a, {s})
<1>1. Heard(s, "exited") /\ Becomes({b}, {})
    BY DEF HearExited
<1>2. "Failed" \in Statuses
    BY DEF Statuses
<1>3. Calm(app, a, given) /\ WellFormed(a, given)
    BY <1>2, GivenFacts, SetStatusCalm DEF Calm
<1> HIDE DEF a
<1>4. Calm(a, b, given)
    BY <1>3, DropCalm
<1> HIDE DEF b
<1>5. Follows(app, b, given, {})
    BY <1>3, <1>4, CalmTwice, CalmFollows DEF RouteInv
<1>6. QED
    BY <1>1, <1>5, HeardStep

-----------------------------------------------------------------------------
(* What Pi does *)

LEMMA PiDoesKeeps ==
    ASSUME RouteAssumption, RouteInv, NEW s \in Sessions, NEW a, Calm(app, a, given),
           NEW from \in SUBSET (Runs \ {"off"}), NEW to \in Runs, NEW event \in Events,
           NEW taken, PiDoes(a, s, from, to, event, taken)
    PROVE  RouteInv'
<1> DEFINE q == [run |-> to, out |-> Append(a.pi[s].out, event), in |-> a.pi[s].in \ taken]
           b == [a EXCEPT !.pi[s] = q]
<1>1. app' = b /\ a.pi[s].run \in from /\ UNCHANGED <<host, given, fate, executed>>
    BY DEF PiDoes
<1>2. WellFormed(a, given) /\ a \in Applications(given) /\ a.pi[s] \in Processes
    BY DEF Calm, WellFormed, Applications
<1>3. a.pi[s] # Off
    BY <1>1 DEF Off
<1>4. s \in a.live
    BY <1>2, <1>3 DEF WellFormed
<1>5. q \in Processes
    <2>1. Append(a.pi[s].out, event) \in Seq(Events)
        BY <1>2 DEF Processes
    <2>2. QED
        BY <1>2, <2>1 DEF Processes
<1> HIDE DEF q
<1>6. /\ b.live = a.live /\ b.active = a.active /\ b.turn = a.turn
      /\ \A x \in Sessions : x # s => b.pi[x] = a.pi[x]
      /\ b.held = a.held /\ b.parked = a.parked /\ b.sent = a.sent
    BY <1>2 DEF Applications
<1>7. b \in Applications(given)
    BY <1>2, <1>5 DEF Applications
<1> HIDE DEF b
<1>8. Calm(a, b, given)
    BY <1>2, <1>4, <1>6, <1>7, SessionCalm
<1>9. Calm(app, app', given)
    BY <1>1, <1>8, CalmTwice
<1>10. QED
    BY <1>1, <1>9, QuietStep

LEMMA PiKeeps ==
    ASSUME RouteAssumption, RouteInv, NEW s \in Sessions,
           PiFinishes(s) \/ PiRuns(s) \/ PiReplies(s) \/ PiCompacts(s) \/ PiExits(s)
    PROVE  RouteInv'
<1>1. Calm(app, app, given) /\ Calm(app, Upset(app), given)
    BY GivenFacts, CalmSelf, UpsetCalm
<1>2. PICK a \in {app, Upset(app)}, from \in SUBSET (Runs \ {"off"}), to \in Runs,
           event \in Events, taken \in {{}, {"prompt"}, {"compact"}} :
        PiDoes(a, s, from, to, event, taken)
    <2> DEFINE moves == SUBSET (Runs \ {"off"})
    <2>1. /\ {"booting"} \in moves /\ {"running"} \in moves /\ {"compacting"} \in moves
          /\ {"pausing"} \in moves /\ {"idle", "running"} \in moves /\ {"idle"} \in moves
          /\ {"booting", "idle", "running", "compacting", "pausing"} \in moves
          /\ "idle" \in Runs /\ "running" \in Runs /\ "compacting" \in Runs
          /\ "pausing" \in Runs /\ "gone" \in Runs
          /\ "ready" \in Events /\ "settled" \in Events /\ "compacted" \in Events
          /\ "peer" \in Events /\ "user" \in Events /\ "assistant" \in Events
          /\ "empty" \in Events /\ "compacting" \in Events /\ "exited" \in Events
        BY DEF Runs, Events
    <2> HIDE DEF moves
    <2>2. CASE PiFinishes(s)
        BY <2>1, <2>2, Zenon DEF PiFinishes, moves
    <2>3. CASE PiRuns(s)
        BY <2>1, <2>3, Zenon DEF PiRuns, moves
    <2>4. CASE PiReplies(s)
        BY <2>1, <2>4, Zenon DEF PiReplies, moves
    <2>5. CASE PiCompacts(s)
        BY <2>1, <2>5, Zenon DEF PiCompacts, moves
    <2>6. CASE PiExits(s)
        BY <2>1, <2>6, Zenon DEF PiExits, moves
    <2>7. QED
        BY <2>2, <2>3, <2>4, <2>5, <2>6
<1>3. QED
    BY <1>1, <1>2, PiDoesKeeps

-----------------------------------------------------------------------------
(* The theorems *)

LEMMA RouteInitInv ==
    ASSUME RouteAssumption
    PROVE  RouteInit => RouteInv
<1> SUFFICES ASSUME RouteInit PROVE RouteInv
    OBVIOUS
<1>1. /\ given = <<>> /\ executed = <<>> /\ host = [waiting |-> <<>>, inControl |-> {}]
      /\ fate = [n \in Numbers |-> [to |-> <<>>, back |-> 0]]
    BY DEF RouteInit
<1>2. DOMAIN <<>> = {} /\ Len(<<>>) = 0 /\ \A T : <<>> \in Seq(T)
    BY EmptySeq
<1>3. /\ app.live = {} /\ app.active = Nothing /\ app.sent = NothingSent /\ app.parked = {}
      /\ \A s \in Sessions : app.turn[s] = NoTurn /\ app.pi[s] = Off
      /\ \A p \in Projects : app.held[p] = <<>>
    BY DEF RouteInit
<1>4. app \in Applications(given)
    <2>1. NoTurn \in Turns(given) /\ Off \in Processes
        BY <1>2 DEF NoTurn, Turns, Off, Processes, Runs
    <2>2. NothingSent \in [Numbers -> Seq(Sessions)]
        BY <1>2 DEF NothingSent
    <2>3. QED
        BY <1>2, <2>1, <2>2 DEF RouteInit, Applications, Statuses
<1>5. NoTurn.pending = Nothing
    BY DEF NoTurn
<1>6. \A n : ~HeldAt(app, n) /\ ~PendingAt(app, n)
    BY <1>2, <1>3, <1>5 DEF HeldAt, PendingAt
<1>7. \A n \in Numbers : app.sent[n] = <<>>
    BY <1>3 DEF NothingSent
<1>8. Once(app)
    BY <1>2, <1>3, <1>5, <1>6, <1>7 DEF Once
<1>9. Aimed(app, given)
    BY <1>2, <1>3, <1>5, <1>7 DEF Aimed
<1>10. WellFormed(app, given)
    BY <1>3, <1>4 DEF WellFormed
<1>11. QueueOK
    <2>1. Numbered(host) = {}
        BY <1>1, <1>2 DEF Numbered
    <2>2. QED
        BY <1>1, <1>2, <2>1 DEF QueueOK
<1>12. Line(host, executed)
    BY <1>1, <1>2 DEF Line
<1>13. \A n \in Numbers : fate[n].to = <<>> /\ fate[n].back = 0
    BY <1>1
<1>14. FateOK
    <2>1. fate \in [Numbers -> [to : Seq(Sessions), back : Nat]]
        BY <1>1, <1>2
    <2>2. Open(app) \subseteq Numbers
        BY DEF Open
    <2>3. SettlesOnce
        BY <1>2, <1>13 DEF SettlesOnce
    <2>4. DirectHome
        BY <1>2, <1>13 DEF DirectHome
    <2>5. QED
        BY <1>13, <2>1, <2>2, <2>3, <2>4 DEF FateOK, Unsettled
<1>15. QED
    BY <1>1, <1>2, <1>3, <1>8, <1>9, <1>10, <1>11, <1>12, <1>14
       DEF RouteInv, Sound, RouteAssumption

LEMMA RouteInvStep ==
    ASSUME RouteAssumption
    PROVE  RouteInv /\ [RouteNext]_routeVars => RouteInv'
<1> SUFFICES ASSUME RouteInv, [RouteNext]_routeVars PROVE RouteInv'
    OBVIOUS
<1>1. CASE UNCHANGED routeVars
    <2>1. app' = app /\ UNCHANGED <<host, given, fate, executed>>
        BY <1>1 DEF routeVars
    <2>2. Calm(app, app', given)
        BY <2>1, GivenFacts, CalmSelf
    <2>3. QED
        BY <2>1, <2>2, QuietStep
<1>2. ASSUME NEW kind \in Prompts \cup {"model", "settings"}, NEW controlled \in BOOLEAN,
             Give(kind, controlled)
      PROVE  RouteInv'
    BY <1>2, GiveKeeps
<1>3. ASSUME NEW c \in host.inControl, NEW allowed \in BOOLEAN, Controlled(c, allowed)
      PROVE  RouteInv'
    BY <1>3, ControlledKeeps
<1>4. ASSUME NEW p \in Projects, EditHooks(p) PROVE RouteInv'
    BY <1>4, EditHooksKeeps
<1>5. ASSUME NEW s \in Sessions,
             HearReady(s) \/ HearPeer(s) \/ HearUser(s) \/ HearAssistant(s) \/ HearEmpty(s)
             \/ HearSettled(s) \/ HearCompacting(s) \/ HearCompacted(s) \/ HearExited(s)
      PROVE  RouteInv'
    BY <1>5, HearReadyKeeps, HearMessageKeeps, HearEmptyKeeps, HearSettledKeeps, HearCompactingKeeps,
       HearCompactedKeeps, HearExitedKeeps, Zenon
<1>6. ASSUME NEW s \in Sessions,
             PiFinishes(s) \/ PiRuns(s) \/ PiReplies(s) \/ PiCompacts(s) \/ PiExits(s)
      PROVE  RouteInv'
    BY <1>6, PiKeeps, Zenon
<1>7. QED
    BY <1>1, <1>2, <1>3, <1>4, <1>5, <1>6, NavigationKeeps, Zenon DEF RouteNext

\* Of every prompt given, the queue of a hook, the application, the sessions it was sent to
\* and the answers "not started" together account once, whatever handlers of app.rs ran.
THEOREM RouteInvariant ==
    ASSUME RouteAssumption
    PROVE  RouteSpec => []RouteInv
BY RouteInitInv, RouteInvStep, PTL DEF RouteSpec

LEMMA RouteInvTypes ==
    ASSUME RouteAssumption, RouteInv
    PROVE  RouteTypeOK
<1>1. WellFormed(app, given) /\ app \in Applications(given)
    BY DEF RouteInv, Sound, WellFormed
<1>2. Cardinality(host.inControl) <= 1
    <2>1. CASE host.inControl = {}
        BY <2>1, FS_EmptySet
    <2>2. CASE host.inControl # {}
        <3>1. PICK c : c \in host.inControl
            BY <2>2
        <3>2. host.inControl = {c}
            BY <3>1 DEF RouteInv, QueueOK
        <3>3. QED
            BY <3>2, FS_Singleton
    <2>3. QED
        BY <2>1, <2>2
<1>3. QED
    BY <1>1, <1>2 DEF RouteTypeOK, RouteInv, WellFormed, Applications, Statuses

\* The application, the queue and the histories are of the kind PromptRoute says: the visible
\* session is one of the pool, a process runs for sessions of the pool only, and at most one
\* command is in control of a hook (OrderedControlQueue::begin_next).
THEOREM RouteTypes ==
    ASSUME RouteAssumption
    PROVE  RouteSpec => []RouteTypeOK
BY RouteInvariant, RouteInvTypes, PTL

\* Commands a hook controls are executed in the order they were given: begin_next takes the
\* oldest, and nothing is in control while another is.
THEOREM CommandsInOrder ==
    ASSUME RouteAssumption
    PROVE  RouteSpec => []InOrder
<1>1. RouteInv => InOrder
    BY DEF RouteInv, Line, InOrder
<1>2. QED
    BY <1>1, RouteInvariant, PTL

\* A prompt is sent to one session or comes back once, never both or twice: whatever
\* launches fail, sessions compact, exit or are dropped, and hooks reload meanwhile,
\* submit_prompt, defer_for_compaction and flush_pending_hook_inputs hand it on or answer it.
THEOREM PromptsSettleOnce ==
    ASSUME RouteAssumption
    PROVE  RouteSpec => []SettlesOnce
<1>1. RouteInv => SettlesOnce
    BY DEF RouteInv, FateOK
<1>2. QED
    BY <1>1, RouteInvariant, PTL

\* A prompt that was not held for a reload goes to a session of the project it was given in,
\* also when it was deferred while its session compacted (pending_prompt).
THEOREM PromptsGoHome ==
    ASSUME RouteAssumption
    PROVE  RouteSpec => []DirectHome
<1>1. RouteInv => DirectHome
    BY DEF RouteInv, FateOK
<1>2. QED
    BY <1>1, RouteInvariant, PTL
=============================================================================
