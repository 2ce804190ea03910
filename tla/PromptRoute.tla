----------------------------- MODULE PromptRoute -----------------------------
(***************************************************************************)
(* The way of a prompt from the composer to a Pi process: host.rs and      *)
(* app.rs of pi-whim-app, with the session pool (pool.rs) and the reading  *)
(* of Pi's events (events.rs) of pi-whim-engine.                           *)
(*                                                                         *)
(* The application runs on one thread; every handler is one step.  What    *)
(* interleaves with it is its own deferred work: a command a hook is       *)
(* controlling on a worker, a prompt held until the project's changed      *)
(* hooks are loaded, a prompt held behind a compaction, and the events a   *)
(* Pi process has sent and the window has not handled yet.  Meanwhile the  *)
(* user opens another session, or the files of the hooks change.           *)
(*                                                                         *)
(* Pi is external: a process that reads commands and sends events.  An     *)
(* operator that may fail, or choose, yields the set of its outcomes.      *)
(***************************************************************************)
EXTENDS Naturals, Sequences, FiniteSets

CONSTANTS
    Projects,
    Sessions,
    Home,           \* Home[s]: the project of session s
    Nothing,
    CommandBound,   \* a bound on the commands given
    PipeBound,      \* a bound on the events of a session not handled yet
    UpsetBound      \* a bound on the upsets: a launch fails, Pi exits, acts unasked or
                    \* replies nothing, hooks change, a session or a project is dropped

RouteAssumption ==
    /\ Home \in [Sessions -> Projects]
    /\ Nothing \notin Projects \cup Sessions
    /\ CommandBound \in Nat /\ PipeBound \in Nat \ {0} /\ UpsetBound \in Nat

VARIABLES
    app,        \* the application, its pool and the Pi processes it started
    host,       \* OrderedControlQueue: what waits, and what a hook has in hand
    given,      \* history: given[n]: the project command n was given in
    fate,       \* history: fate[n]: the sessions it was sent to, the times it came back
    executed    \* history: the numbers of the controlled commands, as they were executed

routeVars == <<app, host, given, fate, executed>>

Numbers == 1 .. CommandBound
Prompts == {"prompt", "steer"}
NoTurn == [running |-> FALSE, inRun |-> FALSE, compacted |-> FALSE, failed |-> FALSE,
           pending |-> Nothing]
Off == [run |-> "off", out |-> <<>>, in |-> {}]
Booting == [Off EXCEPT !.run = "booting"]
NothingSent == [n \in Numbers |-> <<>>]

RouteInit ==
    /\ app = [live |-> {}, active |-> Nothing, selected |-> Nothing, status |-> "Offline",
              turn |-> [s \in Sessions |-> NoTurn], pi |-> [s \in Sessions |-> Off],
              model |-> FALSE, edited |-> {}, reloads |-> {},
              held |-> [p \in Projects |-> <<>>], parked |-> {}, sent |-> NothingSent,
              upsets |-> 0]
    /\ host = [waiting |-> <<>>, inControl |-> {}]
    /\ given = <<>>
    /\ fate = [n \in Numbers |-> [to |-> <<>>, back |-> 0]]
    /\ executed = <<>>

-----------------------------------------------------------------------------
(* The pool and the visible session: a is the application *)

MayUpset == app.upsets < UpsetBound
Upset(a) == [a EXCEPT !.upsets = @ + 1]

Drop(a, ss) ==
    [a EXCEPT !.live = @ \ ss,
              !.active = IF @ \in ss THEN Nothing ELSE @,
              !.turn = [s \in Sessions |-> IF s \in ss THEN NoTurn ELSE @[s]],
              !.pi = [s \in Sessions |-> IF s \in ss THEN Off ELSE @[s]]]

CanSubmit(a) ==
    /\ a.status \in {"Ready", "Streaming", "Compacting"}
    /\ a.active \in a.live
    /\ Home[a.active] = a.selected

Activate(a, s) ==
    [a EXCEPT !.active = s, !.selected = Home[s],
              !.status = IF a.turn[s].running THEN "Streaming" ELSE "Ready"]

\* launch_session records the revision of the hooks it read, and pools the session.
Launched(a, s) ==
    [a EXCEPT !.live = @ \cup {s}, !.turn[s] = NoTurn, !.pi[s] = Booting,
              !.edited = @ \ {Home[s]}]

\* Its failures leave the status alone while a session is visible; those of the
\* scope and of the start come after the revision is recorded.
NotLaunched(a, p) ==
    LET told == IF a.active = Nothing THEN {"Starting", "Failed"} ELSE {a.status} IN
    IF a.upsets = UpsetBound THEN {}
    ELSE {Upset(a)} \cup {[Upset(a) EXCEPT !.status = t] : t \in told}
         \cup {[Upset(a) EXCEPT !.status = t, !.edited = @ \ {p}] : t \in told \ {"Starting"}}

SwitchSession(a, s) ==
    IF s \in a.live THEN {Activate(a, s)}
    ELSE NotLaunched(a, Home[s]) \cup {Activate(Launched(a, s), s)}

\* An empty visible session of the project is used again.
StartNewSession(a, p) ==
    LET b == [a EXCEPT !.selected = p]
        here == a.active # Nothing /\ Home[a.active] = p IN
    (IF here THEN {b} ELSE {})
    \cup IF here /\ a.selected # p THEN {}
         ELSE NotLaunched(b, p) \cup
              {Activate(Launched(b, s), s) : s \in {x \in Sessions \ a.live : Home[x] = p}}

\* The most recent live session, else the newest stored one, else a new one.
StartProject(a, p) ==
    LET alive == {s \in a.live : Home[s] = p}
        stored == {s \in Sessions : Home[s] = p} IN
    IF alive # {} THEN {Activate(a, s) : s \in alive}
    ELSE StartNewSession(a, p) \cup UNION {SwitchSession(a, s) : s \in stored}

StopProject(a, p) ==
    LET theirs == {s \in a.live : Home[s] = p} IN
    [Drop(a, theirs) EXCEPT !.status = IF a.active \in theirs THEN "Offline" ELSE @]

RestartSelectedProject(a) ==
    IF a.selected = Nothing THEN {a} ELSE StartProject(StopProject(a, a.selected), a.selected)

-----------------------------------------------------------------------------
(* Reloading the hooks of a project, once it is settled *)

Busy(a, p) ==
    \/ a.selected = p /\ a.status \in {"Streaming", "Compacting"}
    \/ \E s \in a.live : Home[s] = p /\ a.turn[s].running

RestartHooksIfSettled(a, p) ==
    IF p \notin a.reloads \/ Busy(a, p) THEN {a}
    ELSE LET b == StopProject([a EXCEPT !.reloads = @ \ {p}], p) IN
         IF a.selected = p THEN StartProject(b, p) ELSE {b}

RequestHookReload(a, p) == RestartHooksIfSettled([a EXCEPT !.reloads = @ \cup {p}], p)

-----------------------------------------------------------------------------
(* Sending a prompt *)

\* send_prompt, to a session that is pooled: a process that has gone may refuse it.
SendPrompt(a, s, c) ==
    {[a EXCEPT !.turn[s].running = TRUE, !.pi[s].in = @ \cup {"prompt"},
               !.status = IF a.active = s THEN "Streaming" ELSE @,
               !.sent[c.number] = Append(@, s)]}
    \cup IF a.pi[s].run = "gone" THEN {a} ELSE {}

\* apply_pending_model takes the model whether set_model succeeds or not.
ApplyModel(a) == [a EXCEPT !.model = FALSE]

\* A model switch waits for the old model to compact what there is to compact;
\* the conversation is on screen only, so whether it has replies is a choice.
DeferForCompaction(a, s, c) ==
    {[a EXCEPT !.turn[s].pending = c, !.turn[s].running = TRUE,
               !.pi[s].in = @ \cup {"compact"}, !.status = "Compacting"]}
    \cup IF a.pi[s].run = "gone" THEN {a} ELSE {}

SubmitPrompt(a, c) ==
    LET s == a.active
        p == a.selected IN
    IF ~CanSubmit(a) THEN {a}
    ELSE IF p \in a.edited
    THEN RequestHookReload([a EXCEPT !.held[p] = Append(@, c), !.parked = @ \cup {c.number}], p)
    ELSE SendPrompt(ApplyModel(a), s, c)
         \cup IF /\ c.kind = "prompt" /\ a.model /\ ~a.turn[s].compacted
              THEN DeferForCompaction(a, s, c) ELSE {}

\* One prompt after the other, each in whatever the one before it led to.
SubmitAll(as, prompts) ==
    LET after[n \in 0 .. Len(prompts)] ==
            IF n = 0 THEN as ELSE UNION {SubmitPrompt(a, prompts[n]) : a \in after[n - 1]}
    IN after[Len(prompts)]

\* Mutant: the prompts stay in the table when they are taken out of it.
FlushKeeping(a, s) ==
    IF s \notin a.live \/ a.held[Home[s]] = <<>> \/ ~CanSubmit(a) THEN {a}
    ELSE SubmitAll({a}, a.held[Home[s]])

\* flush_pending_hook_inputs: submit_prompt looks at the visible session, not at s.
FlushPendingHookInputs(a, s) ==
    IF s \notin a.live \/ a.held[Home[s]] = <<>> \/ ~CanSubmit(a) THEN {a}
    ELSE SubmitAll({[a EXCEPT !.held[Home[s]] = <<>>]}, a.held[Home[s]])

-----------------------------------------------------------------------------
(* Commands: what the window gives, and the control of the hooks *)

\* The application becomes one of the outcomes; what it sent goes to the history.
Becomes(outcomes, back) ==
    \E a \in outcomes :
        /\ app' = [a EXCEPT !.sent = NothingSent]
        /\ fate' = [n \in Numbers |->
            [to |-> fate[n].to \o a.sent[n],
             back |-> fate[n].back + IF n \in back THEN 1 ELSE 0]]

\* Mutant: any session that can take a prompt takes it.
RouteToAnySession(a, p) == CanSubmit(a)

\* prompt_route_is_current
RouteIsCurrent(a, p) == CanSubmit(a) /\ p = a.selected

\* What AppCommand c does: handle.
Handle(c) ==
    CASE c.kind \in Prompts -> SubmitPrompt(app, c)
      [] c.kind = "model" -> {[app EXCEPT !.model = TRUE]}
      [] c.kind = "settings" -> RestartSelectedProject(app)

\* execute_envelope: a prompt whose route is lost comes back to the composer.
Execute(c) ==
    IF c.kind \in Prompts /\ ~RouteIsCurrent(app, c.project)
    THEN Becomes({app}, {c.number}) ELSE Becomes(Handle(c), {})

\* Mutant: a command is taken while another one is in control.
BeginAnyway(h) ==
    IF h.waiting = <<>> THEN h
    ELSE [waiting |-> Tail(h.waiting), inControl |-> h.inControl \cup {Head(h.waiting)}]

\* OrderedControlQueue::begin_next
BeginNext(h) ==
    IF h.inControl # {} \/ h.waiting = <<>> THEN h
    ELSE [waiting |-> Tail(h.waiting), inControl |-> {Head(h.waiting)}]

\* handle_app_command and dispatch_envelope: a hook of the project controls the
\* command, or it is executed at once.  The route of a prompt is looked at twice:
\* a prompt whose route is lost already comes back before any control.
Give(kind, controlled) ==
    LET c == [number |-> Len(given) + 1, kind |-> kind, project |-> app.selected] IN
    /\ Len(given) < CommandBound
    /\ controlled => /\ app.selected # Nothing
                     /\ kind \in Prompts => RouteIsCurrent(app, app.selected)
    /\ given' = Append(given, app.selected)
    /\ IF controlled
       THEN /\ host' = BeginNext([host EXCEPT !.waiting = Append(@, c)])
            /\ UNCHANGED <<app, fate>>
       ELSE /\ UNCHANGED host
            /\ Execute(c)
    /\ UNCHANGED executed

\* finish_command_control, then start_next_command_control: the hook has answered.
Controlled(c, allowed) ==
    /\ c \in host.inControl
    /\ host' = BeginNext([host EXCEPT !.inControl = @ \ {c}])
    /\ IF allowed
       THEN /\ Execute(c)
            /\ executed' = Append(executed, c.number)
       ELSE /\ Becomes({app}, IF c.kind \in Prompts THEN {c.number} ELSE {})
            /\ UNCHANGED executed
    /\ UNCHANGED given

\* The commands no hook controls: the session or project opened, left or dropped.
Navigate(outcomes) ==
    /\ Becomes(outcomes, {})
    /\ UNCHANGED <<host, given, executed>>

OpenSession(s) == Navigate(SwitchSession(app, s))
OpenProject(p) == Navigate(StartProject(app, p))
NewSession(p) == Navigate(StartNewSession(app, p))

RemoveProject(p) ==
    /\ MayUpset
    /\ Navigate({StopProject(Upset(app), p)})

DeleteSession(s) ==
    /\ s \in app.live /\ MayUpset
    /\ Navigate({[Drop(Upset(app), {s}) EXCEPT !.status = IF app.active = s THEN "Offline" ELSE @]})

\* approve_project_hooks and revoke_project_hooks: the hooks of the project come or go, and
\* what is loaded departs from the recorded revision or returns to it.
ChangeTrust ==
    /\ app.selected # Nothing /\ MayUpset
    /\ \E edited \in {app.edited \cup {app.selected}, app.edited \ {app.selected}} :
          Navigate(RequestHookReload([Upset(app) EXCEPT !.edited = edited], app.selected))

\* A manifest of the project changes on disk.
EditHooks(p) ==
    /\ p \notin app.edited /\ MayUpset
    /\ \E s \in app.live : Home[s] = p
    /\ app' = [Upset(app) EXCEPT !.edited = @ \cup {p}]
    /\ UNCHANGED <<host, given, fate, executed>>

-----------------------------------------------------------------------------
(* What Pi tells, read by translate and apply_agent_event *)

SetStatus(a, s, status) == IF a.active = s THEN [a EXCEPT !.status = status] ELSE a

Took(s) == [app EXCEPT !.pi[s].out = Tail(@)]

Heard(s, event) ==
    /\ s \in app.live /\ app.pi[s].out # <<>> /\ Head(app.pi[s].out) = event
    /\ UNCHANGED <<host, given, executed>>

\* A pending reload first, then the prompts that waited for it.
HearReady(s) ==
    /\ Heard(s, "ready")
    /\ Becomes(UNION {FlushPendingHookInputs(a, s) :
                      a \in RestartHooksIfSettled(Took(s), Home[s])}, {})

\* A peer message makes the session busy, but only a user message or a reply begins a run.
HearPeer(s) ==
    /\ Heard(s, "peer")
    /\ Becomes({[Took(s) EXCEPT !.turn[s].running = TRUE]}, {})

HearUser(s) ==
    /\ Heard(s, "user")
    /\ Becomes({[Took(s) EXCEPT !.turn[s].running = TRUE, !.turn[s].inRun = TRUE]}, {})

HearAssistant(s) ==
    /\ Heard(s, "assistant")
    /\ Becomes({[Took(s) EXCEPT !.turn[s].running = TRUE, !.turn[s].inRun = TRUE,
                    !.turn[s].compacted = @ /\ app.active # s]}, {})

\* An empty reply is remembered until the turn ends; it shows at once where the reply did.
HearEmpty(s) ==
    /\ Heard(s, "empty")
    /\ LET a == [Took(s) EXCEPT !.turn[s].failed = TRUE] IN
       Becomes({a, SetStatus(a, s, "Failed")}, {})

\* The turn ends, well or with an empty reply.
HearSettled(s) ==
    /\ Heard(s, "settled")
    /\ LET a == [Took(s) EXCEPT !.turn[s].running = FALSE, !.turn[s].inRun = FALSE,
                                !.turn[s].failed = FALSE] IN
       Becomes(RestartHooksIfSettled(
           SetStatus(a, s, IF app.turn[s].failed THEN "Failed" ELSE "Ready"), Home[s]), {})

HearCompacting(s) ==
    /\ Heard(s, "compacting")
    /\ Becomes({SetStatus([Took(s) EXCEPT !.turn[s].running = TRUE], s, "Compacting")}, {})

\* In a run the session stays busy.  The prompt held back goes out either way, also
\* when the compaction failed.
HearCompacted(s) ==
    /\ Heard(s, "compacted")
    /\ \E failed \in BOOLEAN, benign \in BOOLEAN :
        LET turn == app.turn[s]
            done == [Took(s) EXCEPT !.turn[s] =
                       [turn EXCEPT !.running = @ /\ turn.inRun, !.compacted = ~failed,
                                    !.pending = Nothing]]
            a == SetStatus(done, s, IF turn.inRun THEN "Streaming"
                                    ELSE IF failed /\ ~benign THEN "Failed" ELSE "Ready") IN
        Becomes(IF turn.pending = Nothing THEN {a}
                ELSE SendPrompt(ApplyModel(a), s, turn.pending), {})

HearExited(s) ==
    /\ Heard(s, "exited")
    /\ Becomes({Drop(SetStatus(app, s, "Failed"), {s})}, {})

-----------------------------------------------------------------------------
(* Pi, as far as the application sees it *)

PiDoes(a, s, from, to, event, taken) ==
    /\ a.pi[s].run \in from
    /\ Len(a.pi[s].out) < PipeBound
    /\ app' = [a EXCEPT !.pi[s] = [run |-> to, out |-> Append(@.out, event), in |-> @.in \ taken]]
    /\ UNCHANGED <<host, given, fate, executed>>

Asked(s, what) == what \in app.pi[s].in

\* Its start, the end of a run and of a compaction follow from what was begun.
PiFinishes(s) ==
    \/ PiDoes(app, s, {"booting"}, "idle", "ready", {})
    \/ PiDoes(app, s, {"running"}, "idle", "settled", {})
    \/ PiDoes(app, s, {"compacting"}, "idle", "compacted", {})
    \/ PiDoes(app, s, {"pausing"}, "running", "compacted", {})

\* A prompt begins a run, or is taken up by the one there is; a peer message begins
\* one nobody asked for.
PiRuns(s) ==
    \/ Asked(s, "prompt") /\ PiDoes(app, s, {"idle", "running"}, "running", "user", {"prompt"})
    \/ MayUpset /\ PiDoes(Upset(app), s, {"idle"}, "running", "peer", {})

\* In a run the model replies; that a reply ends empty is an upset.
PiReplies(s) ==
    \/ PiDoes(app, s, {"running"}, "running", "assistant", {})
    \/ MayUpset /\ PiDoes(Upset(app), s, {"running"}, "running", "empty", {})

\* A compaction is asked for, or comes in the middle of a run.
PiCompacts(s) ==
    \/ Asked(s, "compact") /\ PiDoes(app, s, {"idle"}, "compacting", "compacting", {"compact"})
    \/ MayUpset /\ PiDoes(Upset(app), s, {"running"}, "pausing", "compacting", {})

PiExits(s) ==
    /\ MayUpset
    /\ PiDoes(Upset(app), s, {"booting", "idle", "running", "compacting", "pausing"},
              "gone", "exited", {})

RouteNext ==
    \/ \E kind \in Prompts \cup {"model", "settings"}, controlled \in BOOLEAN :
          Give(kind, controlled)
    \/ \E c \in host.inControl, allowed \in BOOLEAN : Controlled(c, allowed)
    \/ \E s \in Sessions : OpenSession(s)
    \/ \E p \in Projects : OpenProject(p)
    \/ \E p \in Projects : NewSession(p)
    \/ \E p \in Projects : RemoveProject(p)
    \/ \E s \in Sessions : DeleteSession(s)
    \/ ChangeTrust
    \/ \E p \in Projects : EditHooks(p)
    \/ \E s \in Sessions :
        \/ HearReady(s) \/ HearPeer(s) \/ HearUser(s) \/ HearAssistant(s) \/ HearEmpty(s)
        \/ HearSettled(s) \/ HearCompacting(s) \/ HearCompacted(s) \/ HearExited(s)
        \/ PiFinishes(s) \/ PiRuns(s) \/ PiReplies(s) \/ PiCompacts(s) \/ PiExits(s)

RouteSpec == RouteInit /\ [][RouteNext]_routeVars

-----------------------------------------------------------------------------
(* Correctness *)

\* Every field has its type; the visible session is a live one; a prompt is held,
\* or held back, by a project or a session it was given to.
RouteTypeOK ==
    /\ app.live \subseteq Sessions
    /\ app.active \in app.live \cup {Nothing}
    /\ app.selected \in Projects \cup {Nothing}
    /\ app.status \in {"Offline", "Starting", "Ready", "Streaming", "Compacting", "Failed"}
    /\ app.edited \subseteq Projects /\ app.reloads \subseteq Projects
    /\ \A s \in Sessions : app.pi[s] # Off => s \in app.live
    /\ Cardinality(host.inControl) <= 1
    /\ given \in Seq(Projects \cup {Nothing})

\* The commands the hooks control are executed in the order they were given
\* (OrderedControlQueue): an answer that comes early does not let one overtake.
InOrder == \A i, j \in DOMAIN executed : i < j => executed[i] < executed[j]

\* A prompt is answered for once: it goes to one Pi process, or comes back to the
\* composer, never both and never twice (execute_envelope, fail_submission, the
\* prompts held for a reload of the hooks, the prompt behind a compaction).
SettlesOnce == \A n \in Numbers : Len(fate[n].to) + fate[n].back <= 1

\* A prompt that was not held for a reload of the hooks goes to a session of the
\* project it was given in, however long a hook controlled it and whatever the user
\* opened meanwhile (prompt_route_is_current, can_submit_prompt).
DirectHome ==
    \A n \in Numbers \ app.parked : \A i \in DOMAIN fate[n].to : Home[fate[n].to[i]] = given[n]

\* The same of every prompt: "an active session from another project cannot receive
\* the prompt" (the test of that name in app.rs).
HomeProject ==
    \A n \in Numbers : \A i \in DOMAIN fate[n].to : Home[fate[n].to[i]] = given[n]

=============================================================================
