---------------------------- MODULE SessionTitles ----------------------------
(***************************************************************************)
(* The name of a session: app.rs of pi-whim-app, with the service that     *)
(* makes titles (OneShot), Pi's own name of the session, and the index of  *)
(* sessions the sidebar shows.                                             *)
(*                                                                         *)
(* One session, which has a pi process or not.  Names come from its first  *)
(* prompt, from the service (automatically, or as a smart rename the user  *)
(* asks for), from the user, and from Pi; Pi reports each change of its    *)
(* name, later and in order.  The application runs on one thread: each     *)
(* handler is one step, except where Pi or a worker can act in between.    *)
(***************************************************************************)
EXTENDS OneShot

CONSTANTS
    Fallback,       \* fallback_session_title of the first prompt
    Preview,        \* what the session is called for want of a name
    UserNames,      \* names users type
    MaxTokens,      \* a bound on how often the session's process is started
    MaxExpected,    \* MAX_EXPECTED_SESSION_TITLE_NAMES
    MaxChanges,     \* a bound on renames, new settings and ends of the process,
    MaxEvents       \* and one on these and the requests together

Names == Generated \cup UserNames \cup {Fallback, Preview}
Sources == {"automatic", "smart"}
Rows == [title : Names, ai : Names \cup {Nil}, manual : Names \cup {Nil}]
Asks == [target : Nat, generation : Services, baseline : Names, source : Sources]
Titles == [title : Generated, source : Sources]

TitlesAssumption ==
    /\ OneShotAssumption
    /\ MaxTokens \in Nat \ {0} /\ MaxExpected \in Nat \ {0} /\ MaxChanges \in Nat /\ MaxEvents \in Nat
    /\ Nil \notin Nat \cup Names \cup Rows \cup Asks \cup Titles

Stored == 0      \* what is asked for a session without a process: no token

VARIABLES
    generation, \* one_shot_generation
    service,    \* of this generation: "resolving" its key, "open", or "none"
    started,    \* tokens given out
    live,       \* the token of the session's process, Nil if it has none
    prompted,   \* the session has had a prompt
    written,    \* its file has it
    name,       \* Pi's name of the session
    row,        \* its row in the store: names by source
    sidebar,    \* the title shown
    echoes,     \* names Pi reports, the oldest first
    expected,   \* expected_session_title_names of the process
    deferred,   \* the token whose title waits for a service
    pending,    \* pending_session_titles
    submitted,  \* the last request accepted: ids are random, here they are counted
    applying,   \* the title that has passed the look at Pi's state and is being set
    reading,    \* the title whose smart rename waits for the transcript
    changes,    \* a bound: renames, new settings and ended processes so far
    chosen,     \* history: the name the user gave last, unless another source came after
    unheard     \* history: a name went unheard, for the process ended or told nothing more

appVars == <<generation, service, started, live, prompted, written, name, row, sidebar, echoes,
             expected, deferred, pending, submitted, applying, reading, changes, chosen, unheard>>
titlesVars == <<serviceVars, appVars>>

\* The session is new and its process started, or it is one of the index.
TitlesInit ==
    /\ ServiceInit
    /\ generation = 1 /\ service = "resolving"
    /\ \E stored \in BOOLEAN :
         /\ prompted = stored /\ written = stored
         /\ started = IF stored THEN 0 ELSE 1
         /\ live = IF stored THEN Nil ELSE 1
         /\ row = IF stored THEN [title |-> Preview, ai |-> Nil, manual |-> Nil] ELSE Nil
         /\ sidebar = IF stored THEN Preview ELSE Nil
    /\ name = Nil
    /\ echoes = <<>> /\ expected = <<>>
    /\ deferred = Nil /\ applying = Nil /\ reading = Nil
    /\ pending = [r \in Requests |-> Nil] /\ submitted = 0
    /\ changes = 0 /\ chosen = Nil /\ unheard = FALSE

MayAsk == submitted < MaxRequests /\ submitted + changes < MaxEvents
Changed ==
    /\ changes < MaxChanges /\ submitted + changes < MaxEvents
    /\ changes' = changes + 1

\* The application's thread is between two handlers.
Ready == applying = Nil /\ cancelling = {}

-----------------------------------------------------------------------------
(* The index of sessions *)

\* Mutant: a generated name comes before one given by hand.
ShownGeneratedFirst(w) ==
    IF w = Nil THEN Nil
    ELSE IF w.ai # Nil THEN w.ai
    ELSE IF w.manual # Nil THEN w.manual ELSE w.title

\* list_sessions: names given by hand come first, then generated ones.
Shown(w) ==
    IF w = Nil THEN Nil
    ELSE IF w.manual # Nil THEN w.manual
    ELSE IF w.ai # Nil THEN w.ai ELSE w.title

\* session_summary_from_jsonl and save_session; a file without a prompt is no session.
Saved(w, n, inFile) ==
    IF ~inFile THEN Nil
    ELSE IF w = Nil THEN [title |-> n, ai |-> Nil, manual |-> Nil]
    ELSE [w EXCEPT !.title = n]

\* index_session, with what was stored of the names just before; the sidebar is read anew.
IndexSession(w, n, inFile) ==
    /\ row' = Saved(w, n, inFile)
    /\ sidebar' = Shown(Saved(w, n, inFile))

\* persist_session_title_source updates a row that is there.
WithManual(w, n) == IF w = Nil THEN Nil ELSE [w EXCEPT !.manual = n]
WithAi(w, n) == IF w = Nil THEN Nil ELSE [w EXCEPT !.ai = n]

-----------------------------------------------------------------------------
(* Asking for titles *)

\* expect_session_title_name
Expecting(names, n) ==
    Append(IF Len(names) < MaxExpected THEN names ELSE Tail(names), n)

\* try_submit of the next request, while the others in asked stay waited for.
SubmitRequest(asked, target, baseline, source) ==
    LET r == submitted + 1 IN
    /\ Accept(generation, r)
    /\ submitted' = r
    /\ pending' = [asked EXCEPT ![r] = [target |-> target, generation |-> generation,
                                       baseline |-> baseline, source |-> source]]

\* schedule_session_title: a title that is refused changes nothing, for what would be set
\* instead is the name the session has.
Schedule(target, baseline, source) ==
    \/ /\ Admits(generation)
       /\ SubmitRequest(pending, target, baseline, source)
       /\ UNCHANGED <<cancelled, work, cancelling, answers>>
    \/ /\ ~Admits(generation)
       /\ UNCHANGED <<serviceVars, pending, submitted>>

\* perform_submission and start_session_title: Pi is told the fallback, a better one is asked
\* for.  By then Pi may have written the prompt, or not.
FirstPrompt ==
    /\ Ready
    /\ live # Nil /\ ~prompted
    /\ MayAsk
    /\ prompted' = TRUE
    /\ name' = Fallback
    /\ echoes' = Append(echoes, Fallback)
    /\ expected' = Expecting(expected, Fallback)
    /\ \E w \in BOOLEAN : written' = w /\ IndexSession(row, Fallback, w)
    /\ IF service = "open"
       THEN Schedule(live, Fallback, "automatic") /\ UNCHANGED deferred
       ELSE deferred' = live /\ UNCHANGED <<serviceVars, pending, submitted>>
    /\ chosen' = Nil
    /\ UNCHANGED <<generation, service, started, live, applying, reading, changes, unheard>>

\* Pi does not take the name: nothing is asked for.
FirstPromptRefused ==
    /\ Ready
    /\ live # Nil /\ ~prompted
    /\ prompted' = TRUE
    /\ UNCHANGED <<serviceVars, generation, service, started, live, written, name, row, sidebar,
                   echoes, expected, deferred, pending, submitted, applying, reading, changes,
                   chosen, unheard>>

\* cancel_pending_titles_for_path: of the session's process, and of the session without one.
OfSession(r) == pending[r] # Nil /\ pending[r].target \in {live, Stored}
Unscheduled(rs) == [r \in Requests |-> IF r \in rs THEN Nil ELSE pending[r]]
Cancel(rs) ==
    /\ pending' = Unscheduled(rs)
    /\ IF service = "open" THEN FindActive(generation, rs) ELSE UNCHANGED cancelling
    /\ UNCHANGED <<slots, queue, admitted, cancelled, work, answers>>

\* Mutant: the session's requests stay.
CancelNothing == Cancel({})

CancelForPath == Cancel({r \in Requests : OfSession(r)})

\* cancel_pending_title: of the process alone.
CancelOfProcess == Cancel({r \in Requests : pending[r] # Nil /\ pending[r].target = live})

\* rebuild_one_shot_ai: requests of the old settings are given up, its service shuts down.
Rebuild ==
    /\ Ready
    /\ Changed
    /\ generation < MaxGeneration
    /\ generation' = generation + 1
    /\ service' = "resolving"
    /\ pending' = Unscheduled(Requests)
    /\ UNCHANGED <<serviceVars, started, live, prompted, written, name, row, sidebar, echoes,
                   expected, deferred, submitted, applying, reading, chosen, unheard>>

\* settle_one_shot_install and submit_deferred_session_titles; other generations' are ignored.
Install ==
    /\ Ready
    /\ service = "resolving"
    /\ service' = "open"
    /\ deferred' = Nil
    /\ IF deferred # Nil /\ deferred = live /\ Fallback \in ToSet(expected)
       THEN MayAsk /\ Schedule(live, Fallback, "automatic")
       ELSE UNCHANGED <<serviceVars, pending, submitted>>
    /\ UNCHANGED <<generation, started, live, prompted, written, name, row, sidebar, echoes,
                   expected, applying, reading, changes, chosen, unheard>>

NotResolved ==
    /\ Ready
    /\ service = "resolving"
    /\ service' = "none"
    /\ UNCHANGED <<serviceVars, generation, started, live, prompted, written, name, row, sidebar,
                   echoes, expected, deferred, pending, submitted, applying, reading, changes,
                   chosen, unheard>>

\* The user asks for a smart rename of the title shown; the transcript is read elsewhere.
AskSmart ==
    /\ Ready
    /\ reading = Nil
    /\ sidebar # Nil
    /\ reading' = sidebar
    /\ UNCHANGED <<serviceVars, generation, service, started, live, prompted, written, name, row,
                   sidebar, echoes, expected, deferred, pending, submitted, applying, changes,
                   chosen, unheard>>

\* start_smart_session_rename: of a transcript with something in it.  What it replaces is
\* cancelled; that mark may come after the new request.
StartSmart ==
    /\ Ready
    /\ reading # Nil
    /\ reading' = Nil
    /\ \E context \in BOOLEAN :
       IF sidebar = reading /\ context /\ service = "open"
       THEN /\ MayAsk
            /\ LET old == {r \in Requests : OfSession(r)} IN
               IF Admits(generation)
               THEN /\ SubmitRequest(Unscheduled(old), IF live = Nil THEN Stored ELSE live, reading,
                              "smart")
                    /\ FindActive(generation, old)
                    /\ UNCHANGED <<cancelled, work, answers>>
                    /\ chosen' = Nil
               ELSE Cancel(old) /\ UNCHANGED <<submitted, chosen>>
            /\ expected' = IF live = Nil THEN expected ELSE <<>>
            /\ deferred' = IF deferred = live THEN Nil ELSE deferred
       ELSE UNCHANGED <<serviceVars, pending, submitted, expected, deferred, chosen>>
    /\ UNCHANGED <<generation, service, started, live, prompted, written, name, row, sidebar,
                   echoes, applying, changes, unheard>>

-----------------------------------------------------------------------------
(* Titles that arrive *)

\* What has to hold for a title to be set: a smart rename goes by the title shown, an automatic
\* one by Pi's own.
StillNamed(ask) ==
    IF ask.source = "automatic" /\ name # Nil THEN name = ask.baseline
    ELSE sidebar = ask.baseline

Wanted(ask, title) ==
    /\ title \in Generated
    /\ title # ask.baseline
    /\ \/ ask.target = Stored /\ sidebar = ask.baseline
       \/ ask.target # Stored /\ ask.target = live
    /\ live = Nil \/ StillNamed(ask)

\* settle_one_shot_completions: nobody may be waiting any more; failures change nothing.
Settle ==
    LET answer == Head(answers)
        ask == pending[answer.request] IN
    /\ Ready
    /\ answers # <<>>
    /\ answers' = Tail(answers)
    /\ pending' = Unscheduled({answer.request})
    /\ IF ask # Nil /\ answer.generation = generation /\ Wanted(ask, answer.result)
       THEN IF live = Nil
            THEN /\ name' = answer.result
                 /\ IndexSession(WithManual(row, answer.result), answer.result, written)
                 /\ UNCHANGED applying
            ELSE /\ applying' = [title |-> answer.result, source |-> ask.source]
                 /\ UNCHANGED <<name, row, sidebar>>
       ELSE UNCHANGED <<name, row, sidebar, applying>>
    /\ UNCHANGED <<slots, queue, admitted, cancelled, work, cancelling, generation, service,
                   started, live, prompted, written, echoes, expected, deferred, submitted,
                   reading, changes, chosen, unheard>>

\* The rest of apply_live_session_title, by when Pi may have taken another name.
ApplyTitle ==
    LET title == applying.title IN
    /\ applying # Nil
    /\ applying' = Nil
    /\ name' = title
    /\ echoes' = Append(echoes, title)
    /\ expected' = Expecting(expected, title)
    /\ IndexSession(IF applying.source = "automatic" THEN WithAi(row, title)
                    ELSE WithManual(row, title), title, written)
    /\ UNCHANGED <<serviceVars, generation, service, started, live, prompted, written, deferred,
                   pending, submitted, reading, changes, chosen, unheard>>

TitleRefused ==
    /\ applying # Nil
    /\ applying' = Nil
    /\ UNCHANGED <<serviceVars, generation, service, started, live, prompted, written, name, row,
                   sidebar, echoes, expected, deferred, pending, submitted, reading, changes,
                   chosen, unheard>>

-----------------------------------------------------------------------------
(* Names given by hand, and in Pi *)

\* rename_session: through the process, or in the file.  The sidebar is read before the name is
\* stored as given by hand.
Rename(n) ==
    /\ Ready
    /\ Changed
    /\ live # Nil \/ sidebar # Nil
    /\ CancelForPath
    /\ deferred' = IF deferred = live THEN Nil ELSE deferred
    /\ expected' = IF live = Nil THEN expected ELSE <<n>>
    /\ name' = n
    /\ echoes' = IF live = Nil THEN echoes ELSE Append(echoes, n)
    /\ LET saved == Saved(row, n, written) IN
       row' = WithManual(saved, n) /\ sidebar' = Shown(saved)
    /\ chosen' = n
    /\ unheard' = FALSE
    /\ UNCHANGED <<generation, service, started, live, prompted, written, submitted, applying,
                   reading>>

\* Pi does not take the name: the requests are cancelled all the same.
RenameRefused ==
    /\ Ready
    /\ live # Nil
    /\ CancelForPath
    /\ expected' = <<>>
    /\ deferred' = IF deferred = live THEN Nil ELSE deferred
    /\ UNCHANGED <<generation, service, started, live, prompted, written, name, row, sidebar,
                   echoes, submitted, applying, reading, changes, chosen, unheard>>

\* Something in Pi gives the session a name.
RenameInPi(n) ==
    /\ live # Nil
    /\ Changed
    /\ name' = n
    /\ echoes' = Append(echoes, n)
    /\ chosen' = Nil
    /\ UNCHANGED <<serviceVars, generation, service, started, live, prompted, written, row,
                   sidebar, expected, deferred, pending, submitted, applying, reading, unheard>>

\* Effect::RenameSessionFile: a name that was not expected, and is not shown, has been given
\* by hand.
HearName ==
    LET n == Head(echoes)
        byHand == n \notin ToSet(expected) /\ sidebar # n IN
    /\ Ready
    /\ echoes # <<>>
    /\ echoes' = Tail(echoes)
    /\ IF byHand
       THEN /\ CancelOfProcess
            /\ expected' = <<>>
            /\ deferred' = IF deferred = live THEN Nil ELSE deferred
            /\ IndexSession(WithManual(row, n), n, written)
       ELSE /\ expected' = RemoveFirst(expected, n)
            /\ IndexSession(row, n, written)
            /\ UNCHANGED <<serviceVars, pending, deferred>>
    /\ UNCHANGED <<generation, service, started, live, prompted, written, name, submitted,
                   applying, reading, changes, chosen, unheard>>

\* The same when the process does not say where the session is and how it is called: the name
\* is expected no longer, and nothing more is done about it.
HearNameUnread ==
    /\ Ready
    /\ echoes # <<>>
    /\ echoes' = Tail(echoes)
    /\ expected' = RemoveFirst(expected, Head(echoes))
    /\ unheard' = (unheard \/ chosen # Nil)
    /\ UNCHANGED <<serviceVars, generation, service, started, live, prompted, written, name, row,
                   sidebar, deferred, pending, submitted, applying, reading, changes, chosen>>

\* Effect::SyncSessionFile
SyncSessionFile ==
    /\ Ready
    /\ live # Nil
    /\ IndexSession(row, IF name = Nil THEN Preview ELSE name, written)
    /\ UNCHANGED <<serviceVars, generation, service, started, live, prompted, written, name,
                   echoes, expected, deferred, pending, submitted, applying, reading, changes,
                   chosen, unheard>>

PiWrites ==
    /\ live # Nil
    /\ prompted /\ ~written
    /\ written' = TRUE
    /\ UNCHANGED <<serviceVars, generation, service, started, live, prompted, name, row, sidebar,
                   echoes, expected, deferred, pending, submitted, applying, reading, changes,
                   chosen, unheard>>

-----------------------------------------------------------------------------
(* The session's process *)

Ended ==
    /\ Changed
    /\ live' = Nil
    /\ echoes' = <<>>
    /\ expected' = <<>>
    /\ unheard' = (unheard \/ echoes # <<>>)
    /\ UNCHANGED <<generation, service, started, prompted, written, name, row, sidebar,
                   submitted, applying, reading, chosen>>

\* RuntimeEvent::Exited
Exit ==
    /\ Ready
    /\ live # Nil
    /\ CancelOfProcess
    /\ deferred' = IF deferred = live THEN Nil ELSE deferred
    /\ Ended

\* stop_project_runtimes forgets the process, but not what waits for it.
Forgotten ==
    /\ Ready
    /\ live # Nil
    /\ Ended
    /\ UNCHANGED <<serviceVars, pending, deferred>>

\* launch_session, of a session that has a file.
Launch ==
    /\ Ready
    /\ live = Nil /\ written
    /\ started < MaxTokens
    /\ started' = started + 1
    /\ live' = started + 1
    /\ UNCHANGED <<serviceVars, generation, service, prompted, written, name, row, sidebar,
                   echoes, expected, deferred, pending, submitted, applying, reading, changes,
                   chosen, unheard>>

-----------------------------------------------------------------------------
\* The application's mark for cancelled requests.
MarkCancelled == Mark(generation) /\ UNCHANGED appVars

Working(w) == \E g \in Services : PoolSteps(g, w) /\ UNCHANGED appVars

TitlesNext ==
    \/ FirstPrompt \/ FirstPromptRefused \/ Rebuild \/ Install \/ NotResolved
    \/ AskSmart \/ StartSmart \/ Settle \/ ApplyTitle \/ TitleRefused
    \/ \E n \in UserNames : Rename(n) \/ RenameInPi(n)
    \/ RenameRefused \/ HearName \/ HearNameUnread \/ SyncSessionFile \/ PiWrites
    \/ Exit \/ Forgotten \/ Launch
    \/ MarkCancelled \/ \E w \in Workers : Working(w)

TitlesSpec == TitlesInit /\ [][TitlesNext]_titlesVars

\* Workers run (requests have deadlines), and the application handles what is sent to it.
Handled == Settle \/ HearName \/ HearNameUnread \/ ApplyTitle \/ TitleRefused \/ MarkCancelled

-----------------------------------------------------------------------------
TitlesTypeOK ==
    /\ ServiceTypeOK
    /\ submitted \in 0 .. MaxRequests
    /\ generation \in Services
    /\ service \in {"resolving", "open", "none"}
    /\ started \in 0 .. MaxTokens /\ live \in (1 .. started) \cup {Nil}
    /\ prompted \in BOOLEAN /\ written \in BOOLEAN /\ unheard \in BOOLEAN
    /\ name \in Names \cup {Nil} /\ sidebar \in Names \cup {Nil}
    /\ row \in Rows \cup {Nil}
    /\ echoes \in Seq(Names)
    /\ expected \in Seq(Names) /\ Len(expected) <= MaxExpected
    /\ deferred \in (1 .. started) \cup {Nil}
    /\ pending \in [Requests -> Asks \cup {Nil}]
    /\ \A r \in Requests : pending[r] # Nil =>
         pending[r].target <= started /\ pending[r].generation = generation /\ r <= submitted
    /\ applying \in Titles \cup {Nil} /\ (applying # Nil => live # Nil)
    /\ reading \in Names \cup {Nil}
    /\ changes \in 0 .. MaxChanges
    /\ chosen \in UserNames \cup {Nil}

\* A title that is waited for is being made, by the service of the present settings: its request
\* is in the channel, at a worker, or answered and on its way.
WaitedIsUnderWay ==
    \A r \in Requests : pending[r] # Nil =>
        \/ r \in ToSet(queue[generation])
        \/ \E w \in Workers :
             work[generation][w].pc # "free" /\ work[generation][w].request = r
        \/ \E i \in 1 .. Len(answers) :
             answers[i].request = r /\ answers[i].generation = generation

\* The name the user gave last stays Pi's name of the session, and once Pi has reported all names
\* the store shows it, too: no title that was on its way, deferred or being cancelled when it was
\* given replaces it, and no late report of an older name has the last word.  (Unless another
\* source named the session after, or its process ended before Pi had reported all names or did
\* not answer when asked about one.)
ChosenStands ==
    chosen # Nil =>
        /\ name = chosen
        /\ row # Nil /\ ~unheard /\ echoes = <<>> => Shown(row) = chosen

\* In the end, no title that was asked for is still waited for; and the name the user gave last
\* is the session's, in Pi and in the store, whatever titles, reports and cancellations were
\* under way when it was given: unless another source named the session after, or its process
\* ended before Pi had reported the name, or did not answer when asked about it.
UserNameWins ==
    <>[](/\ \A r \in Requests : pending[r] = Nil
         /\ chosen # Nil =>
              /\ name = chosen
              /\ row # Nil /\ ~unheard => Shown(row) = chosen)
=============================================================================
