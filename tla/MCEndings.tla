------------------------------ MODULE MCEndings ------------------------------
(* The components in which what was begun must come to an end, in small instances: background
   jobs, hooks, and the naming of a session.  A behaviour is one of the components', so that
   one run of TLC explores them side by side.  The definitions of the three modules all have
   names of their own. *)
EXTENDS HookHost, BackgroundJobs, SessionTitles, TLC

CONSTANT a1

VARIABLE part   \* the component whose behaviour this is

hooksVars == vars
allVars == <<part, jobsVars, hooksVars, titlesVars>>

\* One child of the root.
MCParent == a1 :> Root

ASSUME
    /\ JobsAssumption
    /\ HookAssumption
    /\ TitlesAssumption

AnyInit ==
    /\ part \in {"jobs", "hooks", "titles"}
    /\ JobsInit
    /\ Init
    /\ TitlesInit
    /\ part # "titles" => live = Nil

InJobs(A) == part = "jobs" /\ A /\ UNCHANGED <<part, hooksVars, titlesVars>>
InHooks(A) == part = "hooks" /\ A /\ UNCHANGED <<part, jobsVars, titlesVars>>
InTitles(A) == part = "titles" /\ A /\ UNCHANGED <<part, jobsVars, hooksVars>>

AnyNext == InJobs(JobsNext) \/ InHooks(Next) \/ InTitles(TitlesNext)

\* Fairness of BackgroundJobs, of HookHost and of SessionTitles, each in its own behaviours.
AnyFairSpec ==
    /\ AnyInit /\ [][AnyNext]_allVars
    /\ \A j \in Jobs :
         /\ WF_jobsVars(InJobs(CallSteps(j)))
         /\ WF_jobsVars(InJobs(ReaperSteps(j)))
         /\ WF_jobsVars(InJobs(TimesOut(j)))
         /\ WF_jobsVars(InJobs(Terminate(j)))
    /\ \A t \in Threads : WF_hooksVars(InHooks(ThreadSteps(t)))
    /\ \A g \in Generations : WF_hooksVars(InHooks(WorkerSteps(g)))
    /\ WF_titlesVars(InTitles(Handled))
    /\ \A w \in Workers : WF_titlesVars(InTitles(Working(w)))

-----------------------------------------------------------------------------
\* The state of the components is of the kind their modules say.
PartsTypeOK ==
    /\ part = "jobs" => JobsTypeOK
    /\ part = "hooks" => TypeOK
    /\ part = "titles" => TitlesTypeOK

\* What was begun ends: background processes (JobsEnd), and the processes and workers of hooks
\* that were stopped (RevokeEnds).
WorkEnds == JobsEnd /\ RevokeEnds

\* The other properties are the components' own; in behaviours of another component their state
\* is the initial one.
=============================================================================
