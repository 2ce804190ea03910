----------------------------- MODULE MCServices -----------------------------
(* Four components that share no state, in small instances: a behaviour is one of the
   components', so that one run of TLC explores them side by side.  Each module names its
   definitions apart from the others', so that they are extended here and the run checks
   their own properties, those their theorems are about. *)
EXTENDS Interactions, StateSignal, PromptRoute, RootMail, TLC

CONSTANTS
    a1, a2, rm, cp, t1, t2, p1, p2, s1, s2, r1, r2, m1, m2

VARIABLES
    part    \* the component whose behaviour this is

interactionsVars == vars
allVars == <<part, interactionsVars, signalVars, routeVars, mailVars>>

\* A child of the root and its own child.
MCParent == a1 :> Root @@ a2 :> a1
MCAbove == a1 :> {Root} @@ a2 :> {Root, a1}
\* Two projects of one session each.
MCHome == s1 :> p1 @@ s2 :> p2

ASSUME TreeAssumption /\ SignalAssumption /\ RouteAssumption /\ MailAssumption

AnyInit ==
    /\ part \in {"interactions", "signal", "prompts", "mail"}
    /\ Init
    /\ SignalInit
    /\ RouteInit
    /\ MailInit

AnyNext ==
    /\ UNCHANGED part
    /\ \/ part = "interactions" /\ Next /\ UNCHANGED <<signalVars, routeVars, mailVars>>
       \/ part = "signal" /\ SignalNext /\ UNCHANGED <<interactionsVars, routeVars, mailVars>>
       \/ part = "prompts" /\ RouteNext /\ UNCHANGED <<interactionsVars, signalVars, mailVars>>
       \/ part = "mail" /\ MailNext /\ UNCHANGED <<interactionsVars, signalVars, routeVars>>

AnySpec == AnyInit /\ [][AnyNext]_allVars

\* Threads are alike, operations are, and the two projects, each with its session; and of
\* the mail the roots, and the messages.  What is alike in one component
\* and in another is permuted at once.
Symmetry ==
    Permutations({t1, t2})
    \cup {rm :> cp @@ cp :> rm @@ r1 :> r2 @@ r2 :> r1}
    \cup {p1 :> p2 @@ p2 :> p1 @@ s1 :> s2 @@ s2 :> s1 @@ m1 :> m2 @@ m2 :> m1}

-----------------------------------------------------------------------------
\* The state of every component is of the kind its module says; that of the components
\* whose behaviour this is not stays the initial one.
PartsTypeOK == TypeOK /\ SignalTypeOK /\ RouteTypeOK /\ MailTypeOK
=============================================================================
