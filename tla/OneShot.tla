------------------------------- MODULE OneShot -------------------------------
(***************************************************************************)
(* The pool that answers short AI requests: service.rs of                  *)
(* pi-whim-one-shot-ai.  Each generation of the settings has a service of  *)
(* its own, with a bounded number of admission slots, a channel, worker    *)
(* threads, and the sets of active and cancelled requests, each behind a   *)
(* mutex of its own.  Requests are submitted and cancelled by one thread,  *)
(* the application's; workers finish what was accepted, also after a       *)
(* shutdown.  Time is not a variable: at any look a request may be late.   *)
(* Two steps of a worker are one where no other thread can act on what is  *)
(* between them: taking a request and the first look at it, and dropping   *)
(* its mark and sending its completion.                                    *)
(***************************************************************************)
EXTENDS Naturals, Sequences, FiniteSets, SequencesExt

CONSTANTS
    MaxRequests,    \* a bound on how many requests are submitted
    Workers,        \* worker threads of a service: max_concurrency of them
    MaxWaiting,     \* queue_capacity
    MaxGeneration,  \* a bound on how often the settings change
    Generated,      \* titles a provider may answer with
    Nil

Failed == "failed"      \* by the provider, late or cancelled: what is reported differs

OneShotAssumption ==
    /\ IsFiniteSet(Workers) /\ Workers # {}
    /\ MaxWaiting \in Nat
    /\ MaxGeneration \in Nat \ {0}
    /\ MaxRequests \in Nat
    /\ Failed \notin Generated
    /\ Nil \notin Workers \cup Generated \cup {Failed}

Services == 1 .. MaxGeneration
Requests == 1 .. MaxRequests        \* their ids, each used once
Admissible == Cardinality(Workers) + MaxWaiting

VARIABLES
    slots,      \* slots[g]: admission_slots
    queue,      \* queue[g]: the channel to the workers
    admitted,   \* admitted[g]: the active set
    cancelled,  \* cancelled[g]
    work,       \* work[g][w]: what the worker does
    cancelling, \* requests the application's cancel has found active and not yet marked
    answers     \* completions on their way to the application, through any service's channel

serviceVars == <<slots, queue, admitted, cancelled, work, cancelling, answers>>

Task(pc, r, result) == [pc |-> pc, request |-> r, result |-> result]
Free == Task("free", Nil, Nil)

ServiceInit ==
    /\ slots = [g \in Services |-> Admissible]
    /\ queue = [g \in Services |-> <<>>]
    /\ admitted = [g \in Services |-> {}]
    /\ cancelled = [g \in Services |-> {}]
    /\ work = [g \in Services |-> [w \in Workers |-> Free]]
    /\ cancelling = {}
    /\ answers = <<>>

\* try_submit of r.  The channel has room for whoever has a slot.
Admits(g) == slots[g] > 0
Accept(g, r) ==
    /\ slots' = [slots EXCEPT ![g] = @ - 1]
    /\ queue' = [queue EXCEPT ![g] = Append(@, r)]
    /\ admitted' = [admitted EXCEPT ![g] = @ \cup {r}]

\* cancel, in two critical sections: what is active is looked up,
FindActive(g, rs) == cancelling' = rs \cap admitted[g]

\* and marked.
Mark(g) ==
    /\ cancelling # {}
    /\ cancelled' = [cancelled EXCEPT ![g] = @ \cup cancelling]
    /\ cancelling' = {}
    /\ UNCHANGED <<slots, queue, admitted, work, answers>>

-----------------------------------------------------------------------------
(* worker_loop *)

Step(g, w, from, to) ==
    /\ work[g][w].pc = from
    /\ work' = [work EXCEPT ![g][w].pc = to]

\* The next request, which nobody sees leave the channel before the first look at it: process
\* gives it up if it is cancelled or late,
Take(g, w) ==
    /\ work[g][w].pc = "free"
    /\ queue[g] # <<>>
    /\ queue' = [queue EXCEPT ![g] = Tail(@)]
    /\ UNCHANGED <<slots, admitted, cancelled, cancelling, answers>>

GiveUp(g, w) ==
    /\ Take(g, w)
    /\ work' = [work EXCEPT ![g][w] = Task("release", Head(queue[g]), Failed)]

\* and else executes it,
Execute(g, w) ==
    /\ Take(g, w)
    /\ Head(queue[g]) \notin cancelled[g]
    /\ \E out \in Generated \cup {Failed} :
        work' = [work EXCEPT ![g][w] = Task("check", Head(queue[g]), out)]

\* and looks again whether the result is still wanted, and in time.
Check(g, w) ==
    /\ work[g][w].pc = "check"
    /\ \E out \in {work[g][w].result, Failed} :
        /\ work[g][w].request \in cancelled[g] => out = Failed
        /\ work' = [work EXCEPT ![g][w].pc = "release", ![g][w].result = out]
    /\ UNCHANGED <<slots, queue, admitted, cancelled, cancelling, answers>>

Release(g, w) ==
    /\ Step(g, w, "release", "forget")
    /\ slots' = [slots EXCEPT ![g] = @ + 1]
    /\ UNCHANGED <<queue, admitted, cancelled, cancelling, answers>>

Forget(g, w) ==
    /\ Step(g, w, "forget", "answer")
    /\ admitted' = [admitted EXCEPT ![g] = @ \ {work[g][w].request}]
    /\ UNCHANGED <<slots, queue, cancelled, cancelling, answers>>

\* The completion goes through the service's channel and a forwarding thread.
Answer(g, w) ==
    /\ work[g][w].pc = "answer"
    /\ cancelled' = [cancelled EXCEPT ![g] = @ \ {work[g][w].request}]
    /\ answers' = Append(answers, [request |-> work[g][w].request, generation |-> g,
                                   result |-> work[g][w].result])
    /\ work' = [work EXCEPT ![g][w] = Free]
    /\ UNCHANGED <<slots, queue, admitted, cancelling>>

PoolSteps(g, w) ==
    GiveUp(g, w) \/ Execute(g, w) \/ Check(g, w) \/ Release(g, w) \/ Forget(g, w) \/ Answer(g, w)

-----------------------------------------------------------------------------
\* Workers that hold a slot.
Holding(g) == {w \in Workers : work[g][w].pc \in {"check", "release"}}

\* A slot is free, of a request in the channel, or in a worker's hands: never lost, never one
\* too many, so that the channel always has room for who has been admitted.
SlotsExact == \A g \in Services : slots[g] + Len(queue[g]) + Cardinality(Holding(g)) = Admissible

ServiceTypeOK ==
    /\ slots \in [Services -> 0 .. Admissible]
    /\ queue \in [Services -> Seq(Requests)]
    /\ admitted \in [Services -> SUBSET Requests]
    /\ cancelled \in [Services -> SUBSET Requests]
    /\ work \in [Services -> [Workers ->
                    [pc : {"free", "check", "release", "forget", "answer"},
                     request : Requests \cup {Nil},
                     result : Generated \cup {Failed, Nil}]]]
    /\ cancelling \subseteq Requests
    /\ answers \in Seq([request : Requests, generation : Services,
                        result : Generated \cup {Failed}])
    /\ SlotsExact
=============================================================================
