------------------------------- MODULE Delivery -------------------------------
(***************************************************************************)
(* What the outbox promises about an event, with no worker, lock or timeout *)
(* in sight: an event enqueued with a business transaction is owed; it is   *)
(* tried a bounded number of times, each try making the provider act at     *)
(* most once; it ends as done, and then the provider did act, or is given   *)
(* up, and then every try was spent; and it does end.                       *)
(***************************************************************************)
EXTENDS Naturals

CONSTANTS Event, MaxAttempts

VARIABLES
    outcome,    \* of every event
    tries,      \* tries begun
    acted       \* the tries in which the provider acted

vars == <<outcome, tries, acted>>

Init ==
    /\ outcome = [e \in Event |-> "none"]
    /\ tries = [e \in Event |-> 0]
    /\ acted = [e \in Event |-> {}]

Promise(e) ==
    /\ outcome[e] = "none"
    /\ outcome' = [outcome EXCEPT ![e] = "owed"]
    /\ UNCHANGED <<tries, acted>>

Try(e) ==
    /\ outcome[e] = "owed" /\ tries[e] < MaxAttempts
    /\ tries' = [tries EXCEPT ![e] = @ + 1]
    /\ UNCHANGED <<outcome, acted>>

\* A slow try may act after the event has ended.
Act(e) ==
    /\ \E n \in (1 .. tries[e]) \ acted[e] :
          acted' = [acted EXCEPT ![e] = @ \cup {n}]
    /\ UNCHANGED <<outcome, tries>>

Done(e) ==
    /\ outcome[e] = "owed" /\ acted[e] # {}
    /\ outcome' = [outcome EXCEPT ![e] = "done"]
    /\ UNCHANGED <<tries, acted>>

GiveUp(e) ==
    /\ outcome[e] = "owed" /\ tries[e] = MaxAttempts
    /\ outcome' = [outcome EXCEPT ![e] = "given up"]
    /\ UNCHANGED <<tries, acted>>

Next == \E e \in Event : Promise(e) \/ Try(e) \/ Act(e) \/ Done(e) \/ GiveUp(e)

Spec == Init /\ [][Next]_vars

Settles == \A e \in Event : outcome[e] = "owed" ~> outcome[e] \in {"done", "given up"}
=============================================================================
