---------------------------- MODULE MCAccounts ----------------------------
(***************************************************************************)
(* What a user does with an account, in small instances: the sessions of     *)
(* one account, the conversation of one booking, and a support thread that   *)
(* two members of staff claim from each other.  They share no document, so   *)
(* in each behaviour one of them is at work and the others rest.             *)
(***************************************************************************)
EXTENDS Sessions, Chat, TLC

CONSTANTS n1, n2, a1, a2, q, m1

VARIABLE part   \* what is at work

vars == <<part, sessionVars, chatVars>>

\* A component that rests does so in one of its initial states.
Init ==
    /\ part \in {"sessions", "booking", "thread"}
    /\ SessionsInit /\ ChatInit
    /\ conv.kind = IF part = "thread" THEN "support" ELSE "booking"
    /\ part # "sessions" => account = Blank

Next ==
    \/ part = "sessions" /\ SessionsNext /\ UNCHANGED <<part, chatVars>>
    \/ part # "sessions" /\ ChatNext /\ UNCHANGED <<part, sessionVars>>

Spec == Init /\ [][Next]_vars

\* Two requests, two sendings of a message, two members of staff.
Symmetry == Permutations({n1, n2}) \cup Permutations(Staff)

\* The thread is looked at without its messages and its requester, who is always in it,
\* and with one member of staff in its room, or on the way there, at a time.
Hands == part = "thread" => /\ \A x \in Attempt : send[x].pc = "new"
                            /\ join[Requester] = "idle" /\ \A u \in User : marking[u] = "idle"
                            /\ Cardinality({s \in Staff : s \in room \/ join[s] # "idle"}) <= 1
=============================================================================
