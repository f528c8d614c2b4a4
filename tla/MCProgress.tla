----------------------------- MODULE MCProgress -----------------------------
(***************************************************************************)
(* The two jobs that clear what is overdue, each with the requests that race *)
(* it: bookings (Booking) and donation requests (Requests).  In a behaviour  *)
(* one of them is at work and the other rests; fairness is asked of the one  *)
(* at work.                                                                  *)
(***************************************************************************)
EXTENDS Booking, TLC

CONSTANTS a, b, other, don, i1, p1, p2, r1, h1, NoRequest, NoHub, RequestOps

VARIABLES
    part,   \* the job at work
    request, past, offer, hubOf, linked, barred, lowered, inactive, booked, offered, handler

R == INSTANCE Requests WITH
    User <- {a, b, other}, Request <- {r1}, Hub <- {h1}, Requester <- r1 :> a,
    MaxRequests <- 1, MaxPending <- 1, MaxBookings <- 1, MaxActiveLevel1 <- 1,
    MaxActiveLevel2 <- 1, Moderated <- {}, Ops <- RequestOps,
    item <- linked, banned <- barred, demoted <- lowered

DonorOfOne == i1 :> don

requestVars ==
    <<request, past, offer, hubOf, linked, barred, lowered, inactive, booked, offered, handler>>

all == <<part, vars, requestVars>>

BothInit == part \in {"bookings", "requests"} /\ Init /\ R!Init

BothNext ==
    \/ part = "bookings" /\ Next /\ UNCHANGED <<part, requestVars>>
    \/ part = "requests" /\ R!Next /\ UNCHANGED <<part, vars>>

\* Fairness of Booking and Fairness of Requests, for the part at work.
FairBoth ==
    /\ BothInit /\ [][BothNext]_all
    /\ \A p \in Proc :
         /\ WF_all(part = "bookings" /\ ProcStep(p) /\ UNCHANGED <<part, requestVars>>)
         /\ WF_all(part = "requests" /\ R!ProcStep(p) /\ UNCHANGED <<part, vars>>)
    /\ \A i \in Item :
         WF_all(part = "bookings" /\ (\E p \in Proc : ExpireScan(p, i)) /\ UNCHANGED <<part, requestVars>>)
    /\ \A r \in {r1} :
         SF_all(part = "requests" /\ (\E p \in Proc : R!ExpireScan(p, r)) /\ UNCHANGED <<part, vars>>)

\* OverdueRequestsClose of Requests.
OverdueRequestsClose == R!OverdueRequestsClose
=============================================================================
