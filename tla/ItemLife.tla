------------------------------- MODULE ItemLife -------------------------------
(***************************************************************************)
(* What the handlers of public items promise of every item document, with   *)
(* no snapshot, queue, deadline or race in sight.  An item is published     *)
(* once.  Nobody is given an item of their own, or one they held and lost.  *)
(* A booking ends by passing to somebody else, by the item being offered    *)
(* again or withdrawn, or by a hand-over both sides confirmed, the          *)
(* recipient first; the donor is credited at that moment and no other.      *)
(* What is handed over, withdrawn or deleted never comes back.              *)
(***************************************************************************)
EXTENDS Naturals

CONSTANTS User, Item, Donor, NoUser

VARIABLES
    booking,     \* the document of every item
    donations    \* the donations every user is credited with

vars == <<booking, donations>>

Doc(status, holder, cancelledBy) ==
    [status |-> status, holder |-> holder, recipientOk |-> FALSE, donorOk |-> FALSE,
     cancelledBy |-> cancelledBy]

\* Who may still be given item i.
MayHold(i) == User \ ({Donor[i]} \cup booking[i].cancelledBy)

\* Whoever holds i when the booking ends may not take it again.
NowBarred(i) == booking[i].cancelledBy \cup {booking[i].holder}

Init ==
    /\ booking \in [Item -> {Doc("absent", NoUser, {}), Doc("available", NoUser, {})}]
    /\ donations = [u \in User |-> 0]

Publish(i) ==
    /\ booking[i].status = "absent"
    /\ booking'[i] = Doc("available", NoUser, {})

Book(i) ==
    /\ booking[i].status = "available"
    /\ \E u \in MayHold(i) : booking'[i] = Doc("booked", u, booking[i].cancelledBy)

PassOn(i) ==
    /\ booking[i].status = "booked"
    /\ \E u \in MayHold(i) \ {booking[i].holder} :
          booking'[i] = Doc("booked", u, NowBarred(i))

Release(i) ==
    /\ booking[i].status = "booked"
    /\ booking'[i] = Doc("available", NoUser, NowBarred(i))

Withdraw(i) ==
    /\ booking[i].status \in {"available", "booked"}
    /\ booking'[i] = Doc("hidden", NoUser, booking[i].cancelledBy)

Delete(i) ==
    /\ booking[i].status \notin {"absent", "deleted"}
    /\ booking'[i] = [booking[i] EXCEPT !.status = "deleted"]

Receive(i) ==
    /\ booking[i].status = "booked" /\ ~booking[i].recipientOk
    /\ booking'[i] = [booking[i] EXCEPT !.recipientOk = TRUE]

\* A step may move several documents: a ban treats all items of its user.
Move == \A i \in Item :
    \/ booking'[i] = booking[i]
    \/ Publish(i) \/ Book(i) \/ PassOn(i) \/ Release(i) \/ Withdraw(i) \/ Delete(i) \/ Receive(i)

HandOver(i) ==
    /\ booking[i].status = "booked" /\ booking[i].recipientOk /\ ~booking[i].donorOk
    /\ booking' = [booking EXCEPT ![i].donorOk = TRUE, ![i].status = "delivered"]
    /\ donations' = [donations EXCEPT ![Donor[i]] = @ + 1]

Next == (Move /\ UNCHANGED donations) \/ \E i \in Item : HandOver(i)

Spec == Init /\ [][Next]_vars
=============================================================================
