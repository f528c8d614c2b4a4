------------------------------ MODULE MCSupply ------------------------------
(***************************************************************************)
(* The limits on what one user holds and offers, on instances of Booking    *)
(* of three items.  The two limits count different things, so a behaviour   *)
(* is about one of them: the users book, cancel and wait for two items that  *)
(* are posted, or a donor with none yet publishes, deletes and is moderated. *)
(***************************************************************************)
EXTENDS Booking, TLC

CONSTANTS a, b, don, i1, i2, i3, p1, p2

DonorOfAll == [i \in {i1, i2, i3} |-> don]

VARIABLE limit   \* the limit a behaviour is about

\* The initial states of Booking, with or without the posted items.
SupplyInit ==
    /\ limit \in {"bookings", "donations"}
    /\ booking = [i \in Item |-> [Blank EXCEPT !.status =
                                    IF limit = "bookings" /\ i \in Posted THEN "available" ELSE "absent"]]
    /\ waitlist = [i \in Item |-> <<>>]
    /\ overdue = {} /\ banned = {} /\ demoted = {}
    /\ donations = [u \in User |-> 0]
    /\ req = [p \in Proc |-> Idle]
    /\ seen = [p \in Proc |-> <<>>]
    /\ tx = [p \in Proc |-> NoTx]

SupplyNext == Next /\ UNCHANGED limit

SupplySpec == SupplyInit /\ [][SupplyNext]_<<vars, limit>>

Booker == {"book", "join", "cancel", "expire"}

\* Who acts: in behaviours about bookings the donor neither publishes nor deletes
\* and nobody acts on it; in those about donations nobody books.
Scene ==
    IF limit = "bookings"
    THEN /\ \A p \in Proc : req[p].op # "create" /\ ~(req[p].op = "ban" /\ req[p].user = don)
         /\ demoted = {} /\ don \notin banned
         /\ \A i \in Item : booking[i].status # "deleted"
    ELSE /\ \A p \in Proc : req[p].op \notin Booker /\ ~(req[p].op = "ban" /\ req[p].user = b)
         /\ banned \subseteq {don} /\ demoted \subseteq {don}

Symmetry == Permutations(Proc)
=============================================================================
