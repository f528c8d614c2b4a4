------------------------------- MODULE Booking -------------------------------
(***************************************************************************)
(* The life of a public item: publishing, booking, the waitlist,           *)
(* cancellation, two-sided hand-over, expiry, deletion, and what a ban      *)
(* does to it (services/itemService.ts, jobs/cronJobs.ts,                   *)
(* services/banConsequencesService.ts).                                     *)
(*                                                                          *)
(* Every handler runs against MongoDB.  A handler that opens no transaction *)
(* is a sequence of reads and of single-document conditional updates, each  *)
(* atomic.  A transaction reads one snapshot, computes its writes from it,  *)
(* and commits them only if no document it writes was written by anybody    *)
(* since the snapshot; otherwise runMongoTransaction starts it again on a   *)
(* fresh snapshot.  `tx' holds what an open transaction is going to write   *)
(* and the documents others have written meanwhile.                         *)
(***************************************************************************)
EXTENDS Naturals, Sequences, FiniteSets

CONSTANTS
    User,            \* students: donors, bookers, waiters
    Item,            \* public items (linkedRequestId = null)
    Donor,           \* Donor[i] publishes item i
    Proc,            \* requests and jobs being served at the same time
    NoUser, NoItem,
    Posted,          \* items already published when the behaviour starts
    MaxBookings,     \* settings.maxBookingsPerUser
    MaxWaitlist,     \* settings.maxWaitlistPerItem
    MaxActiveLevel1, \* settings.maxActiveDonationsPerUser
    MaxActiveLevel2, \* settings.maxActiveDonationsLevel2Plus
    Moderated,       \* the users moderators act on
    Ops              \* the operations a run lets happen

AllOps == {"book", "leave", "cancel", "confirm", "expire", "create", "delete",
           "ban", "trust"}

ASSUME BookingAssumption ==
    /\ IsFiniteSet(Item)
    /\ Donor \in [Item -> User]
    /\ NoUser \notin User
    /\ NoItem \notin Item
    /\ Posted \subseteq Item
    /\ Moderated \subseteq User
    /\ MaxBookings \in Nat
    /\ MaxWaitlist \in Nat
    /\ MaxActiveLevel1 \in Nat
    /\ MaxActiveLevel2 \in Nat
    /\ MaxActiveLevel1 <= MaxActiveLevel2
    /\ Ops \subseteq AllOps

\* What is posted when the behaviour starts was posted under the same limits.
ASSUME PostedAssumption ==
    \A u \in User : Cardinality({i \in Posted : Donor[i] = u}) <= MaxActiveLevel2

VARIABLES
    booking,     \* the item documents, their waitlist apart
    waitlist,    \* waitlist[i]: the users waiting for i, first come first
    overdue,     \* booked items whose bookedAt is past bookingExpiryHours
    banned,      \* users with isBanned
    demoted,     \* users whose trustLevel is below 2
    donations,   \* totalDonations of every user (trustScore and quota move with it)
    req,         \* what each handler remembers between two of its steps
    seen,        \* the waitlist a cancellation or an expiry read at its start
    tx           \* the open transaction of each handler

vars == <<booking, waitlist, overdue, banned, demoted, donations, req, seen, tx>>

-----------------------------------------------------------------------------
(* Documents *)

Status == {"absent", "available", "booked", "delivered", "hidden", "deleted"}

ItemDoc == [status: Status, holder: User \cup {NoUser}, recipientOk: BOOLEAN,
            donorOk: BOOLEAN, cancelledBy: SUBSET User]

Blank == [status |-> "absent", holder |-> NoUser, recipientOk |-> FALSE,
          donorOk |-> FALSE, cancelledBy |-> {}]

\* A booking by u starts: bookedAt is now and both confirmations are reset.
BookedBy(d, u) == [d EXCEPT !.status = "booked", !.holder = u,
                            !.recipientOk = FALSE, !.donorOk = FALSE]

\* The booking ends and the item is offered again, or withdrawn.
Unbooked(d, st) == [d EXCEPT !.status = st, !.holder = NoUser,
                             !.recipientOk = FALSE, !.donorOk = FALSE]

\* Mutant: a booking that ends leaves no trace.
BarredNobody(d, u) == d

\* cancelledBy remembers who may not take this item again.
Barred(d, u) == [d EXCEPT !.cancelledBy = @ \cup {u}]

IsActive(d) == d.status \in {"available", "booked"}

Holds(d, u) == d.status = "booked" /\ d.holder = u

HeldIn(docs, u) == {i \in Item : Holds(docs[i], u)}

ActiveIn(docs, u) == {i \in Item : Donor[i] = u /\ IsActive(docs[i])}

Members(q) == {u \in User : \E k \in DOMAIN q : q[k] = u}

\* $pull: q without the users in U, the others in their order.
Pull(q, U) ==
    LET kept[k \in 0 .. Len(q)] ==
          IF k = 0 THEN <<>>
          ELSE IF q[k] \in U THEN kept[k - 1]
          ELSE Append(kept[k - 1], q[k])
    IN  kept[Len(q)]

-----------------------------------------------------------------------------
(* Handlers and their transactions *)

AnyRequest == [op: {"none", "book", "join", "cancel", "expire", "create", "ban"},
               pc: {"idle", "begin", "loop", "commit", "join", "release"},
               user: User \cup {NoUser}, item: Item \cup {NoItem},
               holder: User \cup {NoUser}, excluded: SUBSET (User \cup {NoUser}),
               limit: Nat]

Request == {r \in AnyRequest :
    /\ r.op = "none" <=> r.pc = "idle"
    /\ r.pc = "join" => r.op = "join"
    /\ r.pc = "release" => r.op = "cancel"
    /\ r.pc = "loop" => r.op = "ban"
    /\ r.op \in {"book", "join", "create", "ban"} => r.user \in User
    /\ r.op \in {"book", "join", "cancel", "expire", "create"} => r.item \in Item
    /\ r.op \in {"cancel", "expire"} => r.holder \in User}

Idle == [op |-> "none", pc |-> "idle", user |-> NoUser, item |-> NoItem,
         holder |-> NoUser, excluded |-> {}, limit |-> 0]

Transaction == [docs: SUBSET Item, after: [Item -> ItemDoc],
                pulls: [Item -> SUBSET User], locks: SUBSET User,
                bans: SUBSET User, eligible: SUBSET User, todo: SUBSET Item,
                missI: SUBSET Item, missU: SUBSET User]

NoTx == [docs |-> {}, after |-> [i \in Item |-> Blank],
         pulls |-> [i \in Item |-> {}], locks |-> {}, bans |-> {},
         eligible |-> {}, todo |-> {}, missI |-> {}, missU |-> {}]

\* Mutant: acquireUserOperationLocks is not called.
WritesUnlocked(i, d, P, L) == [NoTx EXCEPT !.docs = {i}, !.after[i] = d, !.pulls[i] = P]

\* A transaction that takes the operation lock of the users in L, gives item i
\* the document d and pulls the users in P from its waitlist.
Writes(i, d, P, L) ==
    [NoTx EXCEPT !.docs = {i}, !.after[i] = d, !.pulls[i] = P, !.locks = L]

\* One whose conditional update matches nothing: only the locks are written.
LocksOnly(L) == [NoTx EXCEPT !.locks = L]

WrittenItems(t) == t.docs \cup {i \in Item : t.pulls[i] # {}}

\* Mutants: the lock, or the ban, does not touch the user document.
WrittenUsersNoLock(t) == t.bans
WrittenUsersNoBan(t) == t.locks

WrittenUsers(t) == t.locks \cup t.bans

\* Item documents I and user documents U are written by someone else than p.
\* What a finished transaction will not write cannot make it conflict.
Missed(p, I, U) ==
    LET t == tx[p] IN
    CASE req[p].pc = "loop" -> [t EXCEPT !.missI = @ \cup I, !.missU = @ \cup U]
      [] req[p].pc = "commit" ->
            [t EXCEPT !.missI = @ \cup (I \cap WrittenItems(t)),
                      !.missU = @ \cup (U \cap WrittenUsers(t))]
      [] OTHER -> t

AllMiss(I, U) == tx' = [p \in Proc |-> Missed(p, I, U)]

Conflicts(t) == t.missI \cap WrittenItems(t) # {} \/ t.missU \cap WrittenUsers(t) # {}

\* Handler p goes to its next step; the documents are left alone.
Become(p, r, q, t) ==
    /\ req' = [req EXCEPT ![p] = r]
    /\ seen' = [seen EXCEPT ![p] = q]
    /\ tx' = [tx EXCEPT ![p] = t]
    /\ UNCHANGED <<booking, waitlist, overdue, banned, demoted, donations>>

Goto(p, pc, t) == Become(p, [req[p] EXCEPT !.pc = pc], seen[p], t)

Finish(p) == Become(p, Idle, <<>>, NoTx)

\* A single-document update outside any transaction.
UpdateItem(i, d, q) ==
    /\ booking' = [booking EXCEPT ![i] = d]
    /\ waitlist' = [waitlist EXCEPT ![i] = q]
    /\ overdue' = IF d.holder = booking[i].holder /\ d.status = "booked"
                  THEN overdue ELSE overdue \ {i}
    /\ UNCHANGED <<banned, demoted>>

-----------------------------------------------------------------------------
Init ==
    /\ booking = [i \in Item |-> [Blank EXCEPT !.status =
                                    IF i \in Posted THEN "available" ELSE "absent"]]
    /\ waitlist = [i \in Item |-> <<>>]
    /\ overdue = {}
    /\ banned = {}
    /\ demoted = {}
    /\ donations = [u \in User |-> 0]
    /\ req = [p \in Proc |-> Idle]
    /\ seen = [p \in Proc |-> <<>>]
    /\ tx = [p \in Proc |-> NoTx]

-----------------------------------------------------------------------------
(* Publishing: createItemLogic *)

\* The donor's level fixes the limit before the image upload and the transaction.
CreateRead(p, i) ==
    LET u == Donor[i] IN
    /\ "create" \in Ops
    /\ req[p].pc = "idle"
    /\ booking[i].status = "absent"
    /\ \A q \in Proc : ~(req[q].op = "create" /\ req[q].item = i)
    /\ u \notin banned
    /\ Become(p, [Idle EXCEPT !.op = "create", !.pc = "begin", !.user = u, !.item = i,
                  !.limit = IF u \in demoted THEN MaxActiveLevel1 ELSE MaxActiveLevel2],
              <<>>, NoTx)

CreateBegin(p) ==
    LET u == req[p].user   i == req[p].item IN
    /\ req[p].op = "create" /\ req[p].pc = "begin"
    /\ IF Cardinality(ActiveIn(booking, u)) >= req[p].limit
       THEN Finish(p)
       ELSE Goto(p, "commit",
                 Writes(i, [Blank EXCEPT !.status = "available"], {}, {u}))

-----------------------------------------------------------------------------
(* Booking and joining the waitlist: bookItemLogic *)

\* The reads and checks made before any write.  The ban is checked by the
\* authentication middleware, the level by the handler; neither again later.
BookRead(p, u, i) ==
    LET d == booking[i] IN
    /\ "book" \in Ops
    /\ req[p].pc = "idle"
    /\ u \notin banned /\ u \notin demoted
    /\ u # Donor[i] /\ u # d.holder /\ u \notin d.cancelledBy
    /\ \/ /\ d.status = "available"
          /\ Become(p, [Idle EXCEPT !.op = "book", !.pc = "begin", !.user = u, !.item = i],
                    <<>>, NoTx)
       \/ /\ d.status = "booked"
          /\ Len(waitlist[i]) < MaxWaitlist
          /\ u \notin Members(waitlist[i])
          /\ Become(p, [Idle EXCEPT !.op = "join", !.pc = "join", !.user = u, !.item = i],
                    <<>>, NoTx)

\* Mutant: cancelledBy is checked on the first read only.
BookFilterNoBar(d, u) == d.status = "available" /\ d.holder = NoUser

BookFilter(d, u) ==
    d.status = "available" /\ d.holder = NoUser /\ u \notin d.cancelledBy

BookBegin(p) ==
    LET u == req[p].user   i == req[p].item IN
    /\ req[p].op = "book" /\ req[p].pc = "begin"
    /\ IF Cardinality(HeldIn(booking, u)) >= MaxBookings
       THEN Finish(p)
       ELSE Goto(p, "commit",
                 IF BookFilter(booking[i], u)
                 THEN Writes(i, BookedBy(booking[i], u), {u}, {u})
                 ELSE LocksOnly({u}))

\* Mutant: that the user does not wait yet is not repeated in the update.
JoinFilterTwice(i, u) ==
    /\ booking[i].status = "booked"
    /\ booking[i].holder # u /\ u \notin booking[i].cancelledBy
    /\ Len(waitlist[i]) < MaxWaitlist

JoinFilter(i, u) ==
    /\ booking[i].status = "booked"
    /\ booking[i].holder # u
    /\ u \notin booking[i].cancelledBy
    /\ u \notin Members(waitlist[i])
    /\ Len(waitlist[i]) < MaxWaitlist

JoinWrite(p) ==
    LET u == req[p].user   i == req[p].item IN
    /\ req[p].pc = "join"
    /\ IF JoinFilter(i, u)
       THEN /\ UpdateItem(i, booking[i], Append(waitlist[i], u))
            /\ AllMiss({i}, {})
            /\ req' = [req EXCEPT ![p] = Idle]
            /\ UNCHANGED <<donations, seen>>
       ELSE Finish(p)

\* leaveWaitlistLogic: one conditional update, whatever the item's status.
Leave(u, i) ==
    /\ "leave" \in Ops
    /\ u \notin banned
    /\ booking[i].holder # u
    /\ u \in Members(waitlist[i])
    /\ UpdateItem(i, booking[i], Pull(waitlist[i], {u}))
    /\ AllMiss({i}, {})
    /\ UNCHANGED <<donations, req, seen>>

-----------------------------------------------------------------------------
(* Cancelling: cancelBookingLogic *)

CancelRead(p, u, i) ==
    LET d == booking[i] IN
    /\ "cancel" \in Ops
    /\ req[p].pc = "idle"
    /\ u \notin banned
    /\ u \in {d.holder, Donor[i]}
    /\ d.status = "booked" /\ d.holder # NoUser /\ ~d.recipientOk
    /\ Become(p, [Idle EXCEPT !.op = "cancel", !.user = u, !.item = i,
                  !.pc = IF waitlist[i] = <<>> THEN "release" ELSE "begin",
                  !.holder = d.holder,
                  !.excluded = {Donor[i], d.holder} \cup d.cancelledBy],
              waitlist[i], NoTx)

\* Mutant: the limit is off by one.
PromotableOneMore(q, i, excluded, docs, eligible) ==
    {k \in DOMAIN q :
        /\ q[k] \in eligible \ excluded
        /\ Cardinality(HeldIn(docs, q[k]) \ {i}) <= MaxBookings}

\* findNextEligibleWaitlistCandidate: the positions of q that may be promoted to
\* item i, given the item documents and the eligible users of a snapshot.
Promotable(q, i, excluded, docs, eligible) ==
    {k \in DOMAIN q :
        /\ q[k] \in eligible \ excluded
        /\ Cardinality(HeldIn(docs, q[k]) \ {i}) < MaxBookings}

IsFirst(k, S) == k \in S /\ \A m \in S : k <= m

\* Everyone looked at up to the chosen position k leaves the waitlist.
UpTo(q, k) == {u \in User : \E m \in DOMAIN q : m <= k /\ q[m] = u}

EligibleNow == User \ (banned \cup demoted)

\* Mutants: the update trusts the snapshot for the holder, or the confirmation.
CancelFilterAnyHolder(d, h) == d.status = "booked" /\ ~d.recipientOk
CancelFilterConfirmed(d, h) == d.status = "booked" /\ d.holder = h

CancelFilter(d, h) == d.status = "booked" /\ d.holder = h /\ ~d.recipientOk

CancelBegin(p) ==
    LET r == req[p]   i == r.item   q == seen[p]
        S == Promotable(q, i, r.excluded, booking, EligibleNow) IN
    /\ r.op = "cancel" /\ r.pc = "begin"
    /\ \/ /\ S = {}
          /\ Goto(p, "release", NoTx)
       \/ \E k \in S :
            /\ IsFirst(k, S)
            /\ Goto(p, "commit",
                    IF CancelFilter(booking[i], r.holder)
                    THEN Writes(i, Barred(BookedBy(booking[i], q[k]), r.holder),
                                UpTo(q, k), {q[k]})
                    ELSE LocksOnly({q[k]}))

\* No candidate: the item is released by a single update outside the transaction,
\* which pulls only the waiters the snapshot showed.
CancelRelease(p) ==
    LET r == req[p]   i == r.item IN
    /\ r.pc = "release"
    /\ IF CancelFilter(booking[i], r.holder)
       THEN /\ UpdateItem(i, Barred(Unbooked(booking[i], "available"), r.holder),
                          Pull(waitlist[i], Members(seen[p])))
            /\ AllMiss({i}, {})
            /\ req' = [req EXCEPT ![p] = Idle]
            /\ seen' = [seen EXCEPT ![p] = <<>>]
            /\ UNCHANGED donations
       ELSE Finish(p)

-----------------------------------------------------------------------------
(* Hand-over: completeDeliveryLogic *)

RecipientConfirm(u, i) ==
    LET d == booking[i] IN
    /\ "confirm" \in Ops
    /\ u \notin banned
    /\ d.status = "booked" /\ d.holder = u /\ ~d.recipientOk
    /\ i \notin overdue
    /\ UpdateItem(i, [d EXCEPT !.recipientOk = TRUE], waitlist[i])
    /\ AllMiss({i}, {})
    /\ UNCHANGED <<donations, req, seen>>

\* Mutant: a repeated confirmation passes the filter.
DonorFilterRepeated(d) == d.recipientOk

DonorFilter(d) == d.status = "booked" /\ d.recipientOk /\ ~d.donorOk

\* The item and the donor's counters change in one transaction, which reads
\* nothing it does not write: it happens at once or fails with no effect.
DonorConfirm(i) ==
    LET d == booking[i] IN
    /\ "confirm" \in Ops
    /\ Donor[i] \notin banned
    /\ DonorFilter(d)
    /\ i \notin overdue
    /\ UpdateItem(i, [d EXCEPT !.donorOk = TRUE, !.status = "delivered"], waitlist[i])
    /\ donations' = [donations EXCEPT ![Donor[i]] = @ + 1]
    /\ AllMiss({i}, {Donor[i]})
    /\ UNCHANGED <<req, seen>>

-----------------------------------------------------------------------------
(* Expiry: expireOldBookings and processExpiredItem *)

\* Time passes: the booking of i outlives bookingExpiryHours.
BookingAges(i) ==
    /\ "expire" \in Ops
    /\ booking[i].status = "booked"
    /\ i \notin overdue
    /\ overdue' = overdue \cup {i}
    /\ UNCHANGED <<booking, waitlist, banned, demoted, donations, req, seen, tx>>

\* Mutant: a booking the recipient confirmed is left to the donor.
ExpirableUnconfirmed(d) == d.status = "booked" /\ ~d.recipientOk

Expirable(d) == d.status = "booked" /\ ~(d.recipientOk /\ d.donorOk)

ExpireScan(p, i) ==
    LET d == booking[i] IN
    /\ "expire" \in Ops
    /\ req[p].pc = "idle"
    /\ Expirable(d) /\ d.holder # NoUser /\ i \in overdue
    /\ Become(p, [Idle EXCEPT !.op = "expire", !.pc = "begin", !.item = i,
                  !.holder = d.holder,
                  !.excluded = {Donor[i], d.holder} \cup d.cancelledBy],
              waitlist[i], NoTx)

\* The scanned booking is still there: same bookedBy and same bookedAt.
ExpireFilter(i, h) == Expirable(booking[i]) /\ booking[i].holder = h /\ i \in overdue

\* Unlike findNextEligibleWaitlistCandidate, the job's own search locks every
\* eligible user it meets, those it then passes over for their quota included.
ExpireBegin(p) ==
    LET r == req[p]   i == r.item   q == seen[p]
        E == EligibleNow \ r.excluded
        S == Promotable(q, i, r.excluded, booking, EligibleNow) IN
    /\ r.op = "expire" /\ r.pc = "begin"
    /\ \/ /\ S = {}
          /\ Goto(p, "commit",
                  IF ExpireFilter(i, r.holder)
                  THEN Writes(i, Barred(Unbooked(booking[i], "available"), r.holder),
                              Members(q), Members(q) \cap E)
                  ELSE LocksOnly(Members(q) \cap E))
       \/ \E k \in S :
            LET L == {q[k]} \cup (UpTo(q, k) \cap E) IN
            /\ IsFirst(k, S)
            /\ Goto(p, "commit",
                    IF ExpireFilter(i, r.holder)
                    THEN Writes(i, Barred(BookedBy(booking[i], q[k]), r.holder),
                                UpTo(q, k), L)
                    ELSE LocksOnly(L))

-----------------------------------------------------------------------------
(* Deletion: deleteItemLogic and the moderator's deleteItem *)

OwnerDelete(i) ==
    LET d == booking[i] IN
    /\ "delete" \in Ops
    /\ Donor[i] \notin banned
    /\ d.status \notin {"absent", "delivered"} /\ ~d.recipientOk
    /\ UpdateItem(i, [d EXCEPT !.status = "deleted"], waitlist[i])
    /\ AllMiss({i}, {})
    /\ UNCHANGED <<donations, req, seen>>

AdminDelete(i) ==
    LET d == booking[i] IN
    /\ "delete" \in Ops
    /\ d.status \notin {"absent", "deleted"}
    /\ UpdateItem(i, [d EXCEPT !.status = "deleted"], waitlist[i])
    /\ AllMiss({i}, {})
    /\ UNCHANGED <<donations, req, seen>>

-----------------------------------------------------------------------------
(* Moderation: banUser with applyBanConsequences, unbanUser, trust levels *)

BanStart(p, u) ==
    /\ "ban" \in Ops
    /\ req[p].pc = "idle"
    /\ Become(p, [Idle EXCEPT !.op = "ban", !.pc = "begin", !.user = u], <<>>, NoTx)

\* The snapshot: the user's active items and bookings are still to be treated;
\* the final updateMany pulls the user from every waitlist seen in the snapshot.
BanBegin(p) ==
    LET u == req[p].user
        T == {i \in Item : IsActive(booking[i]) /\ (Donor[i] = u \/ booking[i].holder = u)} IN
    /\ req[p].op = "ban" /\ req[p].pc = "begin"
    /\ Goto(p, IF T = {} THEN "commit" ELSE "loop",
            [NoTx EXCEPT !.after = booking, !.bans = {u}, !.todo = T,
                         !.eligible = EligibleNow \ {u},
                         !.pulls = [i \in Item |->
                             IF u \in Members(waitlist[i]) THEN {u} ELSE {}]])

\* The transaction has also given item i the document e, pulled P and locked L.
Treated(t, i, e, P, L) ==
    [t EXCEPT !.todo = @ \ {i}, !.docs = @ \cup {i}, !.after[i] = e,
              !.pulls[i] = @ \cup P, !.locks = @ \cup L]

\* One round of the loop over the user's items.  A document changed since the
\* snapshot will be written, so the transaction will not commit: reading the
\* waitlist as it is now, and not as it was, makes no difference.
BanItem(p) ==
    LET u == req[p].user   t == tx[p] IN
    /\ req[p].pc = "loop"
    /\ \E i \in t.todo :
        LET d == t.after[i]   q == waitlist[i]
            S == Promotable(q, i, {Donor[i], u} \cup d.cancelledBy, t.after, t.eligible)
            Treat(e, P, L) == Goto(p, IF t.todo = {i} THEN "commit" ELSE "loop",
                                   Treated(t, i, e, P, L)) IN
        \/ /\ Donor[i] = u
           /\ Treat(Unbooked(d, "hidden"), Members(q), {})
        \/ /\ Donor[i] # u /\ S = {}
           /\ Treat(Barred(Unbooked(d, "available"), u), {u} \cup Members(q), {})
        \/ \E k \in S :
             /\ Donor[i] # u /\ IsFirst(k, S)
             /\ Treat(Barred(BookedBy(d, q[k]), u), {u} \cup UpTo(q, k), {q[k]})

Unban(u) ==
    /\ "ban" \in Ops
    /\ u \in banned
    /\ banned' = banned \ {u}
    /\ AllMiss({}, {u})
    /\ UNCHANGED <<booking, waitlist, overdue, demoted, donations, req, seen>>

\* demoteToLevel1
Demote(u) ==
    /\ "trust" \in Ops
    /\ u \notin demoted
    /\ demoted' = demoted \cup {u}
    /\ AllMiss({}, {u})
    /\ UNCHANGED <<booking, waitlist, overdue, banned, donations, req, seen>>

\* promoteToLevel2
Promote(u) ==
    /\ "trust" \in Ops
    /\ u \in demoted /\ u \notin banned
    /\ demoted' = demoted \ {u}
    /\ AllMiss({}, {u})
    /\ UNCHANGED <<booking, waitlist, overdue, banned, donations, req, seen>>

-----------------------------------------------------------------------------
(* The end of a transaction: runMongoTransaction *)

CommitTx(p) ==
    LET t == tx[p] IN
    /\ req[p].pc = "commit"
    /\ ~Conflicts(t)
    /\ booking' = [i \in Item |-> IF i \in t.docs THEN t.after[i] ELSE booking[i]]
    /\ waitlist' = [i \in Item |-> Pull(waitlist[i], t.pulls[i])]
    /\ overdue' = overdue \ t.docs
    /\ banned' = banned \cup t.bans
    /\ req' = [req EXCEPT ![p] = Idle]
    /\ seen' = [seen EXCEPT ![p] = <<>>]
    /\ tx' = [q \in Proc |-> IF q = p THEN NoTx
                             ELSE Missed(q, WrittenItems(t), WrittenUsers(t))]
    /\ UNCHANGED <<demoted, donations>>

\* A write conflict: nothing is written, the callback runs again.
RetryTx(p) ==
    /\ req[p].pc = "commit"
    /\ Conflicts(tx[p])
    /\ Goto(p, "begin", NoTx)

-----------------------------------------------------------------------------
ProcStep(p) ==
    \/ CreateBegin(p) \/ BookBegin(p) \/ JoinWrite(p) \/ CancelBegin(p)
    \/ CancelRelease(p) \/ ExpireBegin(p) \/ BanBegin(p) \/ BanItem(p)
    \/ CommitTx(p) \/ RetryTx(p)

Arrival(p) ==
    \/ \E i \in Item : CreateRead(p, i) \/ ExpireScan(p, i)
    \/ \E u \in Moderated : BanStart(p, u)
    \/ \E u \in User, i \in Item : BookRead(p, u, i) \/ CancelRead(p, u, i)

AtOnce ==
    \/ \E i \in Item : DonorConfirm(i) \/ BookingAges(i) \/ OwnerDelete(i) \/ AdminDelete(i)
    \/ \E u \in Moderated : Unban(u) \/ Demote(u) \/ Promote(u)
    \/ \E u \in User, i \in Item : Leave(u, i) \/ RecipientConfirm(u, i)

Next == (\E p \in Proc : ProcStep(p) \/ Arrival(p)) \/ AtOnce

Spec == Init /\ [][Next]_vars
-----------------------------------------------------------------------------
(* What the code promises *)

\* Every document, request and open transaction is well formed; a waitlist is
\* what QueueSound says.
TypeOK ==
    /\ booking \in [Item -> ItemDoc]
    /\ overdue \subseteq Item
    /\ banned \subseteq User
    /\ demoted \subseteq User
    /\ donations \in [User -> Nat]
    /\ req \in [Proc -> Request]
    /\ tx \in [Proc -> Transaction]

\* No user ever holds more than maxBookingsPerUser active bookings, however the
\* booking, cancellation, expiry and ban transactions that can give one a
\* booking interleave: each counts on its own snapshot and only the operation
\* lock on the user's document keeps two of them apart.
BookingQuota == \A u \in User : Cardinality(HeldIn(booking, u)) <= MaxBookings

\* What is true of every open transaction for BookingQuota to survive its commit.
\* Whoever its documents make a holder is locked by it; and a locked user nobody
\* else wrote meanwhile stays within the quota once the documents are written
\* over the collection as it is NOW, not as it was in the snapshot.  While a ban
\* is being computed, its view of such a user's bookings is not out of date.
HeldAfter(t, docs, u) ==
    {j \in Item : IF j \in t.docs THEN Holds(t.after[j], u) ELSE Holds(docs[j], u)}

LocksItsHolders(t) ==
    \A j \in t.docs, u \in User : Holds(t.after[j], u) => u \in t.locks

QuotaAfter(t, docs) == \A u \in t.locks \ t.missU :
    Cardinality(HeldAfter(t, docs, u)) <= MaxBookings

ViewCurrent(t, docs) == \A u \in User \ t.missU : \A j \in Item \ t.docs :
    Holds(docs[j], u) => Holds(t.after[j], u)

SoundAt(pc, t, docs) ==
    /\ pc \in {"loop", "commit"} => LocksItsHolders(t) /\ QuotaAfter(t, docs)
    /\ pc = "loop" => ViewCurrent(t, docs)

SnapshotsSound == \A p \in Proc : SoundAt(req[p].pc, tx[p], booking)

\* No donor has more active items than the higher of the two levels allows: two
\* publications that counted on the same snapshot cannot both commit.
DonorQuota == \A u \in User : Cardinality(ActiveIn(booking, u)) <= MaxActiveLevel2

\* A user who lost a booking of an item never holds that item again: not by
\* booking, and not by a promotion computed from an old waitlist and an old
\* cancelledBy.  Nobody holds an item of their own.
HeldOnce == \A i \in Item : booking[i].status \in {"booked", "delivered"} =>
    /\ booking[i].holder \in User \ {Donor[i]}
    /\ booking[i].holder \notin booking[i].cancelledBy

\* A waitlist has no duplicate, never exceeds its bound, and holds neither the
\* donor, nor the current holder, nor anyone barred from the item.
QueueSound == \A i \in Item :
    /\ waitlist[i] \in Seq(User \ {Donor[i]})
    /\ Len(waitlist[i]) <= MaxWaitlist
    /\ Cardinality(Members(waitlist[i])) = Len(waitlist[i])
    /\ booking[i].holder \notin Members(waitlist[i])
    /\ booking[i].cancelledBy \cap Members(waitlist[i]) = {}

\* The donor is credited once for each item both sides confirmed, whatever
\* races the two confirmations run into and whatever happens to the item later.
CreditedOnce == \A u \in User :
    donations[u] = Cardinality({i \in Item : Donor[i] = u /\ booking[i].donorOk})

\* Neither a booking nor a credit comes twice: the two above together.
NothingTwice == HeldOnce /\ CreditedOnce

Ends(p, op) == req[p].op = op /\ req'[p] = Idle

LosesHolder(i) ==
    /\ booking[i].status = "booked"
    /\ booking'[i].status # "delivered"
    /\ booking'[i].holder # booking[i].holder \/ booking'[i].status # "booked"

\* Once the recipient confirmed, no cancellation and no deletion by the owner
\* takes the booking away, even one that read the item before the confirmation:
\* only the deadline, a ban or a moderator does.
HandoverProtected ==
    [][\A i \in Item : LosesHolder(i) /\ booking[i].recipientOk =>
          \/ i \in overdue
          \/ \E p \in Proc : Ends(p, "ban")
          \/ AdminDelete(i)]_vars

\* A cancellation takes away the booking its caller saw and no other: a donor
\* who cancels b's booking never evicts the user promoted after b.
CancelsWhatItSaw ==
    [][\A p \in Proc : Ends(p, "cancel") =>
          \A i \in Item : LosesHolder(i) =>
              i = req[p].item /\ booking[i].holder = req[p].holder]_vars

\* Whoever is promoted from a waitlist is, at the moment of the commit, neither
\* banned nor demoted, although the check was made on an older snapshot: the
\* operation lock makes the transaction conflict with the moderation of the user.
PromotedIsEligible ==
    [][\A i \in Item :
          /\ booking[i].status = "booked" /\ booking'[i].status = "booked"
          /\ booking'[i].holder # booking[i].holder
          => booking'[i].holder \in EligibleNow]_vars

\* When a ban commits, the user holds no booking and offers no active item,
\* whatever was booked, promoted or published while the ban was running.
BanSweeps ==
    [][\A p \in Proc : Ends(p, "ban") /\ banned' # banned =>
          \A u \in banned' \ banned : \A i \in Item :
              IsActive(booking'[i]) => u \notin {booking'[i].holder, Donor[i]}]_vars

\* However the handlers interleave, the documents and the donors' credits move as
\* ItemLife allows and in no other way.
ItemLife == INSTANCE ItemLife

ImplementsItemLife == ItemLife!Spec

\* review-integration.test.js:197 ("the ban promotes the first eligible waiter and
\* removes the banned user from the remaining queues") read as a state property:
\* a banned user holds no booking.
BannedHoldsNothing == \A u \in banned : HeldIn(booking, u) = {}

\* itemService.ts:876 announces a promotion as "the first eligible user in the
\* waitlist was promoted": the promoted user is on the waitlist.
PromotedWasWaiting ==
    [][\A i \in Item :
          /\ booking[i].status = "booked" /\ booking'[i].status = "booked"
          /\ booking'[i].holder # booking[i].holder
          => booking'[i].holder \in Members(waitlist[i])]_vars

\* The scheduled job keeps running and every handler that started runs on.
Fairness ==
    /\ \A p \in Proc : WF_vars(ProcStep(p))
    /\ \A i \in Item : WF_vars(\E p \in Proc : ExpireScan(p, i))

FairSpec == Spec /\ Fairness

\* A booking that outlived its deadline, confirmed by the recipient or not, is
\* taken away in the end: nobody keeps an item reserved for ever.
OverdueResolved == \A i \in Item, u \in User :
    (i \in overdue /\ booking[i].holder = u) ~> ~(i \in overdue /\ booking[i].holder = u)
=============================================================================
