-------------------------- MODULE BookingLifeProofs --------------------------
(***************************************************************************)
(* What becomes of an item, its waitlist and its donor's credit, for any    *)
(* number of users, items and handlers.  The argument: a transaction that   *)
(* can still commit would write, over the documents as they are now, one    *)
(* of the moves ItemLife allows (TxOk); a transaction for which that is no   *)
(* longer so has missed a write and will conflict.                          *)
(***************************************************************************)
EXTENDS BookingProofs, WellFoundedInduction

\* The document d of item i.
DocOk(i, d) ==
    /\ d.status = "absent" => d = Blank
    /\ d.status \in {"available", "hidden"} => d.holder = NoUser /\ ~d.recipientOk
    /\ d.status \in {"booked", "delivered"} =>
          d.holder \in User \ ({Donor[i]} \cup d.cancelledBy)
    /\ d.donorOk => d.recipientOk /\ d.status \in {"delivered", "deleted"}
    /\ d.status = "delivered" => d.donorOk

\* The booking of i by h is still what a handler read when it computed the users
\* to exclude, or h will never hold i again.
HeldAsRead(i, d, h, excluded) ==
    \/ h \in d.cancelledBy
    \/ d.status \in {"hidden", "delivered", "deleted"}
    \/ Holds(d, h) /\ excluded = {Donor[i], h} \cup d.cancelledBy

\* What a handler remembers of its first read.
ReadOk(r, docs) ==
    /\ r.op = "create" =>
          /\ r.user = Donor[r.item] /\ docs[r.item].status = "absent"
          /\ r.limit <= MaxActiveLevel2
    /\ r.op \in {"book", "join"} => r.user # Donor[r.item]
    /\ r.op \in {"cancel", "expire"} =>
          HeldAsRead(r.item, docs[r.item], r.holder, r.excluded)

\* Item j is an active one that u offers or holds.
OwnedBy(docs, u, j) == IsActive(docs[j]) /\ u \in {Donor[j], docs[j].holder}

\* e is d after the booking of h went back to the shelf or to a pulled waiter.
Relieved(d, e, h, heirs) ==
    \/ e = Barred(Unbooked(d, "available"), h)
    \/ \E w \in heirs : e = Barred(BookedBy(d, w), h)

\* Transaction t of request r writes to item i, now d, what it would write had it
\* read d; `late' says whether the booking is overdue.
WriteOk(r, t, i, d, late) ==
    LET e == t.after[i] IN
    /\ r.op \in {"create", "book", "cancel", "expire", "ban"}
    /\ r.op # "ban" => i = r.item
    /\ r.op = "create" => e = [Blank EXCEPT !.status = "available"]
    /\ r.op = "book" =>
          BookFilter(d, r.user) /\ e = BookedBy(d, r.user) /\ r.user \in t.pulls[i]
    /\ r.op = "cancel" =>
          /\ CancelFilter(d, r.holder)
          /\ Relieved(d, e, r.holder, t.pulls[i] \ r.excluded)
    /\ r.op = "expire" =>
          /\ Expirable(d) /\ d.holder = r.holder /\ late
          /\ Relieved(d, e, r.holder, t.pulls[i] \ r.excluded)
    /\ r.op = "ban" =>
          \/ Donor[i] = r.user /\ IsActive(d) /\ e = Unbooked(d, "hidden")
          \/ /\ Donor[i] # r.user /\ Holds(d, r.user)
             /\ Relieved(d, e, r.user,
                         t.pulls[i] \ ({Donor[i], r.user} \cup d.cancelledBy))

\* Transaction t of request r, for the documents, overdue bookings and eligible
\* users as they are now.
TxOk(r, t, docs, late, fit) == r.pc \in {"loop", "commit"} =>
    /\ \A i \in t.docs \ t.missI : WriteOk(r, t, i, docs[i], i \in late)
    /\ r.op \in {"cancel", "expire", "ban"} => t.locks \ t.missU \subseteq fit
    /\ r.op = "create" =>
          /\ r.user \in t.locks
          /\ r.user \notin t.missU => Cardinality(ActiveIn(docs, r.user)) < r.limit
    /\ r.op # "ban" => t.bans = {}
    /\ r.op = "ban" =>
          /\ t.bans = {r.user}
          /\ r.user \notin t.missU =>
                \A j \in Item \ (t.docs \cup t.todo) : ~OwnedBy(docs, r.user, j)
    /\ r.pc = "commit" => t.todo = {}
    /\ r.pc = "loop" =>
          /\ \A j \in Item \ (t.docs \cup t.missI) : t.after[j] = docs[j]
          /\ t.todo \cap t.docs = {}
          /\ \A j \in t.todo : OwnedBy(t.after, r.user, j)
          /\ t.eligible \ t.missU \subseteq fit \ {r.user}

DocsSound == \A i \in Item : DocOk(i, booking[i])
ReadsSound == \A p \in Proc : ReadOk(req[p], booking)
TxsSound == \A p \in Proc : TxOk(req[p], tx[p], booking, overdue, EligibleNow)

\* Nobody publishes an item twice at the same time.
Creates(p, i) == req[p].op = "create" /\ req[p].item = i
CreatesApart == \A p, q \in Proc, i \in Item : Creates(p, i) /\ Creates(q, i) => p = q

LInv == QInv /\ DocsSound /\ ReadsSound /\ CreatesApart /\ TxsSound

-----------------------------------------------------------------------------
(* The moves of one document *)

HandedOver(i) ==
    /\ DonorFilter(booking[i])
    /\ booking'[i] = [booking[i] EXCEPT !.donorOk = TRUE, !.status = "delivered"]

\* What a step that neither publishes i nor ends its hand-over does to its document.
Shifts(i) ==
    \/ booking'[i] = booking[i]
    \/ ItemLife!Book(i) \/ ItemLife!PassOn(i) \/ ItemLife!Release(i)
    \/ ItemLife!Withdraw(i) \/ ItemLife!Delete(i) \/ ItemLife!Receive(i)

Moves(i) == Shifts(i) \/ HandedOver(i)

LEMMA DocEqual ==
    ASSUME NEW d \in ItemDoc, NEW st, NEW h, NEW b,
           d.status = st, d.holder = h, ~d.recipientOk, ~d.donorOk, d.cancelledBy = b
    PROVE  d = ItemLife!Doc(st, h, b)
BY DEF ItemDoc, ItemLife!Doc

\* The updates of Booking, written as documents of ItemLife.
LEMMA DocForms ==
    ASSUME NEW d \in ItemDoc, NEW u \in User, NEW h \in User
    PROVE  /\ BookedBy(d, u) = ItemLife!Doc("booked", u, d.cancelledBy)
           /\ Barred(BookedBy(d, u), h) = ItemLife!Doc("booked", u, d.cancelledBy \cup {h})
           /\ Barred(Unbooked(d, "available"), h) =
                 ItemLife!Doc("available", NoUser, d.cancelledBy \cup {h})
           /\ Unbooked(d, "hidden") = ItemLife!Doc("hidden", NoUser, d.cancelledBy)
<1> DEFINE b == BookedBy(d, u)   a == Unbooked(d, "available")   w == Unbooked(d, "hidden")
<1>1. /\ b.status = "booked" /\ b.holder = u /\ ~b.recipientOk /\ ~b.donorOk
      /\ b.cancelledBy = d.cancelledBy
  BY DEF ItemDoc, BookedBy
<1>2. /\ a.status = "available" /\ a.holder = NoUser /\ ~a.recipientOk /\ ~a.donorOk
      /\ a.cancelledBy = d.cancelledBy
  BY DEF ItemDoc, Unbooked
<1>3. /\ w.status = "hidden" /\ w.holder = NoUser /\ ~w.recipientOk /\ ~w.donorOk
      /\ w.cancelledBy = d.cancelledBy
  BY DEF ItemDoc, Unbooked
<1>4. b \in ItemDoc /\ a \in ItemDoc /\ w \in ItemDoc  BY DocUpdates DEF Status
<1> HIDE DEF a, b, w
<1>5. ASSUME NEW x \in ItemDoc, ~x.recipientOk, ~x.donorOk, x.cancelledBy = d.cancelledBy
      PROVE  Barred(x, h) = ItemLife!Doc(x.status, x.holder, d.cancelledBy \cup {h})
  <2> DEFINE y == Barred(x, h)
  <2>1. y \in ItemDoc  BY DocUpdates
  <2>2. /\ y.status = x.status /\ y.holder = x.holder /\ ~y.recipientOk /\ ~y.donorOk
        /\ y.cancelledBy = d.cancelledBy \cup {h}
    BY <1>5 DEF ItemDoc, Barred
  <2>3. QED  BY <2>1, <2>2, DocEqual
<1>6. Barred(b, h) = ItemLife!Doc("booked", u, d.cancelledBy \cup {h})
  BY <1>1, <1>4, <1>5
<1>7. Barred(a, h) = ItemLife!Doc("available", NoUser, d.cancelledBy \cup {h})
  BY <1>2, <1>4, <1>5
<1>8. b = ItemLife!Doc("booked", u, d.cancelledBy)  BY <1>1, <1>4, DocEqual
<1>9. w = ItemLife!Doc("hidden", NoUser, d.cancelledBy)  BY <1>3, <1>4, DocEqual
<1>10. QED  BY <1>6, <1>7, <1>8, <1>9 DEF a, b, w

LEMMA NewForms ==
    /\ [Blank EXCEPT !.status = "available"] = ItemLife!Doc("available", NoUser, {})
    /\ Blank = ItemLife!Doc("absent", NoUser, {})
<1>1. [Blank EXCEPT !.status = "available"] = ItemLife!Doc("available", NoUser, {})
  <2>1. [Blank EXCEPT !.status = "available"] \in ItemDoc  BY BlankType
  <2>2. QED  BY <2>1, DocEqual DEF Blank
<1>2. Blank = ItemLife!Doc("absent", NoUser, {})  BY DEF Blank, ItemLife!Doc
<1>3. QED  BY <1>1, <1>2

\* A move keeps a document sound and what was read of it true.
LEMMA MoveKeeps ==
    ASSUME NEW i \in Item, booking[i] \in ItemDoc, DocOk(i, booking[i]),
           Moves(i) \/ ItemLife!Publish(i)
    PROVE  /\ DocOk(i, booking'[i])
           /\ \A h \in User : \A X : HeldAsRead(i, booking[i], h, X) =>
                                     HeldAsRead(i, booking'[i], h, X)
<1> DEFINE d == booking[i]   e == booking'[i]
<1> USE DEF DocOk, HeldAsRead, Holds, ItemLife!Doc, ItemLife!MayHold, ItemLife!NowBarred
<1>0. Donor[i] \in User /\ NoUser \notin User  BY BookingAssumption
<1>1. CASE e = d  BY <1>1
<1>2. CASE ItemLife!Publish(i)  BY <1>2 DEF ItemLife!Publish, Blank
<1>3. CASE ItemLife!Book(i)  BY <1>0, <1>3 DEF ItemLife!Book
<1>4. CASE ItemLife!PassOn(i)  BY <1>0, <1>4 DEF ItemLife!PassOn
<1>5. CASE ItemLife!Release(i)  BY <1>0, <1>5 DEF ItemLife!Release
<1>6. CASE ItemLife!Withdraw(i)  BY <1>0, <1>6 DEF ItemLife!Withdraw
<1>7. CASE ItemLife!Delete(i)  BY <1>7 DEF ItemLife!Delete, ItemDoc
<1>8. CASE ItemLife!Receive(i)  BY <1>8 DEF ItemLife!Receive, ItemDoc
<1>9. CASE HandedOver(i)  BY <1>9 DEF HandedOver, DonorFilter, ItemDoc
<1>10. QED  BY <1>1, <1>2, <1>3, <1>4, <1>5, <1>6, <1>7, <1>8, <1>9 DEF Moves, Shifts

\* The booking of h passes to an heir nothing bars, or the item is offered again.
LEMMA RelievedMoves ==
    ASSUME NEW i \in Item, booking[i] \in ItemDoc, NEW h \in User, Holds(booking[i], h),
           NEW heirs \in SUBSET User,
           \A w \in heirs : w \notin {Donor[i], h} \cup booking[i].cancelledBy,
           Relieved(booking[i], booking'[i], h, heirs)
    PROVE  ItemLife!PassOn(i) \/ ItemLife!Release(i)
<1> DEFINE d == booking[i]   e == booking'[i]   b == d.cancelledBy \cup {h}
<1>1. d.status = "booked" /\ d.holder = h  BY DEF Holds
<1>2. CASE e = Barred(Unbooked(d, "available"), h)
  <2>1. e = ItemLife!Doc("available", NoUser, b)  BY <1>2, DocForms
  <2>2. QED  BY <1>1, <2>1 DEF ItemLife!Release, ItemLife!NowBarred
<1>3. ASSUME NEW w \in heirs, e = Barred(BookedBy(d, w), h) PROVE ItemLife!PassOn(i)
  <2>1. e = ItemLife!Doc("booked", w, b)  BY <1>3, DocForms
  <2>2. w \in ItemLife!MayHold(i) \ {h}  BY <1>3 DEF ItemLife!MayHold
  <2>3. QED  BY <1>1, <2>1, <2>2 DEF ItemLife!PassOn, ItemLife!NowBarred
<1>4. QED  BY <1>2, <1>3 DEF Relieved

\* What a transaction writes over a document nobody else wrote is a move.
LEMMA WriteMoves ==
    ASSUME NEW r \in Request, NEW t \in Transaction, NEW i \in Item, NEW late,
           booking[i] \in ItemDoc, DocOk(i, booking[i]), ReadOk(r, booking),
           WriteOk(r, t, i, booking[i], late), booking'[i] = t.after[i]
    PROVE  /\ r.op = "create" => ItemLife!Publish(i)
           /\ r.op # "create" => Shifts(i) /\ IsActive(booking[i])
<1> DEFINE d == booking[i]   e == booking'[i]
<1>0. t.pulls[i] \subseteq User  BY DEF Transaction
<1>1. CASE r.op = "create"
  BY <1>1, NewForms DEF WriteOk, ReadOk, ItemLife!Publish
<1>2. CASE r.op = "book"
  <2>1. r.user \in User /\ r.user # Donor[i] /\ BookFilter(d, r.user)
    BY <1>2 DEF WriteOk, ReadOk, Request
  <2>2. e = ItemLife!Doc("booked", r.user, d.cancelledBy)  BY <1>2, <2>1, DocForms DEF WriteOk
  <2>3. r.user \in ItemLife!MayHold(i)  BY <2>1 DEF BookFilter, ItemLife!MayHold
  <2>4. QED  BY <1>2, <2>1, <2>2, <2>3 DEF BookFilter, ItemLife!Book, Shifts, IsActive
<1>3. CASE r.op \in {"cancel", "expire"}
  <2> DEFINE heirs == t.pulls[i] \ r.excluded
  <2>1. /\ r.holder \in User /\ Holds(d, r.holder) /\ i = r.item
        /\ Relieved(d, e, r.holder, heirs)
    BY <1>3 DEF WriteOk, Request, CancelFilter, Expirable, Holds
  <2>2. r.excluded = {Donor[i], r.holder} \cup d.cancelledBy
    BY <1>3, <2>1 DEF ReadOk, HeldAsRead, DocOk, Holds
  <2>3. ItemLife!PassOn(i) \/ ItemLife!Release(i)
    BY <1>0, <2>1, <2>2, RelievedMoves
  <2>4. QED  BY <1>3, <2>1, <2>3 DEF Shifts, Holds, IsActive
<1>4. CASE r.op = "ban"
  <2>1. r.user \in User  BY <1>4 DEF Request
  <2>2. CASE Donor[i] = r.user /\ IsActive(d) /\ e = Unbooked(d, "hidden")
    <3>1. e = ItemLife!Doc("hidden", NoUser, d.cancelledBy)  BY <2>1, <2>2, DocForms
    <3>2. QED  BY <1>4, <2>2, <3>1 DEF ItemLife!Withdraw, Shifts, IsActive
  <2>3. CASE /\ Holds(d, r.user)
             /\ Relieved(d, e, r.user,
                         t.pulls[i] \ ({Donor[i], r.user} \cup d.cancelledBy))
    <3>1. ItemLife!PassOn(i) \/ ItemLife!Release(i)
      BY <1>0, <2>1, <2>3, RelievedMoves
    <3>2. QED  BY <1>4, <2>3, <3>1 DEF Shifts, Holds, IsActive
  <2>4. QED  BY <1>4, <2>2, <2>3 DEF WriteOk
<1>5. QED  BY <1>1, <1>2, <1>3, <1>4 DEF WriteOk

\* Whoever owns an active item after a move and did not before was given its booking.
LEMMA MoveOwners ==
    ASSUME NEW i \in Item, booking[i] \in ItemDoc, Moves(i), NEW u \in User,
           OwnedBy(booking', u, i)
    PROVE  OwnedBy(booking, u, i) \/ (Holds(booking'[i], u) /\ ~Holds(booking[i], u))
<1> USE DEF OwnedBy, IsActive, Holds, ItemLife!Doc
<1>0. NoUser \notin User  BY BookingAssumption
<1>1. CASE booking'[i] = booking[i]  BY <1>1
<1>2. CASE ItemLife!Book(i)  BY <1>0, <1>2 DEF ItemLife!Book
<1>3. CASE ItemLife!PassOn(i)  BY <1>0, <1>3 DEF ItemLife!PassOn
<1>4. CASE ItemLife!Release(i)  BY <1>0, <1>4 DEF ItemLife!Release
<1>5. CASE ItemLife!Withdraw(i)  BY <1>0, <1>5 DEF ItemLife!Withdraw
<1>6. CASE ItemLife!Delete(i)  BY <1>6 DEF ItemLife!Delete, ItemDoc
<1>7. CASE ItemLife!Receive(i)  BY <1>7 DEF ItemLife!Receive, ItemDoc
<1>8. CASE HandedOver(i)  BY <1>8 DEF HandedOver, DonorFilter, ItemDoc
<1>9. QED  BY <1>1, <1>2, <1>3, <1>4, <1>5, <1>6, <1>7, <1>8 DEF Moves, Shifts

-----------------------------------------------------------------------------
(* An open transaction while others write *)

\* A step that others may miss writes no other items and users than I and U: it
\* neither makes another user ineligible nor gives another user an active item.
Noticed(I, U) ==
    /\ \A i \in Item \ I :
          booking'[i] = booking[i] /\ (i \in overdue => i \in overdue')
    /\ \A u \in User \ U : u \in EligibleNow => u \in EligibleNow'
    /\ \A u \in User \ U, i \in Item : OwnedBy(booking', u, i) => OwnedBy(booking, u, i)

\* t2 is t, open at pc, after it missed the items in I and the users in U.
SeesMore(pc, t, t2, I, U) ==
    /\ t2.docs = t.docs /\ t2.after = t.after /\ t2.pulls = t.pulls
    /\ t2.locks = t.locks /\ t2.bans = t.bans
    /\ t2.eligible = t.eligible /\ t2.todo = t.todo
    /\ t.missI \subseteq t2.missI /\ t.missU \subseteq t2.missU
    /\ pc = "loop" => I \subseteq t2.missI /\ U \subseteq t2.missU
    /\ pc = "commit" =>
          /\ I \cap WrittenItems(t) \subseteq t2.missI
          /\ U \cap WrittenUsers(t) \subseteq t2.missU

LEMMA MissedSees ==
    ASSUME TypeOK, NEW p \in Proc, NEW I \in SUBSET Item, NEW U \in SUBSET User
    PROVE  SeesMore(req[p].pc, tx[p], Missed(p, I, U), I, U)
<1> tx[p] \in Transaction  BY DEF TypeOK
<1> QED  BY DEF Missed, Transaction, SeesMore

LEMMA OthersKeep ==
    ASSUME TypeOK, TypeOK', NEW p \in Proc, NEW I \in SUBSET Item, NEW U \in SUBSET User,
           Noticed(I, U), TxOk(req[p], tx[p], booking, overdue, EligibleNow)
    PROVE  TxOk(req[p], Missed(p, I, U), booking', overdue', EligibleNow')
<1> DEFINE r == req[p]   t == tx[p]   t2 == Missed(p, I, U)   u == r.user
<1>1. t \in Transaction /\ t.docs \subseteq Item /\ t.locks \subseteq User
      /\ t.todo \subseteq Item /\ t.eligible \subseteq User
  BY DEF TypeOK, Transaction
<1> SUFFICES ASSUME r.pc \in {"loop", "commit"}
             PROVE  TxOk(r, t2, booking', overdue', EligibleNow')
  BY DEF TxOk
<1>2. SeesMore(r.pc, t, t2, I, U)  BY MissedSees
<1> HIDE DEF t2
<1> USE DEF SeesMore
<1>3. ASSUME NEW i \in t.docs, i \notin t2.missI PROVE i \notin I
  BY <1>2, <1>3 DEF WrittenItems
<1>4. ASSUME NEW v \in t.locks \cup t.bans, v \notin t2.missU PROVE v \notin U
  BY <1>2, <1>4 DEF WrittenUsers
<1>5. ASSUME NEW i \in t2.docs \ t2.missI
      PROVE  WriteOk(r, t2, i, booking'[i], i \in overdue')
  <2>1. i \in Item /\ i \notin I /\ i \in t.docs \ t.missI  BY <1>1, <1>2, <1>3
  <2>2. WriteOk(r, t, i, booking[i], i \in overdue)  BY <2>1 DEF TxOk
  <2>3. booking'[i] = booking[i] /\ (i \in overdue => i \in overdue')
    BY <2>1 DEF Noticed
  <2>4. QED  BY <1>2, <2>2, <2>3 DEF WriteOk
<1>6. ASSUME r.op \in {"cancel", "expire", "ban"} PROVE t2.locks \ t2.missU \subseteq EligibleNow'
  BY <1>1, <1>2, <1>4, <1>6 DEF TxOk, Noticed
<1>7. ASSUME r.op = "create"
      PROVE  /\ u \in t2.locks
             /\ u \notin t2.missU => Cardinality(ActiveIn(booking', u)) < r.limit
  <2>1. u \in t.locks /\ u \in User /\ r.limit \in Nat
    BY <1>1, <1>7 DEF TxOk, TypeOK, Request, AnyRequest
  <2>2. ASSUME u \notin t2.missU PROVE Cardinality(ActiveIn(booking', u)) < r.limit
    <3>1. Cardinality(ActiveIn(booking, u)) < r.limit  BY <1>2, <1>7, <2>2 DEF TxOk
    <3>2. u \notin U  BY <1>4, <2>1, <2>2
    <3>3. ActiveIn(booking', u) \subseteq ActiveIn(booking, u)
      BY <2>1, <3>2 DEF Noticed, OwnedBy, ActiveIn
    <3>4. /\ IsFiniteSet(ActiveIn(booking, u))
          /\ IsFiniteSet(ActiveIn(booking', u))
          /\ Cardinality(ActiveIn(booking', u)) <= Cardinality(ActiveIn(booking, u))
      <4>1. IsFiniteSet(ActiveIn(booking, u))
        BY FS_Subset, BookingAssumption DEF ActiveIn
      <4>2. QED  BY <3>3, <4>1, FS_Subset
    <3>5. Cardinality(ActiveIn(booking, u)) \in Nat /\ Cardinality(ActiveIn(booking', u)) \in Nat
      BY <3>4, FS_CardinalityType
    <3>6. QED  BY <2>1, <3>1, <3>4, <3>5
  <2>3. QED  BY <1>2, <2>1, <2>2
<1>8. r.op # "ban" => t2.bans = {}  BY <1>2 DEF TxOk
<1>9. ASSUME r.op = "ban"
      PROVE  /\ t2.bans = {u}
             /\ u \notin t2.missU =>
                   \A j \in Item \ (t2.docs \cup t2.todo) : ~OwnedBy(booking', u, j)
  <2>1. u \in User /\ t.bans = {u}  BY <1>9 DEF TxOk, TypeOK, Request
  <2>2. ASSUME u \notin t2.missU, NEW j \in Item \ (t2.docs \cup t2.todo)
        PROVE  ~OwnedBy(booking', u, j)
    <3>1. u \notin U /\ u \notin t.missU  BY <1>2, <1>4, <2>1, <2>2
    <3>2. ~OwnedBy(booking, u, j)  BY <1>2, <1>9, <2>2, <3>1 DEF TxOk
    <3>3. QED  BY <2>1, <3>1, <3>2 DEF Noticed
  <2>3. QED  BY <1>2, <2>1, <2>2
<1>10. r.pc = "commit" => t2.todo = {}  BY <1>2 DEF TxOk
<1>11. ASSUME r.pc = "loop"
       PROVE  /\ \A j \in Item \ (t2.docs \cup t2.missI) : t2.after[j] = booking'[j]
              /\ t2.todo \cap t2.docs = {}
              /\ \A j \in t2.todo : OwnedBy(t2.after, u, j)
              /\ t2.eligible \ t2.missU \subseteq EligibleNow' \ {u}
  <2>1. ASSUME NEW j \in Item \ (t2.docs \cup t2.missI) PROVE t2.after[j] = booking'[j]
    BY <1>2, <1>11 DEF TxOk, Noticed
  <2>2. t2.todo \cap t2.docs = {} /\ \A j \in t2.todo : OwnedBy(t2.after, u, j)
    BY <1>2, <1>11 DEF TxOk
  <2>3. t2.eligible \ t2.missU \subseteq EligibleNow' \ {u}
    BY <1>1, <1>2, <1>11 DEF TxOk, Noticed
  <2>4. QED  BY <2>1, <2>2, <2>3
<1>12. QED  BY <1>5, <1>6, <1>7, <1>8, <1>9, <1>10, <1>11 DEF TxOk

-----------------------------------------------------------------------------
(* The steps *)

\* A handler outside a transaction promises nothing of one.
LEMMA NoTxOk ==
    ASSUME NEW r, r.pc \notin {"loop", "commit"}, NEW t, NEW docs, NEW late, NEW fit
    PROVE  TxOk(r, t, docs, late, fit)
BY DEF TxOk

LEMMA IdleOk ==
    ASSUME NEW t, NEW docs, NEW late, NEW fit
    PROVE  ReadOk(Idle, docs) /\ TxOk(Idle, t, docs, late, fit) /\ Idle.op # "create"
BY DEF Idle, ReadOk, TxOk

\* Handler p moves on; the documents are left alone.
LEMMA BecomeKeeps ==
    ASSUME LInv, TypeOK', QInv', NEW p \in Proc, NEW r \in Request, NEW q, NEW t,
           Become(p, r, q, t), ReadOk(r, booking),
           TxOk(r, t, booking, overdue, EligibleNow),
           r.op = "create" => \A o \in Proc \ {p} : ~Creates(o, r.item)
    PROVE  LInv'
<1>1. /\ req'[p] = r /\ tx'[p] = t
      /\ \A o \in Proc \ {p} : req'[o] = req[o] /\ tx'[o] = tx[o]
  BY DEF Become, LInv, QInv, TypeOK
<1>2. /\ booking' = booking /\ overdue' = overdue /\ EligibleNow' = EligibleNow
  BY DEF Become, EligibleNow
<1>3. DocsSound'  BY <1>2 DEF LInv, DocsSound
<1>4. ReadsSound'  BY <1>1, <1>2 DEF LInv, ReadsSound
<1>5. TxsSound'
  <2> SUFFICES ASSUME NEW o \in Proc
               PROVE  TxOk(req'[o], tx'[o], booking', overdue', EligibleNow')
    BY DEF TxsSound
  <2>1. CASE o = p  BY <1>1, <1>2, <2>1
  <2>2. CASE o # p
    <3>1. TxOk(req[o], tx[o], booking, overdue, EligibleNow)  BY DEF LInv, TxsSound
    <3>2. QED  BY <1>1, <1>2, <2>2, <3>1
  <2>3. QED  BY <2>1, <2>2
<1>6. CreatesApart'
  <2> SUFFICES ASSUME NEW o1 \in Proc, NEW o2 \in Proc, NEW i \in Item,
                      Creates(o1, i)', Creates(o2, i)'
               PROVE  o1 = o2
    BY DEF CreatesApart
  <2>1. ASSUME NEW o \in Proc, o # p, Creates(o, i)' PROVE Creates(o, i)
    BY <1>1, <2>1 DEF Creates
  <2>2. ASSUME NEW o \in Proc, o # p, Creates(o, i)' PROVE ~Creates(p, i)'
    <3>1. Creates(o, i)  BY <2>1, <2>2
    <3>2. QED  BY <1>1, <2>2, <3>1 DEF Creates
  <2>3. QED  BY <2>1, <2>2 DEF LInv, CreatesApart
<1>7. QED  BY <1>3, <1>4, <1>5, <1>6 DEF LInv

LEMMA GotoKeeps ==
    ASSUME LInv, TypeOK', QInv', NEW p \in Proc, NEW pc, NEW t, Goto(p, pc, t),
           TxOk([req[p] EXCEPT !.pc = pc], t, booking, overdue, EligibleNow)
    PROVE  LInv'
<1> DEFINE r == [req[p] EXCEPT !.pc = pc]
<1>1. req[p] \in Request  BY DEF LInv, QInv, TypeOK
<1>2. /\ r.op = req[p].op /\ r.user = req[p].user /\ r.item = req[p].item
      /\ r.holder = req[p].holder /\ r.excluded = req[p].excluded /\ r.limit = req[p].limit
  BY <1>1 DEF Request, AnyRequest
<1>3. r \in Request
  <2>1. req'[p] = r  BY DEF Goto, Become, LInv, QInv, TypeOK
  <2>2. QED  BY <2>1 DEF TypeOK
<1>4. Become(p, r, seen[p], t)  BY DEF Goto
<1> HIDE DEF r
<1>5. ReadOk(r, booking)
  <2>1. ReadOk(req[p], booking)  BY DEF LInv, ReadsSound
  <2>2. QED  BY <1>2, <2>1 DEF ReadOk
<1>6. r.op = "create" => \A o \in Proc \ {p} : ~Creates(o, r.item)
  <2> SUFFICES ASSUME r.op = "create", NEW o \in Proc \ {p}, Creates(o, r.item)
               PROVE  FALSE
    OBVIOUS
  <2>1. Creates(p, r.item) /\ r.item \in Item  BY <1>2, <1>3 DEF Creates, Request
  <2>2. QED  BY <2>1 DEF LInv, CreatesApart
<1>7. QED  BY <1>3, <1>4, <1>5, <1>6, BecomeKeeps DEF r

LEMMA FinishKeeps == ASSUME LInv, TypeOK', QInv', NEW p \in Proc, Finish(p) PROVE LInv'
BY IdleOk, BlankType, BecomeKeeps DEF Finish

\* Only a publication touches an item that does not exist.
LEMMA AbsentStays ==
    ASSUME NEW i \in Item, Moves(i), booking[i].status = "absent"
    PROVE  booking'[i] = booking[i]
BY DEF Moves, Shifts, ItemLife!Book, ItemLife!PassOn, ItemLife!Release, ItemLife!Withdraw,
       ItemLife!Delete, ItemLife!Receive, HandedOver, DonorFilter

\* Documents move; handlers see it or end.
LEMMA WriteKeeps ==
    ASSUME LInv, TypeOK', QInv', NEW I \in SUBSET Item, NEW U \in SUBSET User,
           Noticed(I, U), \A i \in Item : Moves(i) \/ ItemLife!Publish(i),
           \A o \in Proc : \/ req'[o] = Idle
                           \/ req'[o] = req[o] /\ tx'[o] = Missed(o, I, U),
           \A o \in Proc : req'[o] = req[o] /\ req[o].op = "create" => Moves(req[o].item)
    PROVE  LInv'
<1>1. \A i \in Item : booking[i] \in ItemDoc /\ DocOk(i, booking[i])
  BY DEF LInv, QInv, TypeOK, DocsSound
<1>2. DocsSound'  BY <1>1, MoveKeeps DEF DocsSound
<1>3. ReadsSound'
  <2> SUFFICES ASSUME NEW o \in Proc PROVE ReadOk(req'[o], booking')
    BY DEF ReadsSound
  <2>1. CASE req'[o] = Idle  BY <2>1, IdleOk
  <2>2. CASE req'[o] = req[o]
    <3> DEFINE r == req[o]
    <3>1. ReadOk(r, booking) /\ r \in Request  BY DEF LInv, QInv, TypeOK, ReadsSound
    <3>2. ASSUME r.op = "create" PROVE booking'[r.item].status = "absent"
      BY <2>2, <3>1, <3>2, AbsentStays DEF ReadOk, Request
    <3>3. ASSUME r.op \in {"cancel", "expire"}
          PROVE  HeldAsRead(r.item, booking'[r.item], r.holder, r.excluded)
      <4>1. r.item \in Item /\ r.holder \in User  BY <3>1, <3>3 DEF Request
      <4>2. HeldAsRead(r.item, booking[r.item], r.holder, r.excluded)
        BY <3>1, <3>3 DEF ReadOk
      <4>3. QED  BY <1>1, <4>1, <4>2, MoveKeeps
    <3>4. QED  BY <2>2, <3>1, <3>2, <3>3 DEF ReadOk
  <2>3. QED  BY <2>1, <2>2
<1>4. TxsSound'
  <2> SUFFICES ASSUME NEW o \in Proc
               PROVE  TxOk(req'[o], tx'[o], booking', overdue', EligibleNow')
    BY DEF TxsSound
  <2>1. CASE req'[o] = Idle  BY <2>1, IdleOk
  <2>2. CASE req'[o] = req[o] /\ tx'[o] = Missed(o, I, U)
    <3>1. TxOk(req[o], tx[o], booking, overdue, EligibleNow)  BY DEF LInv, TxsSound
    <3>2. TypeOK  BY DEF LInv, QInv
    <3>3. TxOk(req[o], Missed(o, I, U), booking', overdue', EligibleNow')
      BY <3>1, <3>2, OthersKeep
    <3>4. QED  BY <2>2, <3>3
  <2>3. QED  BY <2>1, <2>2
<1>5. CreatesApart'
  <2>1. \A o \in Proc, i \in Item : Creates(o, i)' => Creates(o, i)
    BY IdleOk DEF Creates
  <2>2. QED  BY <2>1 DEF LInv, CreatesApart
<1>6. QED  BY <1>2, <1>3, <1>4, <1>5 DEF LInv

\* A single-document update that gives nobody the item.
LEMMA UpdateKeeps ==
    ASSUME LInv, TypeOK', QInv', NEW i \in Item, NEW d, NEW q, UpdateItem(i, d, q),
           NEW U \in SUBSET User, AllMiss({i}, U), Moves(i),
           \A u \in User : Holds(d, u) => Holds(booking[i], u),
           \A o \in Proc : req'[o] = req[o] \/ req'[o] = Idle
    PROVE  LInv'
<1>1. \A j \in Item : j # i => booking'[j] = booking[j]
  BY DEF UpdateItem, LInv, QInv, TypeOK
<1>2. booking'[i] = d /\ EligibleNow' = EligibleNow /\ overdue \ {i} \subseteq overdue'
  BY DEF UpdateItem, LInv, QInv, TypeOK, EligibleNow
<1>3. \A j \in Item : Moves(j)  BY <1>1 DEF Moves, Shifts
<1>4. Noticed({i}, U)
  <2>1. ASSUME NEW u \in User, NEW j \in Item, OwnedBy(booking', u, j)
        PROVE  OwnedBy(booking, u, j)
    <3>1. CASE j = i
      <4>1. booking[i] \in ItemDoc  BY DEF LInv, QInv, TypeOK
      <4>2. QED  BY <1>2, <2>1, <3>1, <4>1, MoveOwners
    <3>2. CASE j # i  BY <1>1, <2>1, <3>2 DEF OwnedBy
    <3>3. QED  BY <3>1, <3>2
  <2>2. QED  BY <1>1, <1>2, <2>1 DEF Noticed
<1>5. \A o \in Proc : \/ req'[o] = Idle
                      \/ req'[o] = req[o] /\ tx'[o] = Missed(o, {i}, U)
  BY DEF AllMiss
<1>6. \A o \in Proc : req[o].op = "create" => req[o].item \in Item
  BY DEF LInv, QInv, TypeOK, Request
<1>7. QED  BY <1>3, <1>4, <1>5, <1>6, WriteKeeps

\* The transaction of p is computed: it writes one item.
LEMMA WritesReady ==
    ASSUME LInv, TypeOK', QInv', NEW p \in Proc, NEW i \in Item, NEW d \in ItemDoc,
           NEW P \in SUBSET User, NEW L \in SUBSET User, NEW t, t = Writes(i, d, P, L),
           Goto(p, "commit", t), req[p].op \in {"create", "book", "cancel", "expire"},
           WriteOk(req[p], t, i, booking[i], i \in overdue),
           req[p].op \in {"cancel", "expire"} => L \subseteq EligibleNow,
           req[p].op = "create" =>
              req[p].user \in L /\ Cardinality(ActiveIn(booking, req[p].user)) < req[p].limit
    PROVE  LInv'
<1> DEFINE r == [req[p] EXCEPT !.pc = "commit"]
<1>1. req[p] \in Request  BY DEF LInv, QInv, TypeOK
<1>2. /\ r.op = req[p].op /\ r.user = req[p].user /\ r.item = req[p].item /\ r.pc = "commit"
      /\ r.holder = req[p].holder /\ r.excluded = req[p].excluded /\ r.limit = req[p].limit
  BY <1>1 DEF Request, AnyRequest
<1>3. t.docs = {i} /\ t.locks = L /\ t.bans = {} /\ t.todo = {} /\ t.missI = {} /\ t.missU = {}
  BY DEF Writes, NoTx
<1> HIDE DEF r
<1>4. WriteOk(r, t, i, booking[i], i \in overdue)  BY <1>2 DEF WriteOk
<1>5. TxOk(r, t, booking, overdue, EligibleNow)  BY <1>2, <1>3, <1>4 DEF TxOk
<1>6. QED  BY <1>5, GotoKeeps DEF r

\* It only takes locks.
LEMMA LocksReady ==
    ASSUME LInv, TypeOK', QInv', NEW p \in Proc, NEW L \in SUBSET User,
           Goto(p, "commit", LocksOnly(L)), req[p].op \in {"book", "cancel", "expire"},
           req[p].op \in {"cancel", "expire"} => L \subseteq EligibleNow
    PROVE  LInv'
<1> DEFINE r == [req[p] EXCEPT !.pc = "commit"]   t == LocksOnly(L)
<1>1. req[p] \in Request  BY DEF LInv, QInv, TypeOK
<1>2. r.op = req[p].op /\ r.pc = "commit"  BY <1>1 DEF Request, AnyRequest
<1>3. t.docs = {} /\ t.locks = L /\ t.bans = {} /\ t.todo = {}
  BY DEF LocksOnly, NoTx
<1> HIDE DEF r, t
<1>4. TxOk(r, t, booking, overdue, EligibleNow)  BY <1>2, <1>3 DEF TxOk
<1>5. QED  BY <1>4, GotoKeeps DEF r, t

LEMMA CreateBeginKeeps ==
    ASSUME LInv, TypeOK', QInv', NEW p \in Proc, CreateBegin(p) PROVE LInv'
<1> DEFINE u == req[p].user   i == req[p].item   d == [Blank EXCEPT !.status = "available"]
           t == Writes(i, d, {}, {u})
<1>1. u \in User /\ i \in Item /\ req[p].op = "create" /\ req[p].limit \in Nat
  BY DEF LInv, QInv, TypeOK, Request, AnyRequest, CreateBegin
<1>2. CASE Finish(p)  BY <1>2, FinishKeeps
<1>3. CASE Cardinality(ActiveIn(booking, u)) < req[p].limit /\ Goto(p, "commit", t)
  <2>1. t.after[i] = d  BY <1>1 DEF Writes, NoTx
  <2>2. WriteOk(req[p], t, i, booking[i], i \in overdue)  BY <1>1, <2>1 DEF WriteOk
  <2>3. d \in ItemDoc  BY BlankType
  <2> HIDE DEF d
  <2>4. QED  BY <1>1, <1>3, <2>2, <2>3, WritesReady
<1>4. Cardinality(ActiveIn(booking, u)) \in Nat
  BY FS_Subset, FS_CardinalityType, BookingAssumption DEF ActiveIn
<1>5. QED  BY <1>1, <1>2, <1>3, <1>4 DEF CreateBegin

LEMMA BookBeginKeeps ==
    ASSUME LInv, TypeOK', QInv', NEW p \in Proc, BookBegin(p) PROVE LInv'
<1> DEFINE u == req[p].user   i == req[p].item   d == BookedBy(booking[i], u)
           t == Writes(i, d, {u}, {u})
<1>1. u \in User /\ i \in Item /\ req[p].op = "book"
  BY DEF LInv, QInv, TypeOK, Request, BookBegin
<1>2. CASE Finish(p)  BY <1>2, FinishKeeps
<1>3. CASE BookFilter(booking[i], u) /\ Goto(p, "commit", t)
  <2>1. t.after[i] = d /\ t.pulls[i] = {u}  BY <1>1 DEF Writes, NoTx
  <2>2. WriteOk(req[p], t, i, booking[i], i \in overdue)  BY <1>1, <1>3, <2>1 DEF WriteOk
  <2>3. booking[i] \in ItemDoc  BY <1>1 DEF LInv, QInv, TypeOK
  <2>4. d \in ItemDoc  BY <1>1, <2>3, DocUpdates
  <2> HIDE DEF d
  <2>5. QED  BY <1>1, <1>3, <2>2, <2>4, WritesReady
<1>4. CASE Goto(p, "commit", LocksOnly({u}))  BY <1>1, <1>4, LocksReady
<1>5. QED  BY <1>2, <1>3, <1>4 DEF BookBegin

\* The waiter at the first promotable position k is among those pulled, is not
\* excluded and is eligible.
LEMMA FirstOk ==
    ASSUME NEW q, NEW i, NEW excluded, NEW docs, NEW eligible \in SUBSET User, NEW k,
           IsFirst(k, Promotable(q, i, excluded, docs, eligible))
    PROVE  q[k] \in UpTo(q, k) /\ q[k] \in eligible /\ q[k] \notin excluded /\ q[k] \in User
BY DEF IsFirst, Promotable, UpTo

LEMMA CancelBeginKeeps ==
    ASSUME LInv, TypeOK', QInv', NEW p \in Proc, CancelBegin(p) PROVE LInv'
<1> DEFINE r == req[p]   i == r.item   q == seen[p]
           S == Promotable(q, i, r.excluded, booking, EligibleNow)
           d(k) == Barred(BookedBy(booking[i], q[k]), r.holder)
           t(k) == Writes(i, d(k), UpTo(q, k), {q[k]})
<1>1. i \in Item /\ r.holder \in User /\ r.op = "cancel" /\ booking[i] \in ItemDoc
  BY DEF LInv, QInv, TypeOK, Request, CancelBegin
<1>2. CASE Goto(p, "release", NoTx)
  <2>1. r \in Request  BY DEF LInv, QInv, TypeOK
  <2>2. [r EXCEPT !.pc = "release"].pc = "release"  BY <2>1 DEF Request, AnyRequest
  <2>3. QED  BY <1>2, <2>2, NoTxOk, GotoKeeps
<1>3. ASSUME NEW k, IsFirst(k, S)
      PROVE  q[k] \in UpTo(q, k) /\ q[k] \in EligibleNow /\ q[k] \notin r.excluded /\ q[k] \in User
  BY <1>3, FirstOk DEF EligibleNow
<1>4. ASSUME NEW k, IsFirst(k, S), CancelFilter(booking[i], r.holder), Goto(p, "commit", t(k))
      PROVE  LInv'
  <2>1. t(k).after[i] = d(k) /\ t(k).pulls[i] = UpTo(q, k)  BY <1>1 DEF Writes, NoTx
  <2>2. q[k] \in t(k).pulls[i] \ r.excluded  BY <1>3, <1>4, <2>1
  <2>3. Relieved(booking[i], d(k), r.holder, t(k).pulls[i] \ r.excluded)
    BY <2>2 DEF Relieved
  <2> HIDE DEF t
  <2>4. WriteOk(r, t(k), i, booking[i], i \in overdue)
    BY <1>1, <1>4, <2>1, <2>3 DEF WriteOk
  <2>5. d(k) \in ItemDoc  BY <1>1, <1>3, <1>4, DocUpdates
  <2>6. UpTo(q, k) \in SUBSET User /\ {q[k]} \in SUBSET User  BY <1>3, <1>4, UpToType
  <2> HIDE DEF d
  <2>7. t(k) = Writes(i, d(k), UpTo(q, k), {q[k]})  BY DEF t
  <2>8. {q[k]} \subseteq EligibleNow  BY <1>3, <1>4
  <2>9. QED  BY <1>1, <1>4, <2>4, <2>5, <2>6, <2>7, <2>8, WritesReady
<1>5. ASSUME NEW k, IsFirst(k, S), Goto(p, "commit", LocksOnly({q[k]})) PROVE LInv'
  BY <1>1, <1>3, <1>5, LocksReady
<1>6. QED  BY <1>2, <1>4, <1>5 DEF CancelBegin

LEMMA ExpireBeginKeeps ==
    ASSUME LInv, TypeOK', QInv', NEW p \in Proc, ExpireBegin(p) PROVE LInv'
<1> DEFINE r == req[p]   i == r.item   q == seen[p]
           E == EligibleNow \ r.excluded
           S == Promotable(q, i, r.excluded, booking, EligibleNow)
           d0 == Barred(Unbooked(booking[i], "available"), r.holder)
           L0 == Members(q) \cap E
           d(k) == Barred(BookedBy(booking[i], q[k]), r.holder)
           L(k) == {q[k]} \cup (UpTo(q, k) \cap E)
<1>1. i \in Item /\ r.holder \in User /\ r.op = "expire" /\ booking[i] \in ItemDoc
  BY DEF LInv, QInv, TypeOK, Request, ExpireBegin
<1>2. \A st \in Status : Unbooked(booking[i], st) \in ItemDoc  BY <1>1, DocUpdates
<1>3. ASSUME NEW e \in ItemDoc, NEW P \in SUBSET User, NEW M \in SUBSET User,
             M \subseteq EligibleNow, ExpireFilter(i, r.holder),
             Relieved(booking[i], e, r.holder, P \ r.excluded),
             Goto(p, "commit", Writes(i, e, P, M))
      PROVE  LInv'
  <2> DEFINE t == Writes(i, e, P, M)
  <2>1. t.after[i] = e /\ t.pulls[i] = P  BY <1>1 DEF Writes, NoTx
  <2>2. WriteOk(r, t, i, booking[i], i \in overdue)
    BY <1>1, <1>3, <2>1 DEF WriteOk, ExpireFilter
  <2>3. QED  BY <1>1, <1>3, <2>2, WritesReady
<1>4. ASSUME ExpireFilter(i, r.holder), Goto(p, "commit", Writes(i, d0, Members(q), L0))
      PROVE  LInv'
  <2>1. d0 \in ItemDoc  BY <1>1, <1>2, DocUpdates DEF Status
  <2>2. Members(q) \in SUBSET User /\ L0 \in SUBSET User /\ L0 \subseteq EligibleNow
    BY UpToType
  <2>3. Relieved(booking[i], d0, r.holder, Members(q) \ r.excluded)  BY DEF Relieved
  <2> HIDE DEF d0, L0
  <2>4. QED  BY <1>3, <1>4, <2>1, <2>2, <2>3
<1>5. ASSUME Goto(p, "commit", LocksOnly(L0)) PROVE LInv'
  <2>1. L0 \in SUBSET User /\ L0 \subseteq EligibleNow  BY UpToType
  <2> HIDE DEF L0
  <2>2. QED  BY <1>1, <1>5, <2>1, LocksReady
<1>6. ASSUME NEW k, IsFirst(k, S)
      PROVE  /\ q[k] \in UpTo(q, k) /\ q[k] \in EligibleNow /\ q[k] \notin r.excluded
             /\ q[k] \in User /\ L(k) \in SUBSET User /\ L(k) \subseteq EligibleNow
             /\ UpTo(q, k) \in SUBSET User
  BY <1>6, FirstOk, UpToType DEF EligibleNow
<1>7. ASSUME NEW k, IsFirst(k, S), ExpireFilter(i, r.holder),
             Goto(p, "commit", Writes(i, d(k), UpTo(q, k), L(k)))
      PROVE  LInv'
  <2>1. d(k) \in ItemDoc  BY <1>1, <1>6, <1>7, DocUpdates
  <2>2. q[k] \in UpTo(q, k) \ r.excluded  BY <1>6, <1>7
  <2>3. Relieved(booking[i], d(k), r.holder, UpTo(q, k) \ r.excluded)
    BY <2>2 DEF Relieved
  <2>4. L(k) \in SUBSET User /\ L(k) \subseteq EligibleNow /\ UpTo(q, k) \in SUBSET User
    BY <1>6, <1>7
  <2> HIDE DEF d, L
  <2>5. QED  BY <1>3, <1>7, <2>1, <2>3, <2>4
<1>8. ASSUME NEW k, IsFirst(k, S), Goto(p, "commit", LocksOnly(L(k))) PROVE LInv'
  <2>1. L(k) \in SUBSET User /\ L(k) \subseteq EligibleNow  BY <1>6, <1>8
  <2> HIDE DEF L
  <2>2. QED  BY <1>1, <1>8, <2>1, LocksReady
<1>9. QED  BY <1>4, <1>5, <1>7, <1>8 DEF ExpireBegin

LEMMA BanBeginKeeps ==
    ASSUME LInv, TypeOK', QInv', NEW p \in Proc, BanBegin(p) PROVE LInv'
<1> DEFINE u == req[p].user
           T == {i \in Item : IsActive(booking[i]) /\ (Donor[i] = u \/ booking[i].holder = u)}
           t == [NoTx EXCEPT !.after = booking, !.bans = {u}, !.todo = T,
                             !.eligible = EligibleNow \ {u},
                             !.pulls = [i \in Item |->
                                 IF u \in Members(waitlist[i]) THEN {u} ELSE {}]]
           r(pc) == [req[p] EXCEPT !.pc = pc]
<1>1. req[p] \in Request /\ req[p].op = "ban"
  BY DEF LInv, QInv, TypeOK, BanBegin
<1>2. \A pc : r(pc).op = "ban" /\ r(pc).user = u /\ r(pc).pc = pc
  BY <1>1 DEF Request, AnyRequest
<1>3. /\ t.docs = {} /\ t.locks = {} /\ t.bans = {u} /\ t.todo = T /\ t.missU = {}
      /\ t.after = booking /\ t.eligible = EligibleNow \ {u}
  BY DEF NoTx
<1>4. \A j \in Item : OwnedBy(booking, u, j) <=> j \in T  BY DEF OwnedBy
<1>5. T \subseteq Item  OBVIOUS
<1>6. (T = {} /\ Goto(p, "commit", t)) \/ Goto(p, "loop", t)  BY DEF BanBegin
<1> HIDE DEF t, r, T
<1>7. ASSUME NEW pc, pc = "loop" \/ (pc = "commit" /\ T = {})
      PROVE  TxOk(r(pc), t, booking, overdue, EligibleNow)
  BY <1>2, <1>3, <1>4, <1>5, <1>7 DEF TxOk
<1>8. CASE T = {} /\ Goto(p, "commit", t)
  <2>1. TxOk(r("commit"), t, booking, overdue, EligibleNow)  BY <1>7, <1>8
  <2>2. QED  BY <1>8, <2>1, GotoKeeps DEF r
<1>9. CASE Goto(p, "loop", t)
  <2>1. TxOk(r("loop"), t, booking, overdue, EligibleNow)  BY <1>7
  <2>2. QED  BY <1>9, <2>1, GotoKeeps DEF r
<1>10. QED  BY <1>6, <1>8, <1>9

\* What makes the transaction of a ban sound.
LEMMA BanTxOk ==
    ASSUME NEW r, r.op = "ban", NEW t, NEW docs, NEW late, NEW fit,
           \A i \in t.docs \ t.missI : WriteOk(r, t, i, docs[i], i \in late),
           t.locks \ t.missU \subseteq fit,
           t.bans = {r.user},
           r.user \notin t.missU =>
              \A j \in Item \ (t.docs \cup t.todo) : ~OwnedBy(docs, r.user, j),
           r.pc = "commit" => t.todo = {},
           \A j \in Item \ (t.docs \cup t.missI) : t.after[j] = docs[j],
           t.todo \cap t.docs = {},
           \A j \in t.todo : OwnedBy(t.after, r.user, j),
           t.eligible \ t.missU \subseteq fit \ {r.user}
    PROVE  TxOk(r, t, docs, late, fit)
BY DEF TxOk

\* The loop of a ban treats one more item.
LEMMA TreatedOk ==
    ASSUME NEW r \in Request, r.op = "ban", r.pc = "loop", NEW t \in Transaction,
           TxOk(r, t, booking, overdue, EligibleNow), NEW i \in t.todo,
           DocsSound, booking \in [Item -> ItemDoc],
           NEW e \in ItemDoc, NEW P \in SUBSET User, NEW L \in SUBSET User,
           L \subseteq t.eligible,
           \/ Donor[i] = r.user /\ e = Unbooked(t.after[i], "hidden")
           \/ /\ Donor[i] # r.user
              /\ Relieved(t.after[i], e, r.user,
                          P \ ({Donor[i], r.user} \cup t.after[i].cancelledBy)),
           NEW r2, r2.op = "ban", r2.user = r.user, r2.item = r.item,
           r2.pc = IF t.todo = {i} THEN "commit" ELSE "loop"
    PROVE  TxOk(r2, Treated(t, i, e, P, L), booking, overdue, EligibleNow)
<1> DEFINE u == r.user   t2 == Treated(t, i, e, P, L)
<1>1. i \in Item /\ u \in User /\ t.docs \subseteq Item /\ t.locks \subseteq User /\ NoUser \notin User
      /\ t.eligible \subseteq User /\ t.todo \subseteq Item
  BY BookingAssumption DEF Transaction, Request
<1>2. r2.op = "ban" /\ r2.user = u /\ r2.item = r.item
  OBVIOUS
<1>3. /\ t2.docs = t.docs \cup {i} /\ t2.locks = t.locks \cup L /\ t2.todo = t.todo \ {i}
      /\ t2.missU = t.missU /\ t2.missI = t.missI /\ t2.bans = t.bans
      /\ t2.eligible = t.eligible
      /\ t2.after[i] = e /\ \A j \in Item \ {i} : t2.after[j] = t.after[j]
  BY <1>1 DEF Treated, Transaction
<1>4. P \subseteq t2.pulls[i] /\ \A j \in Item \ {i} : t2.pulls[j] = t.pulls[j]
  BY <1>1 DEF Treated, Transaction
<1>5. i \notin t.docs /\ OwnedBy(t.after, u, i)  BY DEF TxOk
<1> HIDE DEF t2
<1>6. ASSUME i \notin t.missI PROVE WriteOk(r2, t2, i, booking[i], i \in overdue)
  <2> DEFINE d == booking[i]
  <2>1. t.after[i] = d  BY <1>1, <1>5, <1>6 DEF TxOk
  <2>2. IsActive(d) /\ u \in {Donor[i], d.holder}  BY <1>5, <2>1 DEF OwnedBy
  <2>3. CASE Donor[i] = u /\ e = Unbooked(d, "hidden")
    BY <1>2, <1>3, <2>2, <2>3 DEF WriteOk
  <2>4. CASE Donor[i] # u /\ Relieved(d, e, u, P \ ({Donor[i], u} \cup d.cancelledBy))
    <3>1. Holds(d, u)
      BY <1>1, <2>2, <2>4 DEF DocsSound, DocOk, IsActive, Holds
    <3>2. Relieved(d, e, u, t2.pulls[i] \ ({Donor[i], u} \cup d.cancelledBy))
      BY <1>4, <2>4 DEF Relieved
    <3>3. QED  BY <1>2, <1>3, <2>4, <3>1, <3>2 DEF WriteOk
  <2>5. QED  BY <2>1, <2>3, <2>4
<1>7. ASSUME NEW j \in t2.docs \ t2.missI PROVE WriteOk(r2, t2, j, booking[j], j \in overdue)
  <2>1. CASE j = i  BY <1>3, <1>6, <1>7, <2>1
  <2>2. CASE j # i
    <3>1. j \in t.docs \ t.missI /\ j \in Item  BY <1>1, <1>3, <1>7, <2>2
    <3>2. WriteOk(r, t, j, booking[j], j \in overdue)  BY <3>1 DEF TxOk
    <3>3. t2.after[j] = t.after[j] /\ t2.pulls[j] = t.pulls[j]  BY <1>3, <1>4, <2>2, <3>1
    <3>4. QED  BY <1>2, <3>2, <3>3 DEF WriteOk
  <2>3. QED  BY <2>1, <2>2
<1>8. t2.locks \ t2.missU \subseteq EligibleNow  BY <1>3 DEF TxOk
<1>9. t2.docs \cup t2.todo = t.docs \cup t.todo  BY <1>3
<1>10. /\ t2.bans = {u}
       /\ u \notin t2.missU =>
             \A j \in Item \ (t2.docs \cup t2.todo) : ~OwnedBy(booking, u, j)
  BY <1>3, <1>9 DEF TxOk
<1>11. r2.pc = "commit" => t2.todo = {}  BY <1>3
<1>12. /\ \A j \in Item \ (t2.docs \cup t2.missI) : t2.after[j] = booking[j]
       /\ t2.todo \cap t2.docs = {}
       /\ t2.eligible \ t2.missU \subseteq EligibleNow \ {u}
  BY <1>3 DEF TxOk
<1>13. \A j \in t2.todo : OwnedBy(t2.after, u, j)  BY <1>1, <1>3 DEF TxOk, OwnedBy
<1> HIDE DEF u
<1>14. /\ r2.op = "ban"
       /\ \A j \in t2.docs \ t2.missI : WriteOk(r2, t2, j, booking[j], j \in overdue)
       /\ t2.locks \ t2.missU \subseteq EligibleNow
       /\ r2.pc = "commit" => t2.todo = {}
       /\ \A j \in Item \ (t2.docs \cup t2.missI) : t2.after[j] = booking[j]
       /\ t2.todo \cap t2.docs = {}
  BY <1>2, <1>7, <1>8, <1>11, <1>12
<1>15. /\ t2.bans = {r2.user}
       /\ r2.user \notin t2.missU =>
             \A j \in Item \ (t2.docs \cup t2.todo) : ~OwnedBy(booking, r2.user, j)
       /\ \A j \in t2.todo : OwnedBy(t2.after, r2.user, j)
       /\ t2.eligible \ t2.missU \subseteq EligibleNow \ {r2.user}
  BY <1>2, <1>10, <1>12, <1>13
<1>16. TxOk(r2, t2, booking, overdue, EligibleNow)  BY <1>14, <1>15, BanTxOk
<1>17. QED  BY <1>16 DEF t2

LEMMA BanItemKeeps ==
    ASSUME LInv, TypeOK', QInv', NEW p \in Proc, BanItem(p) PROVE LInv'
<1> DEFINE r == req[p]   u == r.user   t == tx[p]
           S(i) == Promotable(waitlist[i], i, {Donor[i], u} \cup t.after[i].cancelledBy,
                              t.after, t.eligible)
           Treat(i, e, P, L) == Goto(p, IF t.todo = {i} THEN "commit" ELSE "loop",
                                     Treated(t, i, e, P, L))
<1>1. u \in User /\ r \in Request /\ r.op = "ban" /\ r.pc = "loop"
  BY DEF LInv, QInv, TypeOK, Request, BanItem
<1>2. /\ t \in Transaction /\ TxOk(r, t, booking, overdue, EligibleNow)
      /\ t.eligible \subseteq User /\ t.todo \subseteq Item
      /\ \A i \in Item : t.after[i] \in ItemDoc
      /\ DocsSound /\ booking \in [Item -> ItemDoc]
  BY DEF LInv, QInv, TypeOK, TxsSound, Transaction
<1>3. ASSUME NEW i \in t.todo, NEW e \in ItemDoc, NEW P \in SUBSET User, NEW L \in SUBSET User,
             L \subseteq t.eligible, Treat(i, e, P, L),
             \/ Donor[i] = u /\ e = Unbooked(t.after[i], "hidden")
             \/ /\ Donor[i] # u
                /\ Relieved(t.after[i], e, u,
                            P \ ({Donor[i], u} \cup t.after[i].cancelledBy))
      PROVE  LInv'
  <2> DEFINE pc == IF t.todo = {i} THEN "commit" ELSE "loop"
             r2 == [r EXCEPT !.pc = pc]
  <2>1. r2.op = "ban" /\ r2.user = u /\ r2.item = r.item /\ r2.pc = pc
    BY <1>1 DEF Request, AnyRequest
  <2> HIDE DEF r2
  <2>2. TxOk(r2, Treated(t, i, e, P, L), booking, overdue, EligibleNow)
    BY <1>1, <1>2, <1>3, <2>1, TreatedOk
  <2>3. QED  BY <1>3, <2>2, GotoKeeps DEF r2
<1>4. PICK i \in t.todo :
        LET d == t.after[i]   q == waitlist[i] IN
        \/ /\ Donor[i] = u
           /\ Treat(i, Unbooked(d, "hidden"), Members(q), {})
        \/ /\ Donor[i] # u
           /\ Treat(i, Barred(Unbooked(d, "available"), u), {u} \cup Members(q), {})
        \/ \E k : /\ Donor[i] # u /\ IsFirst(k, S(i))
                  /\ Treat(i, Barred(BookedBy(d, q[k]), u), {u} \cup UpTo(q, k), {q[k]})
  BY DEF BanItem
<1> DEFINE d == t.after[i]   q == waitlist[i]
<1>5. i \in Item /\ d \in ItemDoc  BY <1>2
<1>6. Unbooked(d, "hidden") \in ItemDoc /\ Barred(Unbooked(d, "available"), u) \in ItemDoc
  <2>1. Unbooked(d, "hidden") \in ItemDoc /\ Unbooked(d, "available") \in ItemDoc
    BY <1>5, DocUpdates DEF Status
  <2>2. QED  BY <1>1, <2>1, DocUpdates
<1>7. CASE Donor[i] = u /\ Treat(i, Unbooked(d, "hidden"), Members(q), {})
  <2>1. Members(q) \in SUBSET User /\ {} \in SUBSET User /\ {} \subseteq t.eligible  BY UpToType
  <2> HIDE DEF Treat
  <2>2. QED  BY <1>3, <1>6, <1>7, <2>1
<1>8. CASE /\ Donor[i] # u
           /\ Treat(i, Barred(Unbooked(d, "available"), u), {u} \cup Members(q), {})
  <2> DEFINE e == Barred(Unbooked(d, "available"), u)   P == {u} \cup Members(q)
  <2>1. P \in SUBSET User /\ {} \in SUBSET User /\ {} \subseteq t.eligible  BY <1>1, UpToType
  <2>2. Relieved(d, e, u, P \ ({Donor[i], u} \cup d.cancelledBy))  BY DEF Relieved
  <2>3. e \in ItemDoc /\ Treat(i, e, P, {}) /\ Donor[i] # u  BY <1>6, <1>8
  <2> HIDE DEF Treat, e, P
  <2>4. QED  BY <1>3, <2>1, <2>2, <2>3
<1>9. ASSUME NEW k, Donor[i] # u, IsFirst(k, S(i)),
             Treat(i, Barred(BookedBy(d, q[k]), u), {u} \cup UpTo(q, k), {q[k]})
      PROVE  LInv'
  <2> DEFINE e == Barred(BookedBy(d, q[k]), u)   P == {u} \cup UpTo(q, k)
  <2>1. /\ q[k] \in UpTo(q, k) /\ q[k] \in t.eligible /\ q[k] \in User
        /\ q[k] \notin {Donor[i], u} \cup d.cancelledBy
    BY <1>2, <1>9, FirstOk
  <2>2. P \in SUBSET User /\ {q[k]} \in SUBSET User /\ {q[k]} \subseteq t.eligible
    BY <1>1, <2>1, UpToType
  <2>3. Relieved(d, e, u, P \ ({Donor[i], u} \cup d.cancelledBy))  BY <2>1 DEF Relieved
  <2>4. e \in ItemDoc  BY <1>1, <1>5, <2>1, DocUpdates
  <2>5. Treat(i, e, P, {q[k]}) /\ Donor[i] # u  BY <1>9
  <2> HIDE DEF Treat, e, P
  <2>6. QED  BY <1>3, <2>2, <2>3, <2>4, <2>5
<1>10. QED  BY <1>4, <1>7, <1>8, <1>9

\* The facts about a transaction that commits.
LEMMA CommitFacts ==
    ASSUME LInv, NEW p \in Proc, CommitTx(p), NEW r, r = req[p], NEW t, t = tx[p]
    PROVE  /\ r \in Request /\ t \in Transaction
           /\ \A i \in Item \ t.docs : booking'[i] = booking[i]
           /\ \A i \in t.docs : booking'[i] = t.after[i] /\ i \notin t.missI
           /\ \A i \in t.docs : WriteOk(r, t, i, booking[i], i \in overdue)
           /\ \A i \in t.docs : r.op = "create" => ItemLife!Publish(i)
           /\ \A i \in t.docs : r.op # "create" => Shifts(i) /\ IsActive(booking[i])
           /\ \A u \in t.locks \cup t.bans : u \notin t.missU
           /\ \A i \in t.docs, u \in User : Holds(booking'[i], u) => u \in t.locks
<1>1. r \in Request /\ t \in Transaction /\ t.docs \subseteq Item
  BY DEF LInv, QInv, TypeOK, Transaction
<1>2. \A i \in Item \ t.docs : booking'[i] = booking[i]  BY DEF CommitTx
<1>3. \A i \in t.docs : booking'[i] = t.after[i] /\ i \notin t.missI
  BY <1>1 DEF CommitTx, Conflicts, WrittenItems
<1>4. \A u \in t.locks \cup t.bans : u \notin t.missU
  BY DEF CommitTx, Conflicts, WrittenUsers
<1>5. TxOk(r, t, booking, overdue, EligibleNow) /\ r.pc = "commit"
  BY DEF LInv, TxsSound, CommitTx
<1>6. \A i \in t.docs : WriteOk(r, t, i, booking[i], i \in overdue)  BY <1>3, <1>5 DEF TxOk
<1>7. \A i \in Item : booking[i] \in ItemDoc /\ DocOk(i, booking[i])
  BY DEF LInv, QInv, TypeOK, DocsSound
<1>8. ReadOk(r, booking)  BY DEF LInv, ReadsSound
<1>9. ASSUME NEW i \in t.docs
      PROVE  /\ r.op = "create" => ItemLife!Publish(i)
             /\ r.op # "create" => Shifts(i) /\ IsActive(booking[i])
  BY <1>1, <1>3, <1>6, <1>7, <1>8, <1>9, WriteMoves
<1>10. LocksItsHolders(t)  BY <1>5 DEF LInv, QInv, SnapshotsSound, SoundAt
<1>11. \A i \in t.docs, u \in User : Holds(booking'[i], u) => u \in t.locks
  BY <1>3, <1>10 DEF LocksItsHolders
<1>12. QED  BY <1>1, <1>2, <1>3, <1>4, <1>6, <1>9, <1>11

LEMMA CommitKeeps ==
    ASSUME LInv, TypeOK', QInv', NEW p \in Proc, CommitTx(p) PROVE LInv'
<1> DEFINE r == req[p]   t == tx[p]   I == WrittenItems(t)   U == WrittenUsers(t)
<1>1. /\ r \in Request /\ t \in Transaction
      /\ \A i \in Item \ t.docs : booking'[i] = booking[i]
      /\ \A i \in t.docs : booking'[i] = t.after[i]
      /\ \A i \in t.docs : WriteOk(r, t, i, booking[i], i \in overdue)
      /\ \A i \in t.docs : r.op = "create" => ItemLife!Publish(i)
      /\ \A i \in t.docs : r.op # "create" => Shifts(i)
      /\ \A i \in t.docs, u \in User : Holds(booking'[i], u) => u \in t.locks
  BY CommitFacts
<1>2. I \in SUBSET Item /\ U \in SUBSET User /\ t.docs \subseteq I
      /\ t.locks \subseteq U /\ t.bans \subseteq U
  BY <1>1 DEF WrittenItems, WrittenUsers, Transaction
<1>3. TxOk(r, t, booking, overdue, EligibleNow) /\ r.pc = "commit"
  BY DEF LInv, TxsSound, CommitTx
<1>4. ASSUME NEW u \in User \ U, NEW i \in Item, OwnedBy(booking', u, i)
      PROVE  OwnedBy(booking, u, i)
  <2>1. CASE i \notin t.docs  BY <1>1, <1>4, <2>1 DEF OwnedBy
  <2>2. CASE i \in t.docs /\ r.op # "create"
    <3>1. booking[i] \in ItemDoc  BY DEF LInv, QInv, TypeOK
    <3>2. ~Holds(booking'[i], u)  BY <1>1, <1>2, <1>4, <2>2
    <3>3. QED  BY <1>1, <1>4, <2>2, <3>1, <3>2, MoveOwners DEF Moves
  <2>3. CASE i \in t.docs /\ r.op = "create"
    <3>1. i = r.item /\ booking'[i].holder = NoUser
      BY <1>1, <2>3, NewForms DEF WriteOk, ItemLife!Doc
    <3>2. r.user = Donor[i] /\ r.user \in t.locks
      BY <1>3, <2>3, <3>1 DEF LInv, ReadsSound, ReadOk, TxOk
    <3>3. u = r.user  BY <1>4, <3>1, <3>2, BookingAssumption DEF OwnedBy
    <3>4. QED  BY <1>2, <1>4, <3>2, <3>3
  <2>4. QED  BY <2>1, <2>2, <2>3
<1>5. Noticed(I, U)
  <2>1. \A i \in Item \ I : booking'[i] = booking[i] /\ (i \in overdue => i \in overdue')
    BY <1>1, <1>2 DEF CommitTx
  <2>2. \A u \in User \ U : u \in EligibleNow => u \in EligibleNow'
    BY <1>2 DEF CommitTx, EligibleNow
  <2>3. QED  BY <1>4, <2>1, <2>2 DEF Noticed
<1>6. \A i \in Item : Moves(i) \/ ItemLife!Publish(i)  BY <1>1 DEF Moves, Shifts
<1>7. \A o \in Proc : \/ o = p /\ req'[o] = Idle
                      \/ o # p /\ req'[o] = req[o] /\ tx'[o] = Missed(o, I, U)
  BY DEF CommitTx, LInv, QInv, TypeOK
<1>8. ASSUME NEW o \in Proc, req'[o] = req[o], req[o].op = "create"
      PROVE  Moves(req[o].item)
  <2> DEFINE j == req[o].item
  <2>1. o # p  BY <1>3, <1>7, <1>8 DEF Idle
  <2>2. j \in Item  BY <1>8 DEF LInv, QInv, TypeOK, Request
  <2>3. CASE j \notin t.docs  BY <1>1, <2>2, <2>3 DEF Moves, Shifts
  <2>4. CASE j \in t.docs /\ r.op # "create"  BY <1>1, <2>4 DEF Moves
  <2>5. CASE j \in t.docs /\ r.op = "create"
    <3>1. j = r.item  BY <1>1, <2>5 DEF WriteOk
    <3>2. Creates(p, j) /\ Creates(o, j)  BY <1>8, <2>5, <3>1 DEF Creates
    <3>3. QED  BY <2>1, <2>2, <3>2 DEF LInv, CreatesApart
  <2>6. QED  BY <2>3, <2>4, <2>5
<1> HIDE DEF I, U
<1>9. QED  BY <1>2, <1>5, <1>6, <1>7, <1>8, WriteKeeps

LEMMA JoinWriteKeeps ==
    ASSUME LInv, TypeOK', QInv', NEW p \in Proc, JoinWrite(p) PROVE LInv'
<1> DEFINE i == req[p].item   u == req[p].user
<1>1. i \in Item  BY DEF LInv, QInv, TypeOK, Request, JoinWrite
<1>2. CASE Finish(p)  BY <1>2, FinishKeeps
<1>3. CASE /\ UpdateItem(i, booking[i], Append(waitlist[i], u))
           /\ AllMiss({i}, {})
           /\ req' = [req EXCEPT ![p] = Idle]
  <2>1. Moves(i)  BY <1>1, <1>3 DEF Moves, Shifts, UpdateItem, LInv, QInv, TypeOK
  <2>2. \A o \in Proc : req'[o] = req[o] \/ req'[o] = Idle
    BY <1>3 DEF LInv, QInv, TypeOK
  <2>3. QED  BY <1>1, <1>3, <2>1, <2>2, UpdateKeeps
<1>4. QED  BY <1>2, <1>3 DEF JoinWrite

LEMMA CancelReleaseKeeps ==
    ASSUME LInv, TypeOK', QInv', NEW p \in Proc, CancelRelease(p) PROVE LInv'
<1> DEFINE r == req[p]   i == r.item
           d == Barred(Unbooked(booking[i], "available"), r.holder)
<1>1. i \in Item /\ r.holder \in User /\ booking[i] \in ItemDoc
  BY DEF LInv, QInv, TypeOK, Request, CancelRelease
<1>2. CASE Finish(p)  BY <1>2, FinishKeeps
<1>3. CASE /\ CancelFilter(booking[i], r.holder)
           /\ UpdateItem(i, d, Pull(waitlist[i], Members(seen[p])))
           /\ AllMiss({i}, {})
           /\ req' = [req EXCEPT ![p] = Idle]
  <2>1. booking'[i] = d  BY <1>1, <1>3 DEF UpdateItem, LInv, QInv, TypeOK
  <2>2. d = ItemLife!Doc("available", NoUser, booking[i].cancelledBy \cup {r.holder})
    BY <1>1, DocForms
  <2>3. booking[i].status = "booked" /\ booking[i].holder = r.holder
    BY <1>3 DEF CancelFilter
  <2>4. ItemLife!Release(i)  BY <2>1, <2>2, <2>3 DEF ItemLife!Release, ItemLife!NowBarred
  <2>5. \A u \in User : ~Holds(d, u)  BY <2>2 DEF ItemLife!Doc, Holds
  <2>6. \A o \in Proc : req'[o] = req[o] \/ req'[o] = Idle
    BY <1>3 DEF LInv, QInv, TypeOK
  <2> HIDE DEF d
  <2>7. QED  BY <1>1, <1>3, <2>4, <2>5, <2>6, UpdateKeeps DEF Moves, Shifts
<1>4. QED  BY <1>2, <1>3 DEF CancelRelease

LEMMA RetryTxKeeps ==
    ASSUME LInv, TypeOK', QInv', NEW p \in Proc, RetryTx(p) PROVE LInv'
<1>1. req[p] \in Request  BY DEF LInv, QInv, TypeOK
<1>2. [req[p] EXCEPT !.pc = "begin"].pc = "begin"  BY <1>1 DEF Request, AnyRequest
<1>3. QED  BY <1>2, NoTxOk, GotoKeeps DEF RetryTx

LEMMA ProcStepKeeps == ASSUME LInv, TypeOK', QInv', NEW p \in Proc, ProcStep(p) PROVE LInv'
BY CreateBeginKeeps, BookBeginKeeps, JoinWriteKeeps, CancelBeginKeeps, CancelReleaseKeeps,
   ExpireBeginKeeps, BanBeginKeeps, BanItemKeeps, CommitKeeps, RetryTxKeeps DEF ProcStep

\* A request arrives: what it read is true of the documents it read.
LEMMA ArrivalKeeps == ASSUME LInv, TypeOK', QInv', NEW p \in Proc, Arrival(p) PROVE LInv'
<1>0. \A i \in Item : booking[i] \in ItemDoc /\ DocOk(i, booking[i]) /\ Donor[i] \in User
  BY BookingAssumption DEF LInv, QInv, TypeOK, DocsSound
<1>1. ASSUME NEW r, NEW q, Become(p, r, q, NoTx) PROVE r \in Request
  <2>1. req'[p] = r  BY <1>1 DEF Become, LInv, QInv, TypeOK
  <2>2. QED  BY <2>1 DEF TypeOK
<1>2. ASSUME NEW i \in Item, CreateRead(p, i) PROVE LInv'
  <2> DEFINE n == IF Donor[i] \in demoted THEN MaxActiveLevel1 ELSE MaxActiveLevel2
             r == [Idle EXCEPT !.op = "create", !.pc = "begin", !.user = Donor[i], !.item = i,
                               !.limit = n]
  <2>1. Become(p, r, <<>>, NoTx)  BY <1>2 DEF CreateRead
  <2>2. /\ r.op = "create" /\ r.pc = "begin" /\ r.user = Donor[i] /\ r.item = i
        /\ r.limit = n
    BY DEF Idle
  <2>3. n <= MaxActiveLevel2  BY BookingAssumption
  <2> HIDE DEF r, n
  <2>4. ReadOk(r, booking)  BY <1>2, <2>2, <2>3 DEF ReadOk, CreateRead
  <2>5. \A o \in Proc \ {p} : ~Creates(o, r.item)  BY <1>2, <2>2 DEF CreateRead, Creates
  <2>6. r \in Request  BY <1>1, <2>1
  <2>7. TxOk(r, NoTx, booking, overdue, EligibleNow)  BY <2>2, NoTxOk
  <2>8. QED  BY <2>1, <2>4, <2>5, <2>6, <2>7, BecomeKeeps
<1>3. ASSUME NEW r, NEW q, Become(p, r, q, NoTx), r.pc \in {"begin", "join", "release"},
             ReadOk(r, booking), r.op # "create"
      PROVE  LInv'
  <2>1. r \in Request  BY <1>1, <1>3
  <2>2. TxOk(r, NoTx, booking, overdue, EligibleNow)  BY <1>3, NoTxOk
  <2>3. QED  BY <1>3, <2>1, <2>2, BecomeKeeps
<1>4. ASSUME NEW i \in Item, NEW h, booking[i].status = "booked", booking[i].holder = h
      PROVE  HeldAsRead(i, booking[i], h, {Donor[i], h} \cup booking[i].cancelledBy)
  BY <1>4 DEF HeldAsRead, Holds
<1>5. ASSUME NEW i \in Item, ExpireScan(p, i) PROVE LInv'
  <2> DEFINE d == booking[i]   x == {Donor[i], d.holder} \cup d.cancelledBy
             r == [Idle EXCEPT !.op = "expire", !.pc = "begin", !.item = i,
                               !.holder = d.holder, !.excluded = x]
  <2>1. Become(p, r, waitlist[i], NoTx)  BY <1>5 DEF ExpireScan
  <2>2. r.op = "expire" /\ r.pc = "begin" /\ r.item = i /\ r.holder = d.holder /\ r.excluded = x
    BY DEF Idle
  <2>3. HeldAsRead(i, d, d.holder, x)  BY <1>4, <1>5 DEF ExpireScan, Expirable
  <2> HIDE DEF r
  <2>4. ReadOk(r, booking)  BY <2>2, <2>3 DEF ReadOk
  <2>5. QED  BY <1>3, <2>1, <2>2, <2>4
<1>6. ASSUME NEW u \in User, NEW i \in Item, CancelRead(p, u, i) PROVE LInv'
  <2> DEFINE d == booking[i]   x == {Donor[i], d.holder} \cup d.cancelledBy
             pc == IF waitlist[i] = <<>> THEN "release" ELSE "begin"
             r == [Idle EXCEPT !.op = "cancel", !.user = u, !.item = i, !.pc = pc,
                               !.holder = d.holder, !.excluded = x]
  <2>1. Become(p, r, waitlist[i], NoTx)  BY <1>6 DEF CancelRead
  <2>2. r.op = "cancel" /\ r.pc = pc /\ r.item = i /\ r.holder = d.holder /\ r.excluded = x
    BY DEF Idle
  <2>3. HeldAsRead(i, d, d.holder, x)  BY <1>4, <1>6 DEF CancelRead
  <2> HIDE DEF r
  <2>4. ReadOk(r, booking)  BY <2>2, <2>3 DEF ReadOk
  <2>5. QED  BY <1>3, <2>1, <2>2, <2>4
<1>7. ASSUME NEW u \in User, BanStart(p, u) PROVE LInv'
  <2> DEFINE r == [Idle EXCEPT !.op = "ban", !.pc = "begin", !.user = u]
  <2>1. Become(p, r, <<>>, NoTx)  BY <1>7 DEF BanStart
  <2>2. r.op = "ban" /\ r.pc = "begin"  BY DEF Idle
  <2> HIDE DEF r
  <2>3. ReadOk(r, booking)  BY <2>2 DEF ReadOk
  <2>4. QED  BY <1>3, <2>1, <2>2, <2>3
<1>8. ASSUME NEW u \in User, NEW i \in Item, BookRead(p, u, i) PROVE LInv'
  <2> DEFINE r(op, pc) == [Idle EXCEPT !.op = op, !.pc = pc, !.user = u, !.item = i]
  <2>1. \/ Become(p, r("book", "begin"), <<>>, NoTx)
        \/ Become(p, r("join", "join"), <<>>, NoTx)
    BY <1>8 DEF BookRead
  <2>2. \A op, pc : /\ r(op, pc).op = op /\ r(op, pc).pc = pc
                    /\ r(op, pc).user = u /\ r(op, pc).item = i
    BY DEF Idle
  <2>3. u # Donor[i]  BY <1>8 DEF BookRead
  <2> HIDE DEF r
  <2>4. ReadOk(r("book", "begin"), booking) /\ ReadOk(r("join", "join"), booking)
    BY <2>2, <2>3 DEF ReadOk
  <2>5. QED  BY <1>3, <2>1, <2>2, <2>4
<1>9. QED  BY <1>2, <1>5, <1>6, <1>7, <1>8, BookingAssumption DEF Arrival

\* A booking grows old: a transaction that needs it to be overdue needs it still.
LEMMA BookingAgesKeeps ==
    ASSUME LInv, TypeOK', QInv', NEW i \in Item, BookingAges(i) PROVE LInv'
<1>1. /\ booking' = booking /\ req' = req /\ tx' = tx /\ EligibleNow' = EligibleNow
      /\ overdue \subseteq overdue'
  BY DEF BookingAges, EligibleNow
<1>2. DocsSound' /\ ReadsSound' /\ CreatesApart'
  BY <1>1 DEF LInv, DocsSound, ReadsSound, CreatesApart, Creates
<1>3. TxsSound'
  <2> SUFFICES ASSUME NEW p \in Proc
               PROVE  TxOk(req[p], tx[p], booking, overdue', EligibleNow)
    BY <1>1 DEF TxsSound
  <2> DEFINE r == req[p]   t == tx[p]
  <2>1. TxOk(r, t, booking, overdue, EligibleNow)  BY DEF LInv, TxsSound
  <2>2. ASSUME NEW j \in t.docs \ t.missI, r.pc \in {"loop", "commit"}
        PROVE  WriteOk(r, t, j, booking[j], j \in overdue')
    <3>1. WriteOk(r, t, j, booking[j], j \in overdue)  BY <2>1, <2>2 DEF TxOk
    <3>2. QED  BY <1>1, <3>1 DEF WriteOk
  <2>3. QED  BY <2>1, <2>2 DEF TxOk
<1>4. QED  BY <1>2, <1>3 DEF LInv

\* The user documents in U are written; no item is.
LEMMA ModerationKeeps ==
    ASSUME LInv, TypeOK', QInv', NEW U \in SUBSET User, AllMiss({}, U),
           UNCHANGED <<booking, overdue, req>>,
           \A u \in User \ U : u \in EligibleNow => u \in EligibleNow'
    PROVE  LInv'
<1>1. Noticed({}, U)  BY DEF Noticed, OwnedBy
<1>2. \A i \in Item : Moves(i)  BY DEF Moves, Shifts
<1>3. \A o \in Proc : req'[o] = req[o] /\ tx'[o] = Missed(o, {}, U)  BY DEF AllMiss
<1>4. \A o \in Proc : req[o].op = "create" => req[o].item \in Item
  BY DEF LInv, QInv, TypeOK, Request
<1>5. QED  BY <1>1, <1>2, <1>3, <1>4, WriteKeeps

\* What each update at once does to its item.
LEMMA AtOnceMoves ==
    ASSUME TypeOK, NEW i \in Item
    PROVE  /\ DonorConfirm(i) => HandedOver(i)
           /\ OwnerDelete(i) \/ AdminDelete(i) =>
                 booking'[i] = booking[i] \/ ItemLife!Delete(i)
           /\ \A u \in User : RecipientConfirm(u, i) => ItemLife!Receive(i)
           /\ \A u \in User : Leave(u, i) => booking'[i] = booking[i]
<1>1. \A d, q : UpdateItem(i, d, q) => booking'[i] = d  BY DEF UpdateItem, TypeOK
<1>2. booking[i] \in ItemDoc  BY DEF TypeOK
<1>3. DonorConfirm(i) => HandedOver(i)  BY <1>1 DEF DonorConfirm, HandedOver
<1>4. OwnerDelete(i) => booking'[i] = booking[i] \/ ItemLife!Delete(i)
  <2> SUFFICES ASSUME OwnerDelete(i) PROVE booking'[i] = booking[i] \/ ItemLife!Delete(i)
    OBVIOUS
  <2>1. booking'[i] = [booking[i] EXCEPT !.status = "deleted"]  BY <1>1 DEF OwnerDelete
  <2>2. CASE booking[i].status # "deleted"  BY <2>1, <2>2 DEF OwnerDelete, ItemLife!Delete
  <2>3. CASE booking[i].status = "deleted"  BY <1>2, <2>1, <2>3 DEF ItemDoc
  <2>4. QED  BY <2>2, <2>3
<1>5. AdminDelete(i) => ItemLife!Delete(i)  BY <1>1 DEF AdminDelete, ItemLife!Delete
<1>6. \A u \in User : RecipientConfirm(u, i) => ItemLife!Receive(i)
  BY <1>1 DEF RecipientConfirm, ItemLife!Receive
<1>7. \A u \in User : Leave(u, i) => booking'[i] = booking[i]  BY <1>1 DEF Leave
<1>8. QED  BY <1>3, <1>4, <1>5, <1>6, <1>7

LEMMA AtOnceKeeps == ASSUME LInv, TypeOK', QInv', AtOnce PROVE LInv'
<1>0. TypeOK /\ \A i \in Item : booking[i] \in ItemDoc /\ Donor[i] \in User
  BY BookingAssumption DEF LInv, QInv, TypeOK
<1>1. ASSUME NEW i \in Item, NEW d, NEW q, UpdateItem(i, d, q),
             NEW U \in SUBSET User, AllMiss({i}, U), UNCHANGED req, Moves(i),
             d.holder = booking[i].holder,
             d.status = "booked" => booking[i].status = "booked"
      PROVE  LInv'
  <2>1. \A u \in User : Holds(d, u) => Holds(booking[i], u)  BY <1>1 DEF Holds
  <2>2. QED  BY <1>1, <2>1, UpdateKeeps
<1>2. ASSUME NEW i \in Item, DonorConfirm(i) PROVE LInv'
  <2> DEFINE d == [booking[i] EXCEPT !.donorOk = TRUE, !.status = "delivered"]
  <2>1. d.holder = booking[i].holder /\ d.status = "delivered"  BY <1>0 DEF ItemDoc
  <2>2. UpdateItem(i, d, waitlist[i]) /\ AllMiss({i}, {Donor[i]}) /\ UNCHANGED req
    BY <1>2 DEF DonorConfirm
  <2>3. Moves(i) /\ {Donor[i]} \in SUBSET User  BY <1>0, <1>2, AtOnceMoves DEF Moves, Shifts
  <2> HIDE DEF d
  <2>4. QED  BY <1>1, <2>1, <2>2, <2>3
<1>3. ASSUME NEW i \in Item, OwnerDelete(i) \/ AdminDelete(i) PROVE LInv'
  <2> DEFINE d == [booking[i] EXCEPT !.status = "deleted"]
  <2>1. d.holder = booking[i].holder /\ d.status = "deleted"  BY <1>0 DEF ItemDoc
  <2>2. UpdateItem(i, d, waitlist[i]) /\ AllMiss({i}, {}) /\ UNCHANGED req
    BY <1>3 DEF OwnerDelete, AdminDelete
  <2>3. Moves(i)  BY <1>0, <1>3, AtOnceMoves DEF Moves, Shifts
  <2> HIDE DEF d
  <2>4. QED  BY <1>1, <2>1, <2>2, <2>3
<1>4. ASSUME NEW i \in Item, NEW u \in User, RecipientConfirm(u, i) PROVE LInv'
  <2> DEFINE d == [booking[i] EXCEPT !.recipientOk = TRUE]
  <2>1. d.holder = booking[i].holder /\ d.status = booking[i].status  BY <1>0 DEF ItemDoc
  <2>2. UpdateItem(i, d, waitlist[i]) /\ AllMiss({i}, {}) /\ UNCHANGED req
    BY <1>4 DEF RecipientConfirm
  <2>3. Moves(i)  BY <1>0, <1>4, AtOnceMoves DEF Moves, Shifts
  <2> HIDE DEF d
  <2>4. QED  BY <1>1, <2>1, <2>2, <2>3
<1>5. ASSUME NEW i \in Item, NEW u \in User, Leave(u, i) PROVE LInv'
  <2>1. UpdateItem(i, booking[i], Pull(waitlist[i], {u})) /\ AllMiss({i}, {}) /\ UNCHANGED req
    BY <1>5 DEF Leave
  <2>2. Moves(i)  BY <1>0, <1>5, AtOnceMoves DEF Moves, Shifts
  <2>3. QED  BY <1>1, <2>1, <2>2
<1>6. ASSUME NEW u \in User, Unban(u) \/ Demote(u) \/ Promote(u) PROVE LInv'
  <2>1. AllMiss({}, {u}) /\ UNCHANGED <<booking, overdue, req>>
    BY <1>6 DEF Unban, Demote, Promote
  <2>2. \A v \in User \ {u} : v \in EligibleNow => v \in EligibleNow'
    BY <1>6 DEF Unban, Demote, Promote, EligibleNow
  <2>3. {u} \in SUBSET User  OBVIOUS
  <2>4. QED  BY <2>1, <2>2, <2>3, ModerationKeeps
<1>7. QED
  BY <1>2, <1>3, <1>4, <1>5, <1>6, BookingAgesKeeps, BookingAssumption DEF AtOnce

LEMMA LifeStep == LInv /\ [Next]_vars => LInv'
<1> SUFFICES ASSUME LInv, [Next]_vars PROVE LInv'
  OBVIOUS
<1>1. TypeOK' /\ QInv'  BY TypeStep, QuotaStep DEF LInv, QInv
<1>2. CASE UNCHANGED vars
  <2>1. EligibleNow' = EligibleNow  BY <1>2 DEF vars, EligibleNow
  <2>2. QED
    BY <1>1, <1>2, <2>1
    DEF vars, LInv, DocsSound, ReadsSound, CreatesApart, Creates, TxsSound
<1>3. CASE Next  BY <1>1, <1>3, ProcStepKeeps, ArrivalKeeps, AtOnceKeeps DEF Next
<1>4. QED  BY <1>2, <1>3

LEMMA LifeInit == Init => LInv
<1> SUFFICES ASSUME Init PROVE LInv
  OBVIOUS
<1>1. DocsSound
  <2> SUFFICES ASSUME NEW i \in Item PROVE DocOk(i, booking[i])
    BY DEF DocsSound
  <2>1. booking[i] = IF i \in Posted THEN [Blank EXCEPT !.status = "available"]
                                     ELSE [Blank EXCEPT !.status = "absent"]
    BY DEF Init
  <2>2. CASE i \in Posted  BY <2>1, <2>2, NewForms DEF DocOk, ItemLife!Doc
  <2>3. CASE i \notin Posted
    <3>1. booking[i] = Blank  BY <2>1, <2>3 DEF Blank
    <3>2. QED  BY <3>1 DEF DocOk, Blank
  <2>4. QED  BY <2>2, <2>3
<1>2. ReadsSound /\ TxsSound  BY IdleOk DEF Init, ReadsSound, TxsSound
<1>3. CreatesApart  BY DEF Init, CreatesApart, Creates, Idle
<1>4. QED  BY <1>1, <1>2, <1>3, QuotaInit DEF LInv

-----------------------------------------------------------------------------
(* What a step does to the documents *)

\* The steps that change a document, a credit or a ban, and what each of them does.
LEMMA WhoWrites ==
    ASSUME LInv, Next
    PROVE  \/ booking' = booking /\ donations' = donations /\ banned' \subseteq banned
           \/ \E p \in Proc : CommitTx(p)
           \/ /\ donations' = donations /\ banned' = banned
              /\ \E p \in Proc, i \in Item :
                    /\ req[p].pc = "release" /\ i = req[p].item
                    /\ CancelFilter(booking[i], req[p].holder) /\ ItemLife!Release(i)
                    /\ req' = [req EXCEPT ![p] = Idle]
                    /\ \A j \in Item \ {i} : booking'[j] = booking[j]
           \/ /\ req' = req /\ banned' = banned
              /\ \E i \in Item :
                    /\ \A j \in Item \ {i} : booking'[j] = booking[j]
                    /\ \/ DonorConfirm(i)
                       \/ /\ donations' = donations
                          /\ \/ /\ ItemLife!Delete(i)
                                /\ AdminDelete(i) \/ ~booking[i].recipientOk
                             \/ ItemLife!Receive(i)
<1>0. TypeOK  BY DEF LInv, QInv
<1>1. \A p \in Proc : \A r, q, t : Become(p, r, q, t) =>
         booking' = booking /\ donations' = donations /\ banned' = banned
  BY DEF Become
<1>2. \A i \in Item : \A d, q : UpdateItem(i, d, q) =>
         /\ booking'[i] = d /\ \A j \in Item \ {i} : booking'[j] = booking[j]
         /\ banned' = banned
  BY <1>0 DEF UpdateItem, TypeOK
<1>3. ASSUME NEW i \in Item, NEW q, UpdateItem(i, booking[i], q)
      PROVE  booking' = booking /\ banned' = banned
  BY <1>0, <1>3 DEF UpdateItem, TypeOK
<1> DEFINE Quiet == booking' = booking /\ donations' = donations /\ banned' \subseteq banned
           Release == /\ donations' = donations /\ banned' = banned
                      /\ \E p \in Proc, i \in Item :
                            /\ req[p].pc = "release" /\ i = req[p].item
                            /\ CancelFilter(booking[i], req[p].holder) /\ ItemLife!Release(i)
                            /\ req' = [req EXCEPT ![p] = Idle]
                            /\ \A j \in Item \ {i} : booking'[j] = booking[j]
           Alone == /\ req' = req /\ banned' = banned
                    /\ \E i \in Item :
                          /\ \A j \in Item \ {i} : booking'[j] = booking[j]
                          /\ \/ DonorConfirm(i)
                             \/ /\ donations' = donations
                                /\ \/ /\ ItemLife!Delete(i)
                                      /\ AdminDelete(i) \/ ~booking[i].recipientOk
                                   \/ ItemLife!Receive(i)
<1>4. ASSUME NEW p \in Proc, JoinWrite(p) PROVE Quiet
  <2>1. req[p].item \in Item  BY <1>0, <1>4 DEF TypeOK, Request, JoinWrite
  <2>2. QED  BY <1>1, <1>3, <1>4, <2>1 DEF JoinWrite, Finish
<1>5. ASSUME NEW p \in Proc, CancelRelease(p) PROVE Quiet \/ Release
  <2> DEFINE r == req[p]   i == r.item
             d == Barred(Unbooked(booking[i], "available"), r.holder)
  <2>1. i \in Item /\ r.holder \in User /\ booking[i] \in ItemDoc /\ r.pc = "release"
    BY <1>0, <1>5 DEF TypeOK, Request, CancelRelease
  <2>2. CASE Finish(p)  BY <1>1, <2>2 DEF Finish
  <2>3. CASE /\ CancelFilter(booking[i], r.holder)
             /\ UpdateItem(i, d, Pull(waitlist[i], Members(seen[p])))
             /\ req' = [req EXCEPT ![p] = Idle] /\ UNCHANGED donations
    <3>1. /\ booking'[i] = d /\ banned' = banned
          /\ \A j \in Item \ {i} : booking'[j] = booking[j]
      BY <1>2, <2>1, <2>3
    <3>2. d = ItemLife!Doc("available", NoUser, booking[i].cancelledBy \cup {r.holder})
      BY <2>1, DocForms
    <3> HIDE DEF d
    <3>3. ItemLife!Release(i)
      BY <2>3, <3>1, <3>2 DEF CancelFilter, ItemLife!Release, ItemLife!NowBarred
    <3>4. QED  BY <2>1, <2>3, <3>1, <3>3
  <2>4. QED  BY <1>5, <2>2, <2>3 DEF CancelRelease
<1>6. ASSUME NEW p \in Proc, ProcStep(p) PROVE Quiet \/ CommitTx(p) \/ Release
  <2>1. CASE CreateBegin(p)  BY <1>1, <2>1 DEF CreateBegin, Finish, Goto
  <2>2. CASE BookBegin(p)  BY <1>1, <2>2 DEF BookBegin, Finish, Goto
  <2>3. CASE CancelBegin(p)  BY <1>1, <2>3 DEF CancelBegin, Goto
  <2>4. CASE ExpireBegin(p)  BY <1>1, <2>4 DEF ExpireBegin, Goto
  <2>5. CASE BanBegin(p)  BY <1>1, <2>5 DEF BanBegin, Goto
  <2>6. CASE BanItem(p)  BY <1>1, <2>6 DEF BanItem, Goto
  <2>7. CASE RetryTx(p)  BY <1>1, <2>7 DEF RetryTx, Goto
  <2> HIDE DEF Quiet, Release
  <2>8. QED  BY <1>4, <1>5, <1>6, <2>1, <2>2, <2>3, <2>4, <2>5, <2>6, <2>7 DEF ProcStep
<1>7. ASSUME NEW p \in Proc, Arrival(p) PROVE Quiet
  BY <1>1, <1>7 DEF Arrival, CreateRead, ExpireScan, BanStart, BookRead, CancelRead
<1>8. ASSUME AtOnce PROVE Quiet \/ Alone
  <2>1. ASSUME NEW i \in Item, DonorConfirm(i) PROVE Alone
    <3>1. \A j \in Item \ {i} : booking'[j] = booking[j]  BY <1>2, <2>1 DEF DonorConfirm
    <3>2. banned' = banned /\ req' = req  BY <1>2, <2>1 DEF DonorConfirm
    <3>3. QED  BY <2>1, <3>1, <3>2
  <2>2. ASSUME NEW i \in Item, OwnerDelete(i) \/ AdminDelete(i) PROVE Quiet \/ Alone
    <3>1. /\ \A j \in Item \ {i} : booking'[j] = booking[j]
          /\ banned' = banned /\ req' = req /\ donations' = donations
      BY <1>2, <2>2 DEF OwnerDelete, AdminDelete
    <3>2. booking' \in [Item -> ItemDoc]
      <4>1. TypeOK'  BY <1>0, TypeStep
      <4>2. QED  BY <4>1 DEF TypeOK
    <3>3. AdminDelete(i) \/ ~booking[i].recipientOk  BY <2>2 DEF OwnerDelete
    <3>4. booking'[i] = booking[i] \/ ItemLife!Delete(i)  BY <1>0, <2>2, AtOnceMoves
    <3>5. CASE booking'[i] = booking[i]  BY <1>0, <3>1, <3>2, <3>5 DEF TypeOK
    <3>6. CASE ItemLife!Delete(i)  BY <3>1, <3>3, <3>6
    <3>7. QED  BY <3>4, <3>5, <3>6
  <2>3. ASSUME NEW i \in Item, NEW u \in User, RecipientConfirm(u, i) PROVE Alone
    <3>1. /\ \A j \in Item \ {i} : booking'[j] = booking[j]
          /\ banned' = banned /\ req' = req /\ donations' = donations
      BY <1>2, <2>3 DEF RecipientConfirm
    <3>2. ItemLife!Receive(i)  BY <1>0, <2>3, AtOnceMoves
    <3>3. QED  BY <3>1, <3>2
  <2>4. ASSUME NEW i \in Item, NEW u \in User, Leave(u, i) PROVE Quiet
    BY <1>3, <2>4 DEF Leave
  <2>5. ASSUME NEW u \in User, Unban(u) \/ Demote(u) \/ Promote(u) PROVE Quiet
    BY <2>5 DEF Unban, Demote, Promote
  <2>6. ASSUME NEW i \in Item, BookingAges(i) PROVE Quiet  BY <2>6 DEF BookingAges
  <2> HIDE DEF Quiet, Alone
  <2>7. QED
    BY <1>8, <2>1, <2>2, <2>3, <2>4, <2>5, <2>6, BookingAssumption DEF AtOnce
<1> HIDE DEF Quiet, Release, Alone
<1>9. Quiet \/ (\E p \in Proc : CommitTx(p)) \/ Release \/ Alone
  BY <1>6, <1>7, <1>8 DEF Next
<1>10. QED  BY <1>9 DEF Quiet, Release, Alone

\* Every step moves every document as ItemLife allows, or ends one hand-over.
LEMMA StepMoves ==
    ASSUME LInv, Next
    PROVE  \/ /\ \A i \in Item : Shifts(i) \/ ItemLife!Publish(i)
              /\ donations' = donations
           \/ \E i \in Item :
                 /\ DonorConfirm(i) /\ HandedOver(i)
                 /\ \A j \in Item \ {i} : booking'[j] = booking[j]
<1> DEFINE Shift == /\ \A i \in Item : Shifts(i) \/ ItemLife!Publish(i)
                    /\ donations' = donations
<1>1. CASE booking' = booking /\ donations' = donations  BY <1>1 DEF Shifts
<1>2. ASSUME NEW p \in Proc, CommitTx(p) PROVE Shift
  <2>1. \A i \in Item : Shifts(i) \/ ItemLife!Publish(i)  BY <1>2, CommitFacts DEF Shifts
  <2>2. donations' = donations  BY <1>2 DEF CommitTx
  <2>3. QED  BY <2>1, <2>2
<1>3. ASSUME NEW i \in Item, \A j \in Item \ {i} : booking'[j] = booking[j],
             donations' = donations,
             ItemLife!Release(i) \/ ItemLife!Delete(i) \/ ItemLife!Receive(i)
      PROVE  Shift
  BY <1>3 DEF Shifts
<1>4. ASSUME NEW i \in Item, DonorConfirm(i) PROVE HandedOver(i)
  BY <1>4, AtOnceMoves DEF LInv, QInv
<1> HIDE DEF Shift
<1>5. QED  BY <1>1, <1>2, <1>3, <1>4, WhoWrites DEF Shift

\* Only a hand-over confirms for the donor, and only a publication puts an item up.
LEMMA ShiftKeeps ==
    ASSUME NEW i \in Item, booking[i] \in ItemDoc, DocOk(i, booking[i]),
           Shifts(i) \/ ItemLife!Publish(i)
    PROVE  /\ booking'[i].donorOk <=> booking[i].donorOk
           /\ IsActive(booking'[i]) => IsActive(booking[i]) \/ ItemLife!Publish(i)
<1> USE DEF DocOk, IsActive, ItemLife!Doc
<1>1. CASE booking'[i] = booking[i]  BY <1>1
<1>2. CASE ItemLife!Publish(i)  BY <1>2 DEF ItemLife!Publish, Blank
<1>3. CASE ItemLife!Book(i)  BY <1>3 DEF ItemLife!Book, ItemDoc
<1>4. CASE ItemLife!PassOn(i)  BY <1>4 DEF ItemLife!PassOn, ItemDoc
<1>5. CASE ItemLife!Release(i)  BY <1>5 DEF ItemLife!Release, ItemDoc
<1>6. CASE ItemLife!Withdraw(i)  BY <1>6 DEF ItemLife!Withdraw, ItemDoc
<1>7. CASE ItemLife!Delete(i)  BY <1>7 DEF ItemLife!Delete, ItemDoc
<1>8. CASE ItemLife!Receive(i)  BY <1>8 DEF ItemLife!Receive, ItemDoc
<1>9. QED  BY <1>1, <1>2, <1>3, <1>4, <1>5, <1>6, <1>7, <1>8 DEF Shifts

\* A document changes only as ItemLife lets it.
LEMMA LifeRefines ==
    ASSUME LInv, [Next]_vars PROVE [ItemLife!Next]_(ItemLife!vars)
<1>1. CASE UNCHANGED vars  BY <1>1 DEF vars, ItemLife!vars
<1>2. CASE /\ \A i \in Item : Shifts(i) \/ ItemLife!Publish(i)
           /\ donations' = donations
  BY <1>2 DEF ItemLife!Next, ItemLife!Move, Shifts
<1>3. ASSUME NEW i \in Item, DonorConfirm(i) PROVE ItemLife!HandOver(i)
  BY <1>3 DEF DonorConfirm, DonorFilter, UpdateItem, ItemLife!HandOver, LInv, QInv, TypeOK, ItemDoc
<1>4. QED  BY <1>1, <1>2, <1>3, StepMoves DEF ItemLife!Next

LEMMA LifeStarts == Init => ItemLife!Init
<1> SUFFICES ASSUME Init PROVE ItemLife!Init
  OBVIOUS
<1> DEFINE b == [i \in Item |-> [Blank EXCEPT !.status =
                                   IF i \in Posted THEN "available" ELSE "absent"]]
<1>1. \A i \in Item : b[i] \in {ItemLife!Doc("absent", NoUser, {}),
                               ItemLife!Doc("available", NoUser, {})}
  <2> TAKE i \in Item
  <2>1. CASE i \in Posted  BY <2>1, NewForms
  <2>2. CASE i \notin Posted
    <3>1. b[i] = Blank  BY <2>2 DEF Blank
    <3>2. QED  BY <3>1, NewForms
  <2>3. QED  BY <2>1, <2>2
<1>2. booking = b /\ donations = [u \in User |-> 0]  BY DEF Init
<1> HIDE DEF b
<1>3. DOMAIN b = Item /\ b = [i \in Item |-> b[i]]  BY DEF b
<1>4. QED  BY <1>1, <1>2, <1>3 DEF ItemLife!Init

\* The handlers, their transactions, retries and races implement ItemLife: what
\* happens to an item document and to its donor's credit is one of its moves.
THEOREM LifeImplemented == Spec => ImplementsItemLife
<1>1. Init => ItemLife!Init  BY LifeStarts
<1>2. LInv /\ [Next]_vars => [ItemLife!Next]_(ItemLife!vars)  BY LifeRefines
<1>3. QED  BY LifeInit, LifeStep, <1>1, <1>2, PTL DEF Spec, ImplementsItemLife, ItemLife!Spec

-----------------------------------------------------------------------------
(* What a step may never do *)

\* A handler that ends is the one that moved.
LEMMA EndsAlone ==
    ASSUME LInv, NEW p \in Proc, NEW q \in Proc, NEW op, op # "none", Ends(p, op),
           \A o \in Proc : o = q \/ req'[o] = req[o]
    PROVE  p = q
BY DEF Ends, Idle

LEMMA CommitEnds ==
    ASSUME LInv, NEW q \in Proc, req' = [req EXCEPT ![q] = Idle]
    PROVE  req'[q] = Idle /\ \A o \in Proc : o = q \/ req'[o] = req[o]
BY DEF LInv, QInv, TypeOK

\* Every step satisfies the action property, whatever disjunct of WhoWrites it is.
LEMMA CancelStep ==
    ASSUME LInv, Next, NEW p \in Proc, Ends(p, "cancel"), NEW i \in Item, LosesHolder(i)
    PROVE  i = req[p].item /\ booking[i].holder = req[p].holder
<1>1. CASE booking' = booking  BY <1>1 DEF LosesHolder
<1>2. ASSUME NEW q \in Proc, CommitTx(q)
      PROVE  i = req[p].item /\ booking[i].holder = req[p].holder
  <2>1. p = q  BY <1>2, EndsAlone, CommitEnds DEF CommitTx
  <2>2. i \in tx[p].docs  BY <1>2, <2>1, CommitFacts DEF LosesHolder
  <2>3. WriteOk(req[p], tx[p], i, booking[i], i \in overdue)  BY <1>2, <2>1, <2>2, CommitFacts
  <2>4. QED  BY <2>3 DEF Ends, WriteOk, CancelFilter
<1>3. ASSUME NEW q \in Proc, NEW k \in Item, req[q].pc = "release", k = req[q].item,
             CancelFilter(booking[k], req[q].holder), req' = [req EXCEPT ![q] = Idle],
             \A j \in Item \ {k} : booking'[j] = booking[j]
      PROVE  i = req[p].item /\ booking[i].holder = req[p].holder
  <2>1. p = q  BY <1>3, EndsAlone, CommitEnds
  <2>2. i = k  BY <1>3 DEF LosesHolder
  <2>3. QED  BY <1>3, <2>1, <2>2 DEF CancelFilter
<1>4. CASE req' = req  BY <1>4 DEF Ends, Idle
<1>5. QED  BY <1>1, <1>2, <1>3, <1>4, WhoWrites

LEMMA HandoverStep ==
    ASSUME LInv, Next, NEW i \in Item, LosesHolder(i), booking[i].recipientOk
    PROVE  i \in overdue \/ (\E p \in Proc : Ends(p, "ban")) \/ AdminDelete(i)
<1>0. booking[i] \in ItemDoc /\ booking[i].status = "booked"
  BY DEF LInv, QInv, TypeOK, LosesHolder
<1>1. CASE booking' = booking  BY <1>1 DEF LosesHolder
<1>2. ASSUME NEW q \in Proc, CommitTx(q)
      PROVE  i \in overdue \/ (\E p \in Proc : Ends(p, "ban"))
  <2>1. i \in tx[q].docs  BY <1>2, CommitFacts DEF LosesHolder
  <2>2. /\ WriteOk(req[q], tx[q], i, booking[i], i \in overdue)
        /\ req[q].op = "create" => ItemLife!Publish(i)
    BY <1>2, <2>1, CommitFacts
  <2>3. req'[q] = Idle  BY <1>2, CommitEnds DEF CommitTx
  <2>4. req[q].op \notin {"create", "book", "cancel"}
    BY <1>0, <2>2 DEF WriteOk, ItemLife!Publish, BookFilter, CancelFilter
  <2>5. QED  BY <2>2, <2>3, <2>4 DEF WriteOk, Ends
<1>3. ASSUME NEW q \in Proc, NEW k \in Item,
             CancelFilter(booking[k], req[q].holder),
             \A j \in Item \ {k} : booking'[j] = booking[j]
      PROVE  FALSE
  BY <1>3 DEF LosesHolder, CancelFilter
<1>4. ASSUME NEW k \in Item, \A j \in Item \ {k} : booking'[j] = booking[j],
             \/ DonorConfirm(k)
             \/ ItemLife!Delete(k) /\ (AdminDelete(k) \/ ~booking[k].recipientOk)
             \/ ItemLife!Receive(k)
      PROVE  AdminDelete(i)
  <2>1. i = k  BY <1>4 DEF LosesHolder
  <2>2. ~DonorConfirm(k)
    <3>1. DonorConfirm(k) => HandedOver(k)  BY AtOnceMoves DEF LInv, QInv
    <3>2. HandedOver(k) => booking'[k].status = "delivered"  BY <1>0, <2>1 DEF HandedOver, ItemDoc
    <3>3. QED  BY <2>1, <3>1, <3>2 DEF LosesHolder
  <2>3. ~ItemLife!Receive(k)  BY <1>0, <2>1 DEF ItemLife!Receive, LosesHolder, ItemDoc
  <2>4. QED  BY <1>4, <2>1, <2>2, <2>3
<1>5. QED  BY <1>1, <1>2, <1>3, <1>4, WhoWrites

LEMMA PromotionStep ==
    ASSUME LInv, Next, NEW i \in Item, booking[i].status = "booked",
           booking'[i].status = "booked", booking'[i].holder # booking[i].holder
    PROVE  booking'[i].holder \in EligibleNow
<1>0. booking[i] \in ItemDoc  BY DEF LInv, QInv, TypeOK
<1>1. CASE booking' = booking  BY <1>1
<1>2. ASSUME NEW q \in Proc, CommitTx(q) PROVE booking'[i].holder \in EligibleNow
  <2> DEFINE r == req[q]   t == tx[q]   w == booking'[i].holder
  <2>1. i \in t.docs  BY <1>2, CommitFacts
  <2>2. /\ WriteOk(r, t, i, booking[i], i \in overdue)
        /\ r.op = "create" => ItemLife!Publish(i)
        /\ r.op # "create" => Shifts(i)
    BY <1>2, <2>1, CommitFacts
  <2>3. r.op \in {"cancel", "expire", "ban"}
    BY <2>2 DEF WriteOk, ItemLife!Publish, BookFilter
  <2>4. w \in User
    <3>1. DocOk(i, booking'[i])
      <4>1. LInv'  BY LifeStep
      <4>2. QED  BY <4>1 DEF LInv, DocsSound
    <3>2. QED  BY <3>1 DEF DocOk
  <2>5. w \in t.locks  BY <1>2, <2>1, <2>4, CommitFacts DEF Holds
  <2>6. w \notin t.missU  BY <1>2, <2>5, CommitFacts
  <2>7. TxOk(r, t, booking, overdue, EligibleNow) /\ r.pc = "commit"
    BY <1>2 DEF LInv, TxsSound, CommitTx
  <2>8. t.locks \ t.missU \subseteq EligibleNow  BY <2>3, <2>7 DEF TxOk
  <2>9. QED  BY <2>5, <2>6, <2>8
<1>3. ASSUME NEW k \in Item, \A j \in Item \ {k} : booking'[j] = booking[j],
             \/ ItemLife!Release(k) \/ DonorConfirm(k)
             \/ ItemLife!Delete(k) \/ ItemLife!Receive(k)
      PROVE  FALSE
  <2>1. i = k  BY <1>3
  <2>2. DonorConfirm(k) => HandedOver(k)  BY AtOnceMoves DEF LInv, QInv
  <2>3. ~HandedOver(i)  BY <1>0 DEF HandedOver, ItemDoc
  <2>4. ~ItemLife!Release(i)  BY DEF ItemLife!Release, ItemLife!Doc
  <2>5. ~ItemLife!Delete(i)  BY <1>0 DEF ItemLife!Delete, ItemDoc
  <2>6. ~ItemLife!Receive(i)  BY <1>0 DEF ItemLife!Receive, ItemDoc
  <2>7. QED  BY <1>3, <2>1, <2>2, <2>3, <2>4, <2>5, <2>6
<1>4. QED  BY <1>1, <1>2, <1>3, WhoWrites

LEMMA BanStep ==
    ASSUME LInv, Next, NEW p \in Proc, Ends(p, "ban"), NEW u \in banned' \ banned,
           NEW i \in Item, IsActive(booking'[i])
    PROVE  u \notin {booking'[i].holder, Donor[i]}
<1>0. booking[i] \in ItemDoc /\ NoUser \notin User
  BY BookingAssumption DEF LInv, QInv, TypeOK
<1>1. ASSUME NEW q \in Proc, CommitTx(q) PROVE u \notin {booking'[i].holder, Donor[i]}
  <2> DEFINE r == req[p]   t == tx[p]
  <2>1. p = q  BY <1>1, EndsAlone, CommitEnds DEF CommitTx
  <2>2. TxOk(r, t, booking, overdue, EligibleNow) /\ r.pc = "commit" /\ r.op = "ban"
    BY <1>1, <2>1 DEF LInv, TxsSound, CommitTx, Ends
  <2>3. u \in t.bans /\ t.bans = {r.user} /\ t.todo = {}
    BY <1>1, <2>1, <2>2 DEF CommitTx, TxOk
  <2>4. u = r.user /\ u \notin t.missU  BY <1>1, <2>1, <2>3, CommitFacts
  <2>5. u \in User  BY <2>2, <2>4 DEF LInv, QInv, TypeOK, Request
  <2>6. CASE i \notin t.docs
    <3>1. booking'[i] = booking[i]  BY <1>1, <2>1, <2>6, CommitFacts
    <3>2. ~OwnedBy(booking, u, i)  BY <2>2, <2>3, <2>4, <2>6 DEF TxOk
    <3>3. QED  BY <3>1, <3>2 DEF OwnedBy
  <2>7. CASE i \in t.docs
    <3> DEFINE d == booking[i]   e == booking'[i]
    <3>1. WriteOk(r, t, i, d, i \in overdue) /\ e = t.after[i]
      BY <1>1, <2>1, <2>7, CommitFacts
    <3>2. CASE e = Unbooked(d, "hidden")
      BY <1>0, <3>2 DEF Unbooked, IsActive, ItemDoc
    <3>3. CASE /\ Donor[i] # u
               /\ Relieved(d, e, u, t.pulls[i] \ ({Donor[i], u} \cup d.cancelledBy))
      <4>1. CASE e = Barred(Unbooked(d, "available"), u)
        <5>1. e = ItemLife!Doc("available", NoUser, d.cancelledBy \cup {u})
          BY <1>0, <2>5, <4>1, DocForms
        <5>2. QED  BY <1>0, <2>5, <3>3, <5>1 DEF ItemLife!Doc
      <4>2. ASSUME NEW w \in t.pulls[i] \ ({Donor[i], u} \cup d.cancelledBy),
                   e = Barred(BookedBy(d, w), u)
            PROVE  u # e.holder
        <5>1. w \in User  BY <4>2 DEF LInv, QInv, TypeOK, Transaction
        <5>2. e = ItemLife!Doc("booked", w, d.cancelledBy \cup {u})
          BY <1>0, <2>5, <4>2, <5>1, DocForms
        <5>3. QED  BY <4>2, <5>2 DEF ItemLife!Doc
      <4>3. QED  BY <3>3, <4>1, <4>2 DEF Relieved
    <3>4. QED  BY <2>2, <2>4, <3>1, <3>2, <3>3 DEF WriteOk
  <2>8. QED  BY <2>6, <2>7
<1>2. CASE banned' \subseteq banned  BY <1>2
<1>3. QED  BY <1>1, <1>2, WhoWrites

LEMMA DeliveredStep ==
    ASSUME LInv, Next, NEW i \in Item, booking[i].donorOk
    PROVE  /\ booking'[i].donorOk /\ booking'[i].recipientOk
           /\ booking'[i].holder = booking[i].holder
           /\ booking'[i].status \in {booking[i].status, "deleted"}
<1>1. /\ booking[i] \in ItemDoc /\ booking[i].recipientOk
      /\ booking[i].status \in {"delivered", "deleted"}
  BY DEF LInv, QInv, TypeOK, DocsSound, DocOk
<1>2. ~HandedOver(i)  BY DEF HandedOver, DonorFilter
<1>3. booking'[i] = booking[i] \/ ItemLife!Delete(i)
  <2>1. Shifts(i) \/ ItemLife!Publish(i) \/ booking'[i] = booking[i]
    BY <1>2, StepMoves
  <2>2. QED
    BY <1>1, <2>1
    DEF Shifts, ItemLife!Publish, ItemLife!Book, ItemLife!PassOn, ItemLife!Release,
        ItemLife!Withdraw, ItemLife!Receive
<1>4. QED  BY <1>1, <1>3 DEF ItemLife!Delete, ItemDoc

\* A cancellation ends the booking its caller read and no other: the update of
\* cancelBookingLogic names the holder, and a transaction computed for that holder
\* conflicts with whatever passed the item on meanwhile.
THEOREM CancelsOnlyThat == Spec => CancelsWhatItSaw
<1>1. LInv /\ [Next]_vars => [\A p \in Proc : Ends(p, "cancel") =>
          \A i \in Item : LosesHolder(i) =>
              i = req[p].item /\ booking[i].holder = req[p].holder]_vars
  BY CancelStep
<1>2. QED  BY LifeInit, LifeStep, <1>1, PTL DEF Spec, CancelsWhatItSaw

\* What the recipient confirmed is taken away by the deadline, a ban or a moderator,
\* and neither by a cancellation nor by the owner, however old their snapshots are.
THEOREM HandoverIsProtected == Spec => HandoverProtected
<1>1. LInv /\ [Next]_vars => [\A i \in Item : LosesHolder(i) /\ booking[i].recipientOk =>
          \/ i \in overdue
          \/ \E p \in Proc : Ends(p, "ban")
          \/ AdminDelete(i)]_vars
  BY HandoverStep
<1>2. QED  BY LifeInit, LifeStep, <1>1, PTL DEF Spec, HandoverProtected

\* A promotion goes to a user who is neither banned nor demoted when it commits: the
\* operation lock on the candidate makes the moderation of that user a conflict.
THEOREM PromotesTheEligible == Spec => PromotedIsEligible
<1>1. LInv /\ [Next]_vars => [\A i \in Item :
          /\ booking[i].status = "booked" /\ booking'[i].status = "booked"
          /\ booking'[i].holder # booking[i].holder
          => booking'[i].holder \in EligibleNow]_vars
  BY PromotionStep
<1>2. QED  BY LifeInit, LifeStep, <1>1, PTL DEF Spec, PromotedIsEligible

\* When a ban commits its user holds no booking and offers no active item: a booking,
\* a promotion or a publication of theirs meanwhile makes the ban start again.
THEOREM BanSweepsAll == Spec => BanSweeps
<1>1. LInv /\ [Next]_vars => [\A p \in Proc : Ends(p, "ban") /\ banned' # banned =>
          \A u \in banned' \ banned : \A i \in Item :
              IsActive(booking'[i]) => u \notin {booking'[i].holder, Donor[i]}]_vars
  BY BanStep
<1>2. QED  BY LifeInit, LifeStep, <1>1, PTL DEF Spec, BanSweeps

\* A delivered item keeps its recipient and both confirmations for ever; only a
\* moderator touches it, and only to delete it.
DeliveredIsFinal ==
    [][\A i \in Item : booking[i].donorOk =>
          /\ booking'[i].donorOk /\ booking'[i].recipientOk
          /\ booking'[i].holder = booking[i].holder
          /\ booking'[i].status \in {booking[i].status, "deleted"}]_vars

\* It is final: no sweep, deadline or late handler reaches a delivered item.
THEOREM DeliveryIsFinal == Spec => DeliveredIsFinal
<1>1. LInv /\ [Next]_vars => [\A i \in Item : booking[i].donorOk =>
          /\ booking'[i].donorOk /\ booking'[i].recipientOk
          /\ booking'[i].holder = booking[i].holder
          /\ booking'[i].status \in {booking[i].status, "deleted"}]_vars
  <2> SUFFICES ASSUME LInv, [Next]_vars, NEW i \in Item, booking[i].donorOk, ~UNCHANGED vars
               PROVE  /\ booking'[i].donorOk /\ booking'[i].recipientOk
                      /\ booking'[i].holder = booking[i].holder
                      /\ booking'[i].status \in {booking[i].status, "deleted"}
    OBVIOUS
  <2>1. QED  BY DeliveredStep
<1>2. QED  BY LifeInit, LifeStep, <1>1, PTL DEF Spec, DeliveredIsFinal

-----------------------------------------------------------------------------
(* What is held, credited and offered *)

Credited(docs, u) == {i \in Item : Donor[i] = u /\ docs[i].donorOk}

CreditInv == LInv /\ CreditedOnce

LEMMA CreditStep == CreditInv /\ [Next]_vars => CreditInv'
<1> SUFFICES ASSUME CreditInv, [Next]_vars PROVE CreditInv'
  OBVIOUS
<1> USE DEF Credited
<1>0. LInv /\ \A u \in User : donations[u] = Cardinality(Credited(booking, u))
  BY DEF CreditInv, CreditedOnce
<1>1. LInv'  BY <1>0, LifeStep
<1>2. \A i \in Item : booking[i] \in ItemDoc /\ DocOk(i, booking[i]) /\ Donor[i] \in User
  BY <1>0, BookingAssumption DEF LInv, QInv, TypeOK, DocsSound
<1>3. CASE UNCHANGED vars  BY <1>0, <1>1, <1>3 DEF CreditInv, CreditedOnce, vars
<1>4. CASE /\ \A i \in Item : Shifts(i) \/ ItemLife!Publish(i)
           /\ donations' = donations
  <2>1. \A u \in User : Credited(booking', u) = Credited(booking, u)
    BY <1>2, <1>4, ShiftKeeps
  <2>2. QED  BY <1>0, <1>1, <1>4, <2>1 DEF CreditInv, CreditedOnce
<1>5. ASSUME NEW i \in Item, DonorConfirm(i), HandedOver(i),
             \A j \in Item \ {i} : booking'[j] = booking[j]
      PROVE  CreditedOnce'
  <2> DEFINE o == Donor[i]
  <2>1. booking'[i].donorOk /\ ~booking[i].donorOk
    BY <1>2, <1>5 DEF HandedOver, DonorFilter, ItemDoc
  <2>2. /\ Credited(booking', o) = Credited(booking, o) \cup {i}
        /\ i \notin Credited(booking, o)
    BY <1>5, <2>1
  <2>3. \A u \in User \ {o} : Credited(booking', u) = Credited(booking, u)
    BY <1>5
  <2>4. IsFiniteSet(Credited(booking, o))  BY FS_Subset, BookingAssumption
  <2>5. Cardinality(Credited(booking', o)) = Cardinality(Credited(booking, o)) + 1
    BY <2>2, <2>4, FS_AddElement
  <2>6. /\ donations'[o] = donations[o] + 1
        /\ \A u \in User \ {o} : donations'[u] = donations[u]
    BY <1>0, <1>2, <1>5 DEF DonorConfirm, LInv, QInv, TypeOK
  <2> HIDE DEF Credited
  <2>7. \A u \in User : donations'[u] = Cardinality(Credited(booking', u))
    BY <1>0, <1>2, <2>3, <2>5, <2>6
  <2>8. QED  BY <2>7 DEF CreditedOnce, Credited
<1>6. QED  BY <1>0, <1>1, <1>3, <1>4, <1>5, StepMoves DEF CreditInv

LEMMA CreditInit == Init => CreditInv
<1> SUFFICES ASSUME Init PROVE CreditInv
  OBVIOUS
<1>1. \A u \in User : {i \in Item : Donor[i] = u /\ booking[i].donorOk} = {}
  BY DEF Init, Blank
<1>2. CreditedOnce  BY <1>1, FS_EmptySet DEF Init, CreditedOnce
<1>3. QED  BY <1>2, LifeInit DEF CreditInv

\* Nobody gets an item they held and lost, or their own, and a donor is credited
\* once for each item both sides confirmed.
THEOREM NothingComesTwice == Spec => []NothingTwice
<1>1. CreditInv => NothingTwice
  <2> SUFFICES ASSUME CreditInv PROVE HeldOnce /\ CreditedOnce
    BY DEF NothingTwice
  <2>1. HeldOnce  BY DEF CreditInv, LInv, DocsSound, DocOk, HeldOnce
  <2>2. QED  BY <2>1 DEF CreditInv
<1>2. QED  BY CreditInit, CreditStep, <1>1, PTL DEF Spec

LInvQuota == LInv /\ DonorQuota

LEMMA DonorStep == LInvQuota /\ [Next]_vars => LInvQuota'
<1> SUFFICES ASSUME LInvQuota, [Next]_vars PROVE LInvQuota'
  OBVIOUS
<1>0. LInv /\ \A u \in User : Cardinality(ActiveIn(booking, u)) <= MaxActiveLevel2
  BY DEF LInvQuota, DonorQuota
<1>1. LInv'  BY <1>0, LifeStep
<1>2. \A i \in Item : booking[i] \in ItemDoc /\ DocOk(i, booking[i])
  BY <1>0 DEF LInv, QInv, TypeOK, DocsSound
<1>3. \A docs, u : IsFiniteSet(ActiveIn(docs, u)) /\ Cardinality(ActiveIn(docs, u)) \in Nat
  <2> TAKE docs, u
  <2>1. IsFiniteSet(ActiveIn(docs, u))  BY FS_Subset, BookingAssumption DEF ActiveIn
  <2>2. QED  BY <2>1, FS_CardinalityType
<1>4. ASSUME NEW u \in User, ActiveIn(booking', u) \subseteq ActiveIn(booking, u)
      PROVE  Cardinality(ActiveIn(booking', u)) <= MaxActiveLevel2
  <2>1. Cardinality(ActiveIn(booking', u)) <= Cardinality(ActiveIn(booking, u))
    BY <1>3, <1>4, FS_Subset
  <2>2. Cardinality(ActiveIn(booking, u)) <= MaxActiveLevel2  BY <1>0
  <2>3. QED  BY <1>3, <2>1, <2>2, BookingAssumption
<1>5. CASE \A i \in Item : IsActive(booking'[i]) => IsActive(booking[i])
  <2>1. \A u \in User : ActiveIn(booking', u) \subseteq ActiveIn(booking, u)
    BY <1>5 DEF ActiveIn
  <2>2. QED  BY <1>1, <1>4, <2>1 DEF LInvQuota, DonorQuota
<1>6. ASSUME NEW p \in Proc, CommitTx(p), req[p].op = "create" PROVE DonorQuota'
  <2> DEFINE r == req[p]   t == tx[p]   o == r.user   i == r.item
  <2>1. i \in Item /\ o \in User /\ o = Donor[i] /\ r.limit \in Nat /\ r.limit <= MaxActiveLevel2
    BY <1>0, <1>6 DEF LInv, QInv, TypeOK, Request, AnyRequest, ReadsSound, ReadOk
  <2>2. /\ \A j \in Item \ t.docs : booking'[j] = booking[j]
        /\ \A j \in t.docs : WriteOk(r, t, j, booking[j], j \in overdue)
    BY <1>0, <1>6, CommitFacts
  <2>3. \A j \in Item \ {i} : booking'[j] = booking[j]  BY <1>6, <2>2 DEF WriteOk
  <2>4. TxOk(r, t, booking, overdue, EligibleNow) /\ r.pc = "commit"
    BY <1>0, <1>6 DEF LInv, TxsSound, CommitTx
  <2>5. o \in t.locks  BY <1>6, <2>4 DEF TxOk
  <2>6. o \notin t.missU  BY <1>0, <1>6, <2>5, CommitFacts
  <2>7. Cardinality(ActiveIn(booking, o)) < r.limit  BY <1>6, <2>4, <2>6 DEF TxOk
  <2>8. ActiveIn(booking', o) \subseteq ActiveIn(booking, o) \cup {i}
    BY <2>3 DEF ActiveIn
  <2>9. Cardinality(ActiveIn(booking', o)) <= Cardinality(ActiveIn(booking, o)) + 1
    <3> DEFINE A == ActiveIn(booking, o)   B == ActiveIn(booking', o)
    <3>1. IsFiniteSet(A) /\ Cardinality(A) \in Nat  BY <1>3
    <3> HIDE DEF A, B
    <3>2. /\ IsFiniteSet(A \cup {i})
          /\ Cardinality(A \cup {i}) = IF i \in A THEN Cardinality(A) ELSE Cardinality(A) + 1
      BY <3>1, FS_AddElement
    <3>3. Cardinality(B) <= Cardinality(A \cup {i})  BY <2>8, <3>2, FS_Subset DEF A, B
    <3>4. Cardinality(B) \in Nat  BY <1>3 DEF B
    <3>5. Cardinality(B) <= Cardinality(A) + 1  BY <3>1, <3>2, <3>3, <3>4
    <3>6. QED  BY <3>5 DEF A, B
  <2>10. Cardinality(ActiveIn(booking', o)) <= MaxActiveLevel2
    BY <1>3, <2>1, <2>7, <2>9, BookingAssumption
  <2>11. \A u \in User \ {o} : ActiveIn(booking', u) \subseteq ActiveIn(booking, u)
    BY <2>1, <2>3 DEF ActiveIn
  <2>12. QED  BY <1>4, <2>10, <2>11 DEF DonorQuota
<1>7. CASE UNCHANGED vars  BY <1>5, <1>7 DEF vars
<1>8. ASSUME NEW p \in Proc, CommitTx(p), req[p].op # "create"
      PROVE  \A i \in Item : IsActive(booking'[i]) => IsActive(booking[i])
  BY <1>0, <1>8, CommitFacts
<1>9. ASSUME Next, ~\E p \in Proc : CommitTx(p)
      PROVE  \A i \in Item : IsActive(booking'[i]) => IsActive(booking[i])
  <2>1. ASSUME NEW k \in Item, \A j \in Item \ {k} : booking'[j] = booking[j],
               \/ ItemLife!Release(k) \/ DonorConfirm(k)
               \/ ItemLife!Delete(k) \/ ItemLife!Receive(k)
        PROVE  \A i \in Item : IsActive(booking'[i]) => IsActive(booking[i])
    <3>1. DonorConfirm(k) => booking[k].status = "booked"  BY DEF DonorConfirm, DonorFilter
    <3>2. ItemLife!Delete(k) => booking'[k].status = "deleted"
      BY <1>2 DEF ItemLife!Delete, ItemDoc
    <3>3. QED  BY <2>1, <3>1, <3>2 DEF IsActive, ItemLife!Release, ItemLife!Receive
  <2>2. QED  BY <1>0, <1>9, <2>1, WhoWrites
<1>10. QED  BY <1>1, <1>5, <1>6, <1>7, <1>8, <1>9 DEF LInvQuota

LEMMA DonorInit == Init => LInvQuota
<1> SUFFICES ASSUME Init, NEW u \in User
             PROVE  Cardinality(ActiveIn(booking, u)) <= MaxActiveLevel2
  BY LifeInit DEF LInvQuota, DonorQuota
<1>1. \A i \in Item : IsActive(booking[i]) <=> i \in Posted
  BY DEF Init, Blank, IsActive
<1>2. ActiveIn(booking, u) = {i \in Posted : Donor[i] = u}
  BY <1>1, BookingAssumption DEF ActiveIn
<1>3. QED  BY <1>2, PostedAssumption

\* No donor has more active items than the higher level allows: two publications that
\* counted on the same snapshot both take the donor's operation lock, and one of them
\* conflicts.
THEOREM DonorQuotaHolds == Spec => []DonorQuota
<1>1. LInvQuota => DonorQuota  BY DEF LInvQuota
<1>2. QED  BY DonorInit, DonorStep, <1>1, PTL DEF Spec

-----------------------------------------------------------------------------
(* Waitlists *)

\* Induction over 0 .. n, by the least element outside T.
LEMMA Induction ==
    ASSUME NEW n \in Nat, NEW T, 0 \in T, \A k \in T : k \in Nat /\ k < n => k + 1 \in T
    PROVE  0 .. n \subseteq T
<1> DEFINE M == {k \in Nat : k <= n /\ k \notin T}
<1>1. SUFFICES ASSUME M # {} PROVE FALSE
  OBVIOUS
<1>2. PICK k \in M : \A m \in M : <<m, k>> \notin OpToRel(<, Nat)
  <2>1. M \subseteq Nat  OBVIOUS
  <2> HIDE DEF M
  <2>2. QED  BY <1>1, <2>1, WFMin, NatLessThanWellFounded, Zenon
<1>3. k \in Nat /\ k <= n /\ k \notin T /\ k # 0  OBVIOUS
<1>4. k - 1 \in Nat /\ k - 1 < k /\ k - 1 <= n  BY <1>3
<1>5. k - 1 \notin M
  <2>1. <<k - 1, k>> \in OpToRel(<, Nat)  BY <1>3, <1>4, Zenon DEF OpToRel
  <2>2. QED  BY <1>2, <2>1
<1>6. k - 1 \in T  BY <1>4, <1>5
<1>7. k - 1 < n /\ (k - 1) + 1 = k  BY <1>3, <1>4
<1>8. \A m : m \in T /\ m \in Nat /\ m < n => m + 1 \in T  OBVIOUS
<1> HIDE DEF M
<1>9. (k - 1) + 1 \in T  BY <1>4, <1>6, <1>7, <1>8
<1>10. QED  BY <1>3, <1>7, <1>9

\* f[k] is what Pull keeps of the first k users of q.
Kept(f, q, U, n) ==
    f = [k \in 0 .. n |-> IF k = 0 THEN <<>>
                          ELSE IF q[k] \in U THEN f[k - 1]
                          ELSE Append(f[k - 1], q[k])]

LEMMA KeptExists == ASSUME NEW n \in Nat, NEW q, NEW U PROVE \E f : Kept(f, q, U, n)
<1> DEFINE T == {k \in Nat : \E f : Kept(f, q, U, k)}
<1>1. 0 \in T
  <2>1. Kept([k \in 0 .. 0 |-> <<>>], q, U, 0)  BY DEF Kept
  <2>2. QED  BY <2>1
<1>2. ASSUME NEW k \in T PROVE k + 1 \in T
  <2>1. PICK f : Kept(f, q, U, k)  OBVIOUS
  <2> DEFINE last == IF q[k + 1] \in U THEN f[k] ELSE Append(f[k], q[k + 1])
             g == [m \in 0 .. k + 1 |-> IF m <= k THEN f[m] ELSE last]
  <2>2. k \in Nat  OBVIOUS
  <2>3. \A m \in 0 .. k : g[m] = f[m]  BY <2>2
  <2>4. g[k + 1] = last  BY <2>2
  <2>5. \A m \in 0 .. k : f[m] = IF m = 0 THEN <<>>
                                 ELSE IF q[m] \in U THEN f[m - 1]
                                 ELSE Append(f[m - 1], q[m])
    BY <2>1, Zenon DEF Kept
  <2>6. DOMAIN g = 0 .. k + 1 /\ g = [m \in 0 .. k + 1 |-> g[m]]  OBVIOUS
  <2> HIDE DEF g
  <2>7. ASSUME NEW m \in 0 .. k + 1
        PROVE  g[m] = IF m = 0 THEN <<>>
                      ELSE IF q[m] \in U THEN g[m - 1]
                      ELSE Append(g[m - 1], q[m])
    <3>1. CASE m = 0  BY <2>2, <2>3, <2>5, <3>1
    <3>2. CASE m # 0 /\ m <= k
      <4>1. m \in 0 .. k /\ m - 1 \in 0 .. k  BY <2>2, <3>2
      <4>2. g[m] = f[m] /\ g[m - 1] = f[m - 1]  BY <2>3, <4>1
      <4>3. QED  BY <2>5, <3>2, <4>1, <4>2
    <3>3. CASE m = k + 1
      <4>1. m - 1 = k /\ k \in 0 .. k /\ m # 0  BY <2>2, <3>3
      <4>2. g[m - 1] = f[k]  BY <2>3, <4>1
      <4>3. QED  BY <2>4, <3>3, <4>1, <4>2
    <3>4. QED  BY <2>2, <3>1, <3>2, <3>3
  <2>8. Kept(g, q, U, k + 1)  BY <2>6, <2>7, Zenon DEF Kept
  <2>9. QED  BY <2>2, <2>8
<1> HIDE DEF T
<1>3. 0 .. n \subseteq T  BY <1>1, <1>2, Induction
<1>4. n \in T  BY <1>3
<1>5. QED  BY <1>4 DEF T

LEMMA PullKept ==
    ASSUME NEW V, NEW q \in Seq(V), NEW U
    PROVE  \E f : Kept(f, q, U, Len(q)) /\ Pull(q, U) = f[Len(q)]
<1> DEFINE g == CHOOSE f : Kept(f, q, U, Len(q))
<1>1. Len(q) \in Nat  OBVIOUS
<1>2. Kept(g, q, U, Len(q))
  <2>1. \E f : Kept(f, q, U, Len(q))  BY <1>1, KeptExists
  <2>2. QED  BY <2>1, Zenon
<1>3. Pull(q, U) = g[Len(q)]  BY Zenon DEF Pull, Kept
<1>4. QED  BY <1>2, <1>3

LEMMA AppendMembers ==
    ASSUME NEW s \in Seq(User), NEW u \in User
    PROVE  Members(Append(s, u)) = Members(s) \cup {u}
<1>1. /\ DOMAIN Append(s, u) = 1 .. Len(s) + 1 /\ DOMAIN s = 1 .. Len(s) /\ Len(s) \in Nat
      /\ \A k \in 1 .. Len(s) : Append(s, u)[k] = s[k]
      /\ Append(s, u)[Len(s) + 1] = u
  OBVIOUS
<1>2. \A k \in 1 .. Len(s) + 1 : k \in 1 .. Len(s) \/ k = Len(s) + 1  BY <1>1
<1>3. \A k \in 1 .. Len(s) : k \in 1 .. Len(s) + 1  BY <1>1
<1>4. Len(s) + 1 \in 1 .. Len(s) + 1  BY <1>1
<1>5. QED  BY <1>1, <1>2, <1>3, <1>4, Zenon DEF Members

\* The places of a waitlist and its members.
LEMMA Places ==
    ASSUME NEW q \in Seq(User)
    PROVE  /\ IsFiniteSet(1 .. Len(q)) /\ Cardinality(1 .. Len(q)) = Len(q)
           /\ q \in Surjection(1 .. Len(q), Members(q))
           /\ IsFiniteSet(Members(q))
<1> DEFINE S == 1 .. Len(q)
<1>1. IsFiniteSet(S) /\ Cardinality(S) = Len(q)
  <2>1. Len(q) \in Nat  OBVIOUS
  <2>2. QED  BY <2>1, FS_Interval
<1>2. DOMAIN q = S /\ q \in [S -> User]  OBVIOUS
<1> HIDE DEF S
<1>3. q \in [S -> Members(q)]
  <2>1. \A k \in S : q[k] \in User  BY <1>2
  <2>2. \A k \in S : q[k] \in Members(q)  BY <1>2, <2>1, Zenon DEF Members
  <2>3. QED  BY <1>2, <2>2
<1>4. \A u \in Members(q) : \E k \in S : q[k] = u  BY <1>2, Zenon DEF Members
<1>5. q \in Surjection(S, Members(q))  BY <1>3, <1>4, Zenon DEF Surjection
<1>6. IsFiniteSet(Members(q))  BY <1>1, <1>5, FS_Surjection
<1>7. QED  BY <1>1, <1>5, <1>6 DEF S

\* As many members as places: nobody has two places.
LEMMA CountedApart ==
    ASSUME NEW q \in Seq(User), Cardinality(Members(q)) = Len(q),
           NEW a \in 1 .. Len(q), NEW b \in 1 .. Len(q), q[a] = q[b]
    PROVE  a = b
<1> DEFINE S == 1 .. Len(q)
<1>1. /\ IsFiniteSet(S) /\ Cardinality(S) = Cardinality(Members(q))
      /\ q \in Surjection(S, Members(q))
  BY Places
<1>2. a \in S /\ b \in S  OBVIOUS
<1> HIDE DEF S
<1>3. q \in Injection(S, Members(q))  BY <1>1, FS_SurjSameCardinalityImpliesInj
<1>4. DOMAIN q = S  BY <1>1 DEF Surjection
<1>5. QED  BY <1>2, <1>3, <1>4 DEF Injection, IsInjective

\* What Pull returns: the users outside U, and nobody twice if nobody was.
LEMMA PullFacts ==
    ASSUME NEW V \in SUBSET User, NEW q \in Seq(V), NEW U
    PROVE  /\ Pull(q, U) \in Seq(V)
           /\ Len(Pull(q, U)) <= Len(q)
           /\ Members(Pull(q, U)) = Members(q) \ U
           /\ Cardinality(Members(q)) = Len(q) =>
                 Cardinality(Members(Pull(q, U))) = Len(Pull(q, U))
<1> DEFINE n == Len(q)
           upto(k) == {u \in User : \E m \in 1 .. k : q[m] = u}
           apart == \A a, b \in 1 .. n : q[a] = q[b] => a = b
<1>1. n \in Nat /\ DOMAIN q = 1 .. n /\ \A m \in 1 .. n : q[m] \in V /\ q[m] \in User
  OBVIOUS
<1>2. q \in Seq(User)
  <2>1. Seq(V) \subseteq Seq(User)  OBVIOUS
  <2>2. QED  BY <2>1
<1>3. PICK f : Kept(f, q, U, n) /\ Pull(q, U) = f[n]  BY PullKept
<1> HIDE DEF n
<1>4. \A k \in 0 .. n : f[k] = IF k = 0 THEN <<>>
                                ELSE IF q[k] \in U THEN f[k - 1]
                                ELSE Append(f[k - 1], q[k])
  BY <1>3, Zenon DEF Kept
<1> DEFINE Good(k) == /\ f[k] \in Seq(V) /\ f[k] \in Seq(User) /\ Len(f[k]) <= k
                      /\ Members(f[k]) = upto(k) \ U
                      /\ IsFiniteSet(Members(f[k]))
                      /\ apart => Cardinality(Members(f[k])) = Len(f[k])
           T == {k \in 0 .. n : Good(k)}
<1>5. 0 \in T
  <2>1. f[0] = <<>>  BY <1>1, <1>4
  <2>2. Members(<<>>) = {} /\ upto(0) = {}  BY DEF Members
  <2>3. Cardinality({}) = 0 /\ IsFiniteSet({})  BY FS_EmptySet
  <2>4. <<>> \in Seq(V) /\ <<>> \in Seq(User) /\ Len(<<>>) = 0  OBVIOUS
  <2> HIDE DEF upto, apart
  <2>5. f[0] \in Seq(V) /\ f[0] \in Seq(User) /\ Len(f[0]) <= 0  BY <2>1, <2>4
  <2>6. Members(f[0]) = upto(0) \ U /\ IsFiniteSet(Members(f[0]))  BY <2>1, <2>2, <2>3
  <2>7. Cardinality(Members(f[0])) = Len(f[0])  BY <2>1, <2>2, <2>3, <2>4
  <2>8. Good(0)  BY <2>5, <2>6, <2>7
  <2>9. 0 \in 0 .. n  BY <1>1
  <2> HIDE DEF Good
  <2>10. QED  BY <2>8, <2>9
<1>6. ASSUME NEW k \in T, k < n PROVE k + 1 \in T
  <2> DEFINE s == f[k]   x == q[k + 1]
  <2>1. /\ k \in 0 .. n /\ k \in Nat /\ k + 1 \in 1 .. n /\ k + 1 \in 0 .. n
        /\ k + 1 # 0 /\ (k + 1) - 1 = k
    BY <1>1, <1>6
  <2>2. Good(k)  OBVIOUS
  <2>3. x \in V /\ x \in User  BY <1>1, <2>1
  <2>4. f[k + 1] = IF x \in U THEN s ELSE Append(s, x)  BY <1>4, <2>1
  <2>5. upto(k + 1) = upto(k) \cup {x}
    <3>1. \A m : m \in 1 .. k + 1 <=> m \in 1 .. k \/ m = k + 1  BY <2>1
    <3>2. QED  BY <2>3, <3>1, Zenon
  <2>6. CASE x \in U
    <3>1. f[k + 1] = s  BY <2>4, <2>6
    <3>2. upto(k + 1) \ U = upto(k) \ U  BY <2>5, <2>6, Zenon
    <3> HIDE DEF upto, apart
    <3>3. Len(s) <= k + 1  BY <2>1, <2>2
    <3>4. Good(k + 1)  BY <2>2, <3>1, <3>2, <3>3
    <3>5. QED  BY <2>1, <3>4
  <2>7. CASE x \notin U
    <3>1. f[k + 1] = Append(s, x)  BY <2>4, <2>7
    <3>2. upto(k + 1) \ U = (upto(k) \ U) \cup {x}  BY <2>5, <2>7, Zenon
    <3>3. Members(Append(s, x)) = Members(s) \cup {x}  BY <2>2, <2>3, AppendMembers
    <3>4. ASSUME apart PROVE x \notin upto(k)
      <4>1. ASSUME NEW m \in 1 .. k, q[m] = x PROVE FALSE
        <5>1. m \in 1 .. n /\ m # k + 1  BY <1>1, <2>1
        <5>2. QED  BY <2>1, <3>4, <4>1, <5>1
      <4>2. QED  BY <4>1
    <3> HIDE DEF upto, apart
    <3>5. /\ Append(s, x) \in Seq(V) /\ Append(s, x) \in Seq(User)
          /\ Len(Append(s, x)) = Len(s) + 1 /\ Len(s) \in Nat
      BY <2>2, <2>3
    <3>6. /\ IsFiniteSet(Members(s) \cup {x})
          /\ Cardinality(Members(s)) \in Nat
          /\ x \notin Members(s) =>
                Cardinality(Members(s) \cup {x}) = Cardinality(Members(s)) + 1
      BY <2>2, FS_AddElement, FS_CardinalityType
    <3>7. apart => Cardinality(Members(Append(s, x))) = Len(Append(s, x))
      <4>1. ASSUME apart PROVE x \notin Members(s)  BY <2>2, <3>4, <4>1
      <4>2. QED  BY <2>2, <3>3, <3>5, <3>6, <4>1
    <3>8. Len(Append(s, x)) <= k + 1  BY <2>1, <2>2, <3>5
    <3>9. Good(k + 1)  BY <2>2, <3>1, <3>2, <3>3, <3>5, <3>6, <3>7, <3>8
    <3>10. QED  BY <2>1, <3>9
  <2>8. QED  BY <2>6, <2>7
<1> HIDE DEF Good
<1>7. Good(n)
  <2>1. \A k \in T : k \in Nat /\ k < n => k + 1 \in T  BY <1>6
  <2> HIDE DEF T
  <2>2. 0 .. n \subseteq T  BY <1>1, <1>5, <2>1, Induction
  <2>3. QED  BY <1>1, <2>2 DEF T
<1>8. upto(n) = Members(q)  BY <1>1, Zenon DEF Members
<1>9. Cardinality(Members(q)) = n => apart  BY <1>2, CountedApart DEF n
<1> HIDE DEF upto, apart
<1>10. QED  BY <1>3, <1>7, <1>8, <1>9 DEF Good, n

\* The waitlist q of item i, whose document is d.
QueueOk(i, d, q) ==
    /\ q \in Seq(User \ {Donor[i]})
    /\ Len(q) <= MaxWaitlist
    /\ Cardinality(Members(q)) = Len(q)
    /\ d.holder \notin Members(q)
    /\ d.cancelledBy \cap Members(q) = {}

QueueInv == /\ LInv
            /\ waitlist \in [Item -> Seq(User)]
            /\ \A i \in Item : QueueOk(i, booking[i], waitlist[i])

\* The users in U leave; nobody who stays is made the holder or barred.
LEMMA PullOk ==
    ASSUME NEW i \in Item, NEW d, NEW e, NEW q, QueueOk(i, d, q), NEW U,
           e.holder \notin Members(q) \ U, e.cancelledBy \cap (Members(q) \ U) = {}
    PROVE  QueueOk(i, e, Pull(q, U))
<1> DEFINE V == User \ {Donor[i]}   q2 == Pull(q, U)
<1>1. V \in SUBSET User /\ q \in Seq(V)  BY DEF QueueOk
<1> HIDE DEF V
<1>2. /\ q2 \in Seq(V) /\ Len(q2) <= Len(q) /\ Members(q2) = Members(q) \ U
      /\ Cardinality(Members(q2)) = Len(q2)
  BY <1>1, PullFacts DEF QueueOk
<1>3. Len(q2) \in Nat /\ Len(q) \in Nat  BY <1>1, <1>2
<1> HIDE DEF q2
<1>4. Len(q2) <= MaxWaitlist  BY <1>2, <1>3, BookingAssumption DEF QueueOk
<1>5. e.holder \notin Members(q2) /\ e.cancelledBy \cap Members(q2) = {}  BY <1>2
<1>6. QED  BY <1>2, <1>4, <1>5 DEF QueueOk, V, q2

LEMMA JoinOk ==
    ASSUME TypeOK, NEW i \in Item, QueueOk(i, booking[i], waitlist[i]),
           NEW u \in User, u # Donor[i], JoinFilter(i, u)
    PROVE  QueueOk(i, booking[i], Append(waitlist[i], u))
<1> DEFINE q == waitlist[i]   q2 == Append(q, u)   V == User \ {Donor[i]}
<1>1. q \in Seq(V) /\ u \in V  BY DEF QueueOk
<1>2. q \in Seq(User)
  <2>1. Seq(V) \subseteq Seq(User)  OBVIOUS
  <2>2. QED  BY <1>1, <2>1
<1> HIDE DEF V
<1>3. q2 \in Seq(V) /\ Len(q2) = Len(q) + 1 /\ Len(q) \in Nat  BY <1>1
<1>4. Members(q2) = Members(q) \cup {u}  BY <1>2, AppendMembers
<1>5. Cardinality(Members(q2)) = Len(q2)
  <2>1. IsFiniteSet(Members(q))  BY <1>2, Places
  <2>2. u \notin Members(q)  BY DEF JoinFilter
  <2>3. Cardinality(Members(q) \cup {u}) = Cardinality(Members(q)) + 1
    BY <2>1, <2>2, FS_AddElement
  <2>4. Cardinality(Members(q)) = Len(q)  BY DEF QueueOk
  <2>5. QED  BY <1>3, <1>4, <2>3, <2>4
<1>6. Len(q2) <= MaxWaitlist  BY <1>3, BookingAssumption DEF JoinFilter
<1>7. /\ booking[i].holder \notin Members(q2)
      /\ booking[i].cancelledBy \cap Members(q2) = {}
  BY <1>4 DEF JoinFilter, QueueOk
<1> HIDE DEF q2
<1>8. QED  BY <1>3, <1>5, <1>6, <1>7 DEF QueueOk, V, q2

\* An update of item i outside any transaction.
LEMMA QueueUpdate ==
    ASSUME QueueInv, LInv', NEW i \in Item, NEW d, NEW q, UpdateItem(i, d, q),
           QueueOk(i, d, q)
    PROVE  QueueInv'
<1>1. /\ booking'[i] = d /\ waitlist'[i] = q
      /\ \A j \in Item \ {i} : booking'[j] = booking[j] /\ waitlist'[j] = waitlist[j]
  BY DEF UpdateItem, QueueInv, LInv, QInv, TypeOK
<1>2. \A j \in Item : QueueOk(j, booking'[j], waitlist'[j])
  <2> TAKE j \in Item
  <2>1. CASE j = i  BY <1>1, <2>1
  <2>2. CASE j # i
    <3>1. booking'[j] = booking[j] /\ waitlist'[j] = waitlist[j]  BY <1>1, <2>2
    <3>2. QueueOk(j, booking[j], waitlist[j])  BY DEF QueueInv
    <3>3. QED  BY <3>1, <3>2
  <2>3. QED  BY <2>1, <2>2
<1>3. q \in Seq(User)
  <2>1. Seq(User \ {Donor[i]}) \subseteq Seq(User)  OBVIOUS
  <2>2. QED  BY <2>1 DEF QueueOk
<1>4. waitlist' \in [Item -> Seq(User)]  BY <1>3 DEF UpdateItem, QueueInv
<1>5. QED  BY <1>2, <1>4 DEF QueueInv

LEMMA QueueQuiet ==
    ASSUME QueueInv, LInv', UNCHANGED <<booking, waitlist>> PROVE QueueInv'
BY DEF QueueInv

\* Whoever a transaction makes the holder is pulled; whom it bars held the item.
LEMMA WriteHeirs ==
    ASSUME LInv, NEW p \in Proc, CommitTx(p), NEW i \in tx[p].docs
    PROVE  /\ booking'[i].holder \in {NoUser} \cup tx[p].pulls[i]
           /\ booking'[i].cancelledBy \subseteq booking[i].cancelledBy \cup {booking[i].holder}
<1> DEFINE r == req[p]   t == tx[p]   d == booking[i]   e == booking'[i]
<1>1. /\ r \in Request /\ t \in Transaction /\ e = t.after[i]
      /\ WriteOk(r, t, i, d, i \in overdue)
      /\ i \in Item /\ d \in ItemDoc
      /\ t.pulls[i] \subseteq User
  <2>1. r \in Request /\ t \in Transaction /\ e = t.after[i]
        /\ WriteOk(r, t, i, d, i \in overdue)
    BY CommitFacts
  <2>2. i \in Item /\ t.pulls[i] \subseteq User  BY <2>1 DEF Transaction
  <2>3. QED  BY <2>1, <2>2 DEF LInv, QInv, TypeOK
<1>2. ASSUME NEW h \in User, NEW heirs \in SUBSET t.pulls[i], Holds(d, h),
             Relieved(d, e, h, heirs)
      PROVE  /\ e.holder \in {NoUser} \cup t.pulls[i]
             /\ e.cancelledBy \subseteq d.cancelledBy \cup {d.holder}
  <2>1. d.holder = h  BY <1>2 DEF Holds
  <2>2. CASE e = Barred(Unbooked(d, "available"), h)
    <3>1. e = ItemLife!Doc("available", NoUser, d.cancelledBy \cup {h})
      BY <1>1, <1>2, <2>2, DocForms
    <3>2. QED  BY <2>1, <3>1 DEF ItemLife!Doc
  <2>3. ASSUME NEW w \in heirs, e = Barred(BookedBy(d, w), h)
        PROVE  /\ e.holder \in {NoUser} \cup t.pulls[i]
               /\ e.cancelledBy \subseteq d.cancelledBy \cup {d.holder}
    <3>1. w \in User  BY <1>1, <1>2, <2>3
    <3>2. e = ItemLife!Doc("booked", w, d.cancelledBy \cup {h})
      BY <1>1, <1>2, <2>3, <3>1, DocForms
    <3>3. QED  BY <1>2, <2>1, <2>3, <3>2 DEF ItemLife!Doc
  <2>4. QED  BY <1>2, <2>2, <2>3 DEF Relieved
<1>3. CASE r.op = "create"
  <2>1. e = ItemLife!Doc("available", NoUser, {})  BY <1>1, <1>3, NewForms DEF WriteOk
  <2>2. QED  BY <2>1 DEF ItemLife!Doc
<1>4. CASE r.op = "book"
  <2>1. r.user \in User /\ r.user \in t.pulls[i] /\ e = BookedBy(d, r.user)
    BY <1>1, <1>4 DEF WriteOk, Request
  <2>2. e = ItemLife!Doc("booked", r.user, d.cancelledBy)  BY <1>1, <2>1, DocForms
  <2>3. QED  BY <2>1, <2>2 DEF ItemLife!Doc
<1>5. CASE r.op \in {"cancel", "expire"}
  <2>1. /\ r.holder \in User /\ Holds(d, r.holder)
        /\ Relieved(d, e, r.holder, t.pulls[i] \ r.excluded)
    BY <1>1, <1>5 DEF WriteOk, Request, CancelFilter, Expirable, Holds
  <2>2. t.pulls[i] \ r.excluded \in SUBSET t.pulls[i]  OBVIOUS
  <2>3. QED  BY <1>2, <2>1, <2>2
<1>6. CASE r.op = "ban"
  <2>1. r.user \in User  BY <1>1, <1>6 DEF Request
  <2>2. CASE e = Unbooked(d, "hidden")
    <3>1. e = ItemLife!Doc("hidden", NoUser, d.cancelledBy)  BY <1>1, <2>1, <2>2, DocForms
    <3>2. QED  BY <3>1 DEF ItemLife!Doc
  <2>3. CASE /\ Holds(d, r.user)
             /\ Relieved(d, e, r.user,
                         t.pulls[i] \ ({Donor[i], r.user} \cup d.cancelledBy))
    <3> DEFINE heirs == t.pulls[i] \ ({Donor[i], r.user} \cup d.cancelledBy)
    <3>1. heirs \in SUBSET t.pulls[i] /\ Relieved(d, e, r.user, heirs)  BY <2>3
    <3> HIDE DEF heirs
    <3>2. QED  BY <1>2, <2>1, <2>3, <3>1
  <2>4. QED  BY <1>1, <1>6, <2>2, <2>3 DEF WriteOk
<1>7. QED  BY <1>1, <1>3, <1>4, <1>5, <1>6 DEF WriteOk

LEMMA QueueCommit ==
    ASSUME QueueInv, LInv', NEW p \in Proc, CommitTx(p) PROVE QueueInv'
<1> DEFINE t == tx[p]
<1>0. LInv /\ NoUser \notin User  BY BookingAssumption DEF QueueInv
<1>1. ASSUME NEW i \in Item PROVE QueueOk(i, booking'[i], waitlist'[i])
  <2> DEFINE d == booking[i]   e == booking'[i]   q == waitlist[i]   U == t.pulls[i]
  <2>1. QueueOk(i, d, q)  BY DEF QueueInv
  <2>2. waitlist'[i] = Pull(q, U)  BY DEF CommitTx
  <2>3. Members(q) \subseteq User  BY DEF Members
  <2>4. e.holder \notin Members(q) \ U /\ e.cancelledBy \cap (Members(q) \ U) = {}
    <3>1. CASE i \in t.docs  BY <1>0, <2>1, <2>3, <3>1, WriteHeirs DEF QueueOk
    <3>2. CASE i \notin t.docs
      <4>1. e = d  BY <3>2 DEF CommitTx
      <4>2. QED  BY <2>1, <4>1 DEF QueueOk
    <3>3. QED  BY <3>1, <3>2
  <2>5. QED  BY <2>1, <2>2, <2>4, PullOk
<1>2. waitlist' \in [Item -> Seq(User)]
  <2>1. \A i \in Item : waitlist'[i] \in Seq(User)
    <3> TAKE i \in Item
    <3>1. Seq(User \ {Donor[i]}) \subseteq Seq(User)  OBVIOUS
    <3>2. QED  BY <1>1, <3>1 DEF QueueOk
  <2>2. waitlist' = [i \in Item |-> waitlist'[i]]  BY DEF CommitTx
  <2>3. QED  BY <2>1, <2>2
<1>3. QED  BY <1>1, <1>2 DEF QueueInv

LEMMA QueueProcStep ==
    ASSUME QueueInv, LInv', NEW p \in Proc, ProcStep(p) PROVE QueueInv'
<1> DEFINE r == req[p]   i == r.item   u == r.user
<1>0. LInv /\ TypeOK /\ r \in Request /\ ReadOk(r, booking) /\ NoUser \notin User
  BY BookingAssumption DEF QueueInv, LInv, QInv, TypeOK, ReadsSound
<1>1. \A r2, q, t : Become(p, r2, q, t) => UNCHANGED <<booking, waitlist>>
  BY DEF Become
<1>2. CASE CreateBegin(p)  BY <1>1, <1>2, QueueQuiet DEF CreateBegin, Finish, Goto
<1>3. CASE BookBegin(p)  BY <1>1, <1>3, QueueQuiet DEF BookBegin, Finish, Goto
<1>4. CASE CancelBegin(p)  BY <1>1, <1>4, QueueQuiet DEF CancelBegin, Goto
<1>5. CASE ExpireBegin(p)  BY <1>1, <1>5, QueueQuiet DEF ExpireBegin, Goto
<1>6. CASE BanBegin(p)  BY <1>1, <1>6, QueueQuiet DEF BanBegin, Goto
<1>7. CASE BanItem(p)  BY <1>1, <1>7, QueueQuiet DEF BanItem, Goto
<1>8. CASE RetryTx(p)  BY <1>1, <1>8, QueueQuiet DEF RetryTx, Goto
<1>9. CASE CommitTx(p)  BY <1>9, QueueCommit
<1>10. CASE Finish(p)  BY <1>1, <1>10, QueueQuiet DEF Finish
<1>11. CASE JoinWrite(p)
  <2>1. i \in Item /\ u \in User /\ u # Donor[i]
    BY <1>0, <1>11 DEF Request, ReadOk, JoinWrite
  <2>2. CASE JoinFilter(i, u) /\ UpdateItem(i, booking[i], Append(waitlist[i], u))
    <3>1. QueueOk(i, booking[i], Append(waitlist[i], u))
      BY <1>0, <2>1, <2>2, JoinOk DEF QueueInv
    <3>2. QED  BY <2>1, <2>2, <3>1, QueueUpdate
  <2>3. QED  BY <1>10, <1>11, <2>2 DEF JoinWrite
<1>12. CASE CancelRelease(p)
  <2> DEFINE d == booking[i]   e == Barred(Unbooked(d, "available"), r.holder)
             U == Members(seen[p])
  <2>1. i \in Item /\ r.holder \in User /\ d \in ItemDoc
    BY <1>0, <1>12 DEF Request, TypeOK, CancelRelease
  <2>2. CASE CancelFilter(d, r.holder) /\ UpdateItem(i, e, Pull(waitlist[i], U))
    <3>1. e = ItemLife!Doc("available", NoUser, d.cancelledBy \cup {r.holder})
      BY <2>1, DocForms
    <3>2. e.holder = NoUser /\ e.cancelledBy = d.cancelledBy \cup {d.holder}
      BY <2>2, <3>1 DEF CancelFilter, ItemLife!Doc
    <3>3. QueueOk(i, d, waitlist[i])  BY <2>1 DEF QueueInv
    <3>4. Members(waitlist[i]) \subseteq User  BY DEF Members
    <3> HIDE DEF e, U
    <3>5. /\ e.holder \notin Members(waitlist[i]) \ U
          /\ e.cancelledBy \cap (Members(waitlist[i]) \ U) = {}
      BY <1>0, <3>2, <3>3, <3>4 DEF QueueOk
    <3>6. QueueOk(i, e, Pull(waitlist[i], U))  BY <2>1, <3>3, <3>5, PullOk
    <3>7. QED  BY <2>1, <2>2, <3>6, QueueUpdate
  <2>3. QED  BY <1>10, <1>12, <2>2 DEF CancelRelease
<1>13. QED
  BY <1>2, <1>3, <1>4, <1>5, <1>6, <1>7, <1>8, <1>9, <1>11, <1>12 DEF ProcStep

LEMMA QueueAtOnce == ASSUME QueueInv, LInv', AtOnce PROVE QueueInv'
<1>0. \A i \in Item : booking[i] \in ItemDoc /\ QueueOk(i, booking[i], waitlist[i])
  BY DEF QueueInv, LInv, QInv, TypeOK
<1>1. ASSUME NEW i \in Item, NEW d, d.holder = booking[i].holder,
             d.cancelledBy = booking[i].cancelledBy, UpdateItem(i, d, waitlist[i])
      PROVE  QueueInv'
  <2>1. QueueOk(i, d, waitlist[i])  BY <1>0, <1>1 DEF QueueOk
  <2>2. QED  BY <1>1, <2>1, QueueUpdate
<1>2. ASSUME NEW i \in Item, DonorConfirm(i) PROVE QueueInv'
  <2> DEFINE d == [booking[i] EXCEPT !.donorOk = TRUE, !.status = "delivered"]
  <2>1. d.holder = booking[i].holder /\ d.cancelledBy = booking[i].cancelledBy
    BY <1>0 DEF ItemDoc
  <2>2. UpdateItem(i, d, waitlist[i])  BY <1>2 DEF DonorConfirm
  <2> HIDE DEF d
  <2>3. QED  BY <1>1, <2>1, <2>2
<1>3. ASSUME NEW i \in Item, OwnerDelete(i) \/ AdminDelete(i) PROVE QueueInv'
  <2> DEFINE d == [booking[i] EXCEPT !.status = "deleted"]
  <2>1. d.holder = booking[i].holder /\ d.cancelledBy = booking[i].cancelledBy
    BY <1>0 DEF ItemDoc
  <2>2. UpdateItem(i, d, waitlist[i])  BY <1>3 DEF OwnerDelete, AdminDelete
  <2> HIDE DEF d
  <2>3. QED  BY <1>1, <2>1, <2>2
<1>4. ASSUME NEW i \in Item, NEW u \in User, RecipientConfirm(u, i) PROVE QueueInv'
  <2> DEFINE d == [booking[i] EXCEPT !.recipientOk = TRUE]
  <2>1. d.holder = booking[i].holder /\ d.cancelledBy = booking[i].cancelledBy
    BY <1>0 DEF ItemDoc
  <2>2. UpdateItem(i, d, waitlist[i])  BY <1>4 DEF RecipientConfirm
  <2> HIDE DEF d
  <2>3. QED  BY <1>1, <2>1, <2>2
<1>5. ASSUME NEW i \in Item, NEW u \in User, Leave(u, i) PROVE QueueInv'
  <2> DEFINE d == booking[i]   q == waitlist[i]
  <2>1. QueueOk(i, d, q)  BY <1>0
  <2>2. d.holder \notin Members(q) \ {u} /\ d.cancelledBy \cap (Members(q) \ {u}) = {}
    BY <2>1 DEF QueueOk
  <2>3. QueueOk(i, d, Pull(q, {u}))  BY <2>1, <2>2, PullOk
  <2>4. UpdateItem(i, d, Pull(q, {u}))  BY <1>5 DEF Leave
  <2>5. QED  BY <2>3, <2>4, QueueUpdate
<1>6. ASSUME NEW u \in User, Unban(u) \/ Demote(u) \/ Promote(u) PROVE QueueInv'
  BY <1>6, QueueQuiet DEF Unban, Demote, Promote
<1>7. ASSUME NEW i \in Item, BookingAges(i) PROVE QueueInv'
  BY <1>7, QueueQuiet DEF BookingAges
<1>8. QED
  BY <1>2, <1>3, <1>4, <1>5, <1>6, <1>7, BookingAssumption DEF AtOnce

LEMMA QueueStep == QueueInv /\ [Next]_vars => QueueInv'
<1> SUFFICES ASSUME QueueInv, [Next]_vars PROVE QueueInv'
  OBVIOUS
<1>1. LInv'  BY LifeStep DEF QueueInv
<1>2. CASE UNCHANGED vars  BY <1>1, <1>2, QueueQuiet DEF vars
<1>3. ASSUME NEW p \in Proc, Arrival(p) PROVE QueueInv'
  <2>1. UNCHANGED <<booking, waitlist>>
    BY <1>3 DEF Arrival, CreateRead, ExpireScan, BanStart, BookRead, CancelRead, Become
  <2>2. QED  BY <1>1, <2>1, QueueQuiet
<1>4. CASE Next  BY <1>1, <1>3, <1>4, QueueProcStep, QueueAtOnce DEF Next
<1>5. QED  BY <1>2, <1>4

LEMMA QueueInit == Init => QueueInv
<1> SUFFICES ASSUME Init PROVE QueueInv
  OBVIOUS
<1>1. Members(<<>>) = {} /\ Cardinality({}) = 0  BY FS_EmptySet DEF Members
<1>2. /\ \A V : <<>> \in Seq(V)
      /\ Len(<<>>) = 0
  OBVIOUS
<1>3. ASSUME NEW i \in Item PROVE QueueOk(i, booking[i], <<>>)
  <2>1. Len(<<>>) <= MaxWaitlist  BY <1>2, BookingAssumption
  <2>2. Cardinality(Members(<<>>)) = Len(<<>>)  BY <1>1, <1>2
  <2>3. <<>> \in Seq(User \ {Donor[i]})  OBVIOUS
  <2>4. QED  BY <1>1, <2>1, <2>2, <2>3 DEF QueueOk
<1>4. waitlist = [i \in Item |-> <<>>]  BY DEF Init
<1>5. QED  BY <1>2, <1>3, <1>4, LifeInit DEF QueueInv

\* A waitlist holds nobody twice, never grows past its bound, and never holds the
\* donor, the holder or anyone barred, although joins, promotions and releases pull
\* and append on snapshots of different ages.
THEOREM QueuesSound == Spec => []QueueSound
<1>1. QueueInv => QueueSound  BY DEF QueueInv, QueueOk, QueueSound
<1>2. QED  BY QueueInit, QueueStep, <1>1, PTL DEF Spec
=============================================================================
