---------------------------- MODULE BookingProofs ----------------------------
(***************************************************************************)
(* Theorems of Booking, for every set of users, items and handlers and for  *)
(* every value of the limits.                                               *)
(***************************************************************************)
EXTENDS Booking, FiniteSetTheorems, TLAPS

-----------------------------------------------------------------------------
(* Type correctness *)

\* The document updates keep a document well formed.
LEMMA DocUpdates ==
    ASSUME NEW d \in ItemDoc, NEW u \in User \cup {NoUser}
    PROVE  /\ BookedBy(d, u) \in ItemDoc
           /\ \A st \in Status : Unbooked(d, st) \in ItemDoc
           /\ u \in User => Barred(d, u) \in ItemDoc
BY DEF ItemDoc, Status, BookedBy, Unbooked, Barred

LEMMA BlankType ==
    /\ Blank \in ItemDoc
    /\ [Blank EXCEPT !.status = "available"] \in ItemDoc
    /\ NoTx \in Transaction
    /\ Idle \in Request
BY BookingAssumption
DEF Blank, ItemDoc, Status, NoTx, Transaction, Idle, Request, AnyRequest

LEMMA WritesType ==
    ASSUME NEW i \in Item, NEW d \in ItemDoc, NEW P \in SUBSET User, NEW L \in SUBSET User
    PROVE  Writes(i, d, P, L) \in Transaction /\ LocksOnly(L) \in Transaction
BY BlankType DEF Writes, LocksOnly, NoTx, Transaction

\* What others write only adds to what a transaction missed.
LEMMA MissedType ==
    ASSUME TypeOK, NEW p \in Proc, NEW I \in SUBSET Item, NEW U \in SUBSET User
    PROVE  Missed(p, I, U) \in Transaction
<1> DEFINE t == tx[p]
<1>1. t \in Transaction  BY DEF TypeOK
<1>2. [t EXCEPT !.missI = @ \cup I, !.missU = @ \cup U] \in Transaction
  BY <1>1 DEF Transaction
<1>3. [t EXCEPT !.missI = @ \cup (I \cap WrittenItems(t)),
                !.missU = @ \cup (U \cap WrittenUsers(t))] \in Transaction
  BY <1>1 DEF Transaction
<1>4. QED  BY <1>1, <1>2, <1>3 DEF Missed

LEMMA AllMissType ==
    ASSUME TypeOK, NEW I \in SUBSET Item, NEW U \in SUBSET User, AllMiss(I, U)
    PROVE  tx' \in [Proc -> Transaction]
BY MissedType DEF AllMiss

LEMMA BecomeType ==
    ASSUME TypeOK, NEW p \in Proc, NEW r \in Request, NEW q, NEW t \in Transaction,
           Become(p, r, q, t)
    PROVE  TypeOK'
BY DEF TypeOK, Become

LEMMA GotoType ==
    ASSUME TypeOK, NEW p \in Proc, req[p].op # "none",
           NEW pc \in {"begin", "loop", "commit", "release"},
           pc = "loop" => req[p].op = "ban",
           pc = "release" => req[p].op = "cancel",
           NEW t \in Transaction, Goto(p, pc, t)
    PROVE  TypeOK'
<1>1. [req[p] EXCEPT !.pc = pc] \in Request  BY DEF TypeOK, Request, AnyRequest
<1>2. QED  BY <1>1, BecomeType DEF Goto

LEMMA FinishType ==
    ASSUME TypeOK, NEW p \in Proc, Finish(p)
    PROVE  TypeOK'
BY BecomeType, BlankType DEF Finish

LEMMA UpdateItemType ==
    ASSUME TypeOK, NEW i \in Item, NEW d \in ItemDoc, NEW q, UpdateItem(i, d, q)
    PROVE  /\ booking' \in [Item -> ItemDoc]
           /\ overdue' \subseteq Item
           /\ banned' \subseteq User
           /\ demoted' \subseteq User
BY DEF TypeOK, UpdateItem

LEMMA UpToType ==
    ASSUME NEW q, NEW k
    PROVE  UpTo(q, k) \in SUBSET User /\ Members(q) \in SUBSET User
BY DEF UpTo, Members

LEMMA PromotedType ==
    ASSUME NEW q, NEW i, NEW excluded, NEW docs, NEW eligible \in SUBSET User,
           NEW k \in Promotable(q, i, excluded, docs, eligible)
    PROVE  q[k] \in User
BY DEF Promotable

LEMMA CreateBeginType == ASSUME TypeOK, NEW p \in Proc, CreateBegin(p) PROVE TypeOK'
<1> DEFINE u == req[p].user   i == req[p].item
<1>1. CASE Finish(p)  BY <1>1, FinishType
<1>2. CASE Goto(p, "commit", Writes(i, [Blank EXCEPT !.status = "available"], {}, {u}))
  <2>1. u \in User /\ i \in Item /\ req[p].op = "create"
    BY DEF TypeOK, Request, CreateBegin
  <2>2. QED  BY <1>2, <2>1, BlankType, WritesType, GotoType
<1>3. QED  BY <1>1, <1>2 DEF CreateBegin

LEMMA BookBeginType == ASSUME TypeOK, NEW p \in Proc, BookBegin(p) PROVE TypeOK'
<1> DEFINE u == req[p].user   i == req[p].item
           t == IF BookFilter(booking[i], u)
                THEN Writes(i, BookedBy(booking[i], u), {u}, {u})
                ELSE LocksOnly({u})
<1>1. u \in User /\ i \in Item /\ req[p].op = "book"
  BY DEF TypeOK, Request, BookBegin
<1>2. booking[i] \in ItemDoc  BY <1>1 DEF TypeOK
<1>3. CASE Finish(p)  BY <1>3, FinishType
<1>4. CASE Goto(p, "commit", t)
  <2>1. t \in Transaction  BY <1>1, <1>2, DocUpdates, WritesType
  <2>2. QED  BY <1>1, <1>4, <2>1, GotoType
<1>5. QED  BY <1>3, <1>4 DEF BookBegin

\* A booking passed on to the waiter at position k.
LEMMA PassOnType ==
    ASSUME TypeOK, NEW i \in Item, NEW h \in User, NEW q, NEW excluded,
           NEW k \in Promotable(q, i, excluded, booking, EligibleNow),
           NEW M \in SUBSET User
    PROVE  /\ Writes(i, Barred(BookedBy(booking[i], q[k]), h), UpTo(q, k), {q[k]} \cup M)
                 \in Transaction
           /\ LocksOnly({q[k]} \cup M) \in Transaction
<1>1. q[k] \in User  BY PromotedType DEF EligibleNow
<1>2. Barred(BookedBy(booking[i], q[k]), h) \in ItemDoc  BY <1>1, DocUpdates DEF TypeOK
<1>3. {q[k]} \cup M \in SUBSET User  BY <1>1
<1>4. QED  BY <1>2, <1>3, UpToType, WritesType

LEMMA CancelBeginType == ASSUME TypeOK, NEW p \in Proc, CancelBegin(p) PROVE TypeOK'
<1> DEFINE r == req[p]   i == r.item   q == seen[p]
           S == Promotable(q, i, r.excluded, booking, EligibleNow)
           t(k) == IF CancelFilter(booking[i], r.holder)
                   THEN Writes(i, Barred(BookedBy(booking[i], q[k]), r.holder),
                               UpTo(q, k), {q[k]})
                   ELSE LocksOnly({q[k]})
<1>1. i \in Item /\ r.holder \in User /\ r.op = "cancel"
  BY DEF TypeOK, Request, CancelBegin
<1>2. CASE Goto(p, "release", NoTx)  BY <1>1, <1>2, BlankType, GotoType
<1>3. ASSUME NEW k \in S, Goto(p, "commit", t(k)) PROVE TypeOK'
  <2>1. {q[k]} \cup {} = {q[k]}  OBVIOUS
  <2>2. t(k) \in Transaction  BY <1>1, <2>1, PassOnType
  <2>3. QED  BY <1>1, <1>3, <2>2, GotoType
<1>4. QED  BY <1>2, <1>3 DEF CancelBegin

LEMMA ExpireBeginType == ASSUME TypeOK, NEW p \in Proc, ExpireBegin(p) PROVE TypeOK'
<1> DEFINE r == req[p]   i == r.item   q == seen[p]
           E == EligibleNow \ r.excluded
           S == Promotable(q, i, r.excluded, booking, EligibleNow)
           e == Barred(Unbooked(booking[i], "available"), r.holder)
           L(k) == {q[k]} \cup (UpTo(q, k) \cap E)
           t0 == IF ExpireFilter(i, r.holder)
                 THEN Writes(i, e, Members(q), Members(q) \cap E)
                 ELSE LocksOnly(Members(q) \cap E)
           t(k) == IF ExpireFilter(i, r.holder)
                   THEN Writes(i, Barred(BookedBy(booking[i], q[k]), r.holder),
                               UpTo(q, k), L(k))
                   ELSE LocksOnly(L(k))
<1>1. i \in Item /\ r.holder \in User /\ r.op = "expire"
  BY DEF TypeOK, Request, ExpireBegin
<1>2. CASE Goto(p, "commit", t0)
  <2>1. Unbooked(booking[i], "available") \in ItemDoc
    BY <1>1, DocUpdates DEF TypeOK, Status
  <2>2. e \in ItemDoc  BY <1>1, <2>1, DocUpdates
  <2>3. Members(q) \in SUBSET User /\ Members(q) \cap E \in SUBSET User  BY UpToType
  <2>4. t0 \in Transaction  BY <1>1, <2>2, <2>3, WritesType
  <2>5. QED  BY <1>1, <1>2, <2>4, GotoType
<1>3. ASSUME NEW k \in S, Goto(p, "commit", t(k)) PROVE TypeOK'
  <2>1. UpTo(q, k) \cap E \in SUBSET User  BY UpToType
  <2>2. t(k) \in Transaction  BY <1>1, <2>1, PassOnType
  <2>3. QED  BY <1>1, <1>3, <2>2, GotoType
<1>4. QED  BY <1>2, <1>3 DEF ExpireBegin

LEMMA BanBeginType == ASSUME TypeOK, NEW p \in Proc, BanBegin(p) PROVE TypeOK'
<1> DEFINE u == req[p].user
           T == {i \in Item : IsActive(booking[i]) /\ (Donor[i] = u \/ booking[i].holder = u)}
           t == [NoTx EXCEPT !.after = booking, !.bans = {u}, !.todo = T,
                             !.eligible = EligibleNow \ {u},
                             !.pulls = [i \in Item |->
                                 IF u \in Members(waitlist[i]) THEN {u} ELSE {}]]
<1>1. u \in User /\ req[p].op = "ban"  BY DEF TypeOK, Request, BanBegin
<1>2. t \in Transaction
  BY <1>1, BlankType DEF NoTx, Transaction, EligibleNow, TypeOK
<1>3. CASE Goto(p, "commit", t)  BY <1>1, <1>2, <1>3, GotoType
<1>4. CASE Goto(p, "loop", t)  BY <1>1, <1>2, <1>4, GotoType
<1>5. QED  BY <1>3, <1>4 DEF BanBegin

LEMMA TreatedType ==
    ASSUME NEW t \in Transaction, NEW i \in Item, NEW e \in ItemDoc,
           NEW P \in SUBSET User, NEW L \in SUBSET User
    PROVE  Treated(t, i, e, P, L) \in Transaction
BY DEF Treated, Transaction

LEMMA BanItemType == ASSUME TypeOK, NEW p \in Proc, BanItem(p) PROVE TypeOK'
<1> DEFINE u == req[p].user   t == tx[p]
           S(i) == Promotable(waitlist[i], i, {Donor[i], u} \cup t.after[i].cancelledBy,
                              t.after, t.eligible)
           Treat(i, e, P, L) == Goto(p, IF t.todo = {i} THEN "commit" ELSE "loop",
                                     Treated(t, i, e, P, L))
<1>1. u \in User /\ req[p].op = "ban"  BY DEF TypeOK, Request, BanItem
<1>2. /\ t \in Transaction
      /\ \A i \in Item : t.after[i] \in ItemDoc
      /\ t.todo \subseteq Item /\ t.eligible \subseteq User
  BY DEF TypeOK, Transaction
<1>3. ASSUME NEW i \in Item, NEW e \in ItemDoc, NEW P \in SUBSET User,
             NEW L \in SUBSET User, Treat(i, e, P, L)
      PROVE  TypeOK'
  BY <1>1, <1>2, <1>3, TreatedType, GotoType
<1>4. PICK i \in t.todo :
        LET d == t.after[i]   q == waitlist[i] IN
        \/ Treat(i, Unbooked(d, "hidden"), Members(q), {})
        \/ Treat(i, Barred(Unbooked(d, "available"), u), {u} \cup Members(q), {})
        \/ \E k \in S(i) :
             Treat(i, Barred(BookedBy(d, q[k]), u), {u} \cup UpTo(q, k), {q[k]})
  BY DEF BanItem
<1> DEFINE d == t.after[i]   q == waitlist[i]
<1>5. i \in Item /\ d \in ItemDoc  BY <1>2
<1>6. Unbooked(d, "hidden") \in ItemDoc /\ Barred(Unbooked(d, "available"), u) \in ItemDoc
  <2>1. Unbooked(d, "hidden") \in ItemDoc /\ Unbooked(d, "available") \in ItemDoc
    BY <1>5, DocUpdates DEF Status
  <2>2. QED  BY <1>1, <2>1, DocUpdates
<1>7. CASE Treat(i, Unbooked(d, "hidden"), Members(q), {})
  BY <1>3, <1>5, <1>6, <1>7, UpToType
<1>8. CASE Treat(i, Barred(Unbooked(d, "available"), u), {u} \cup Members(q), {})
  BY <1>1, <1>3, <1>5, <1>6, <1>8, UpToType
<1>9. ASSUME NEW k \in S(i),
             Treat(i, Barred(BookedBy(d, q[k]), u), {u} \cup UpTo(q, k), {q[k]})
      PROVE  TypeOK'
  <2>1. q[k] \in User  BY <1>2, PromotedType
  <2>2. Barred(BookedBy(d, q[k]), u) \in ItemDoc  BY <1>1, <1>5, <2>1, DocUpdates
  <2>3. {u} \cup UpTo(q, k) \in SUBSET User  BY <1>1, UpToType
  <2>4. QED  BY <1>3, <1>5, <1>9, <2>1, <2>2, <2>3
<1>10. QED  BY <1>4, <1>7, <1>8, <1>9

\* A single-document update, seen by every open transaction.
LEMMA UpdateType ==
    ASSUME TypeOK, NEW i \in Item, NEW d \in ItemDoc, NEW q, UpdateItem(i, d, q),
           NEW U \in SUBSET User, AllMiss({i}, U),
           req' \in [Proc -> Request], donations' \in [User -> Nat]
    PROVE  TypeOK'
BY UpdateItemType, AllMissType DEF TypeOK

LEMMA CommitType == ASSUME TypeOK, NEW p \in Proc, CommitTx(p) PROVE TypeOK'
<1> DEFINE t == tx[p]
<1>1. t \in Transaction  BY DEF TypeOK
<1>2. booking' \in [Item -> ItemDoc] /\ overdue' \subseteq Item /\ banned' \subseteq User
  BY <1>1 DEF CommitTx, TypeOK, Transaction
<1>3. req' \in [Proc -> Request]  BY BlankType DEF CommitTx, TypeOK
<1>4. tx' \in [Proc -> Transaction]
  <2>1. WrittenItems(t) \in SUBSET Item /\ WrittenUsers(t) \in SUBSET User
    BY <1>1 DEF WrittenItems, WrittenUsers, Transaction
  <2>2. \A q \in Proc : Missed(q, WrittenItems(t), WrittenUsers(t)) \in Transaction
    BY <2>1, MissedType
  <2>3. QED  BY <2>2, BlankType DEF CommitTx
<1>5. QED  BY <1>2, <1>3, <1>4 DEF CommitTx, TypeOK

LEMMA ProcStepType == ASSUME TypeOK, NEW p \in Proc, ProcStep(p) PROVE TypeOK'
<1>1. CASE JoinWrite(p)
  <2> DEFINE u == req[p].user   i == req[p].item
  <2>1. i \in Item  BY <1>1 DEF TypeOK, Request, JoinWrite
  <2>2. CASE Finish(p)  BY <2>2, FinishType
  <2>3. CASE /\ UpdateItem(i, booking[i], Append(waitlist[i], u))
             /\ AllMiss({i}, {})
             /\ req' = [req EXCEPT ![p] = Idle]
             /\ UNCHANGED <<donations, seen>>
    <3>1. booking[i] \in ItemDoc  BY <2>1 DEF TypeOK
    <3>2. req' \in [Proc -> Request] /\ donations' \in [User -> Nat]
      BY <2>3, BlankType DEF TypeOK
    <3>3. QED  BY <2>1, <2>3, <3>1, <3>2, UpdateType
  <2>4. QED  BY <1>1, <2>2, <2>3 DEF JoinWrite
<1>2. CASE CancelRelease(p)
  <2> DEFINE r == req[p]   i == r.item
             d == Barred(Unbooked(booking[i], "available"), r.holder)
  <2>1. i \in Item /\ r.holder \in User  BY <1>2 DEF TypeOK, Request, CancelRelease
  <2>2. CASE Finish(p)  BY <2>2, FinishType
  <2>3. CASE /\ UpdateItem(i, d, Pull(waitlist[i], Members(seen[p])))
             /\ AllMiss({i}, {})
             /\ req' = [req EXCEPT ![p] = Idle]
             /\ UNCHANGED donations
    <3>1. Unbooked(booking[i], "available") \in ItemDoc
      BY <2>1, DocUpdates DEF TypeOK, Status
    <3>2. d \in ItemDoc  BY <2>1, <3>1, DocUpdates
    <3>3. req' \in [Proc -> Request] /\ donations' \in [User -> Nat]
      BY <2>3, BlankType DEF TypeOK
    <3>4. QED  BY <2>1, <2>3, <3>2, <3>3, UpdateType
  <2>4. QED  BY <1>2, <2>2, <2>3 DEF CancelRelease
<1>3. CASE RetryTx(p)
  <2>1. req[p].op # "none"  BY <1>3 DEF TypeOK, Request, RetryTx
  <2>2. QED  BY <1>3, <2>1, BlankType, GotoType DEF RetryTx
<1>4. QED
  BY <1>1, <1>2, <1>3, CreateBeginType, BookBeginType, CancelBeginType,
     ExpireBeginType, BanBeginType, BanItemType, CommitType DEF ProcStep

LEMMA ArrivalType == ASSUME TypeOK, NEW p \in Proc, Arrival(p) PROVE TypeOK'
<1>1. ASSUME NEW i \in Item, CreateRead(p, i) PROVE TypeOK'
  <2> DEFINE r == [Idle EXCEPT !.op = "create", !.pc = "begin", !.user = Donor[i], !.item = i,
                   !.limit = IF Donor[i] \in demoted THEN MaxActiveLevel1 ELSE MaxActiveLevel2]
  <2>1. r \in Request  BY BookingAssumption DEF Idle, Request, AnyRequest
  <2>2. QED  BY <1>1, <2>1, BlankType, BecomeType DEF CreateRead
<1>2. ASSUME NEW i \in Item, ExpireScan(p, i) PROVE TypeOK'
  <2> DEFINE d == booking[i]
             r == [Idle EXCEPT !.op = "expire", !.pc = "begin", !.item = i, !.holder = d.holder,
                   !.excluded = {Donor[i], d.holder} \cup d.cancelledBy]
  <2>1. d \in ItemDoc /\ d.holder # NoUser  BY <1>2 DEF TypeOK, ExpireScan
  <2>2. r \in Request
    BY <2>1, BookingAssumption DEF Idle, Request, AnyRequest, ItemDoc
  <2>3. QED  BY <1>2, <2>2, BlankType, BecomeType DEF ExpireScan
<1>3. ASSUME NEW u \in User, BanStart(p, u) PROVE TypeOK'
  <2> DEFINE r == [Idle EXCEPT !.op = "ban", !.pc = "begin", !.user = u]
  <2>1. r \in Request  BY DEF Idle, Request, AnyRequest
  <2>2. QED  BY <1>3, <2>1, BlankType, BecomeType DEF BanStart
<1>4. ASSUME NEW u \in User, NEW i \in Item, BookRead(p, u, i) PROVE TypeOK'
  <2> DEFINE rb == [Idle EXCEPT !.op = "book", !.pc = "begin", !.user = u, !.item = i]
             rj == [Idle EXCEPT !.op = "join", !.pc = "join", !.user = u, !.item = i]
  <2>1. rb \in Request /\ rj \in Request  BY DEF Idle, Request, AnyRequest
  <2>2. Become(p, rb, <<>>, NoTx) \/ Become(p, rj, <<>>, NoTx)  BY <1>4 DEF BookRead
  <2>3. QED  BY <2>1, <2>2, BlankType, BecomeType
<1>5. ASSUME NEW u \in User, NEW i \in Item, CancelRead(p, u, i) PROVE TypeOK'
  <2> DEFINE d == booking[i]
             pc == IF waitlist[i] = <<>> THEN "release" ELSE "begin"
             r == [Idle EXCEPT !.op = "cancel", !.user = u, !.item = i, !.pc = pc,
                   !.holder = d.holder,
                   !.excluded = {Donor[i], d.holder} \cup d.cancelledBy]
  <2>1. d \in ItemDoc /\ d.holder # NoUser  BY <1>5 DEF TypeOK, CancelRead
  <2>2. r \in Request
    BY <2>1, BookingAssumption DEF Idle, Request, AnyRequest, ItemDoc
  <2>3. QED  BY <1>5, <2>2, BlankType, BecomeType DEF CancelRead
<1>6. QED
  BY <1>1, <1>2, <1>3, <1>4, <1>5, BookingAssumption DEF Arrival

LEMMA AtOnceType == ASSUME TypeOK, AtOnce PROVE TypeOK'
<1>1. ASSUME NEW i \in Item, DonorConfirm(i) PROVE TypeOK'
  <2> DEFINE d == [booking[i] EXCEPT !.donorOk = TRUE, !.status = "delivered"]
  <2>1. d \in ItemDoc  BY DEF TypeOK, ItemDoc, Status
  <2>2. donations' \in [User -> Nat]
    <3>1. Donor[i] \in User  BY BookingAssumption
    <3>2. donations[Donor[i]] + 1 \in Nat  BY <3>1 DEF TypeOK
    <3>3. QED  BY <1>1, <3>1, <3>2 DEF TypeOK, DonorConfirm
  <2>3. {Donor[i]} \in SUBSET User  BY BookingAssumption
  <2>4. QED  BY <1>1, <2>1, <2>2, <2>3, UpdateType DEF DonorConfirm, TypeOK
<1>2. ASSUME NEW i \in Item, BookingAges(i) PROVE TypeOK'
  BY <1>2 DEF TypeOK, BookingAges
<1>3. ASSUME NEW i \in Item, OwnerDelete(i) \/ AdminDelete(i) PROVE TypeOK'
  <2>1. [booking[i] EXCEPT !.status = "deleted"] \in ItemDoc  BY DEF TypeOK, ItemDoc, Status
  <2>2. QED  BY <1>3, <2>1, UpdateType DEF OwnerDelete, AdminDelete, TypeOK
<1>4. ASSUME NEW u \in User, Unban(u) \/ Demote(u) \/ Promote(u) PROVE TypeOK'
  BY <1>4, AllMissType DEF TypeOK, Unban, Demote, Promote
<1>5. ASSUME NEW u \in User, NEW i \in Item, Leave(u, i) PROVE TypeOK'
  BY <1>5, UpdateType DEF Leave, TypeOK
<1>6. ASSUME NEW u \in User, NEW i \in Item, RecipientConfirm(u, i) PROVE TypeOK'
  <2>1. [booking[i] EXCEPT !.recipientOk = TRUE] \in ItemDoc  BY DEF TypeOK, ItemDoc
  <2>2. QED  BY <1>6, <2>1, UpdateType DEF RecipientConfirm, TypeOK
<1>7. QED
  BY <1>1, <1>2, <1>3, <1>4, <1>5, <1>6, BookingAssumption DEF AtOnce

LEMMA TypeStep == TypeOK /\ [Next]_vars => TypeOK'
<1>1. ASSUME TypeOK, UNCHANGED vars PROVE TypeOK'  BY <1>1 DEF TypeOK, vars
<1>2. QED  BY <1>1, ProcStepType, ArrivalType, AtOnceType DEF Next

LEMMA TypeInit == Init => TypeOK
<1> SUFFICES ASSUME Init PROVE TypeOK
  OBVIOUS
<1>1. booking \in [Item -> ItemDoc]
  BY DEF Init, Blank, ItemDoc, Status
<1>2. donations \in [User -> Nat] /\ req \in [Proc -> Request] /\ tx \in [Proc -> Transaction]
  BY BlankType DEF Init
<1>3. QED  BY <1>1, <1>2 DEF Init, TypeOK

\* Every document, request and open transaction stays well formed, whatever
\* handlers interleave: no update, promotion or retry writes a document that
\* the schema of models/Item.ts does not allow.
THEOREM TypeCorrect == Spec => []TypeOK
BY TypeInit, TypeStep, PTL DEF Spec

-----------------------------------------------------------------------------
(* The booking quota.  The inductive invariant is TypeOK, BookingQuota and     *)
(* SnapshotsSound: the quota alone is not inductive, because a commit writes   *)
(* what was computed from an old snapshot.                                     *)

QInv == TypeOK /\ BookingQuota /\ SnapshotsSound

\* User u holds nothing after the step that u did not hold before it.
NoGain(u) == \A j \in Item : Holds(booking'[j], u) => Holds(booking[j], u)

\* Transaction t2 is t with more missed writes.
KeepsView(t, t2) ==
    t2.docs = t.docs /\ t2.after = t.after /\ t2.locks = t.locks /\ t.missU \subseteq t2.missU

-----------------------------------------------------------------------------
(* Counting *)

\* A set of items no larger than another, or larger by one item.
LEMMA CountSubset ==
    ASSUME NEW S \in SUBSET Item, NEW T \in SUBSET Item, T \subseteq S,
           Cardinality(S) <= MaxBookings
    PROVE  Cardinality(T) <= MaxBookings
<1>1. IsFiniteSet(S)  BY BookingAssumption, FS_Subset
<1>2. IsFiniteSet(T) /\ Cardinality(T) <= Cardinality(S)  BY <1>1, FS_Subset
<1>3. Cardinality(S) \in Nat /\ Cardinality(T) \in Nat  BY <1>1, <1>2, FS_CardinalityType
<1>4. QED  BY <1>2, <1>3, BookingAssumption

LEMMA CountOneMore ==
    ASSUME NEW S \in SUBSET Item, NEW T \in SUBSET Item, NEW i \in Item,
           T \subseteq S \cup {i}, Cardinality(S \ {i}) < MaxBookings
    PROVE  Cardinality(T) <= MaxBookings
<1> DEFINE R == S \ {i}
<1>1. IsFiniteSet(R)  BY BookingAssumption, FS_Subset
<1>2. Cardinality(R) \in Nat  BY <1>1, FS_CardinalityType
<1>3. IsFiniteSet(R \cup {i}) /\ Cardinality(R \cup {i}) = Cardinality(R) + 1
  BY <1>1, FS_AddElement
<1>4. Cardinality(R \cup {i}) <= MaxBookings  BY <1>2, <1>3, BookingAssumption
<1>5. R \cup {i} \in SUBSET Item /\ T \subseteq R \cup {i}  OBVIOUS
<1>6. QED  BY <1>4, <1>5, CountSubset

-----------------------------------------------------------------------------
(* A transaction when it has been computed *)

LEMMA WritesSound ==
    ASSUME BookingQuota, NEW i \in Item, NEW d \in ItemDoc, NEW P \in SUBSET User,
           NEW L \in SUBSET User,
           \A w \in User : Holds(d, w) => w \in L,
           \A w \in L : Holds(d, w) => Cardinality(HeldIn(booking, w) \ {i}) < MaxBookings
    PROVE  SoundAt("commit", Writes(i, d, P, L), booking)
<1> DEFINE t == Writes(i, d, P, L)
<1>1. t.docs = {i} /\ t.after[i] = d /\ t.locks = L
  BY DEF Writes, NoTx
<1>2. LocksItsHolders(t)  BY <1>1 DEF LocksItsHolders
<1>3. ASSUME NEW w \in L PROVE Cardinality(HeldAfter(t, booking, w)) <= MaxBookings
  <2>1. HeldAfter(t, booking, w) \in SUBSET Item /\ HeldIn(booking, w) \in SUBSET Item
    BY DEF HeldAfter, HeldIn
  <2>2. CASE Holds(d, w)
    <3>1. HeldAfter(t, booking, w) \subseteq HeldIn(booking, w) \cup {i}
      BY <1>1 DEF HeldAfter, HeldIn
    <3>2. QED  BY <2>1, <2>2, <3>1, CountOneMore
  <2>3. CASE ~Holds(d, w)
    <3>1. HeldAfter(t, booking, w) \subseteq HeldIn(booking, w)
      BY <1>1, <2>3 DEF HeldAfter, HeldIn
    <3>2. Cardinality(HeldIn(booking, w)) <= MaxBookings  BY DEF BookingQuota
    <3>3. QED  BY <2>1, <3>1, <3>2, CountSubset
  <2>4. QED  BY <2>2, <2>3
<1>4. QuotaAfter(t, booking)  BY <1>1, <1>3 DEF QuotaAfter
<1>5. QED  BY <1>2, <1>4 DEF SoundAt

\* A transaction that only takes locks leaves the bookings as they are.
LEMMA EmptySound ==
    ASSUME BookingQuota, NEW t, t.docs = {}, t.locks \subseteq User
    PROVE  SoundAt("commit", t, booking)
<1>1. \A w \in User : HeldAfter(t, booking, w) = HeldIn(booking, w)
  BY DEF HeldAfter, HeldIn
<1>2. QuotaAfter(t, booking)  BY <1>1 DEF QuotaAfter, BookingQuota
<1>3. LocksItsHolders(t)  BY DEF LocksItsHolders
<1>4. QED  BY <1>2, <1>3 DEF SoundAt

LEMMA LocksOnlySound ==
    ASSUME BookingQuota, NEW L \in SUBSET User
    PROVE  SoundAt("commit", LocksOnly(L), booking)
<1>1. LocksOnly(L).docs = {} /\ LocksOnly(L).locks = L  BY DEF LocksOnly, NoTx
<1>2. QED  BY <1>1, EmptySound

-----------------------------------------------------------------------------
(* An open transaction while others write *)

LEMMA MissedKeeps ==
    ASSUME TypeOK, NEW p \in Proc, NEW I, NEW U
    PROVE  /\ KeepsView(tx[p], Missed(p, I, U))
           /\ req[p].pc = "loop" => U \subseteq Missed(p, I, U).missU
           /\ req[p].pc = "commit" =>
                 U \cap WrittenUsers(tx[p]) \subseteq Missed(p, I, U).missU
<1> tx[p] \in Transaction  BY DEF TypeOK
<1> QED  BY DEF Missed, KeepsView, Transaction

LEMMA OthersSound ==
    ASSUME TypeOK, TypeOK', NEW p \in Proc, SoundAt(req[p].pc, tx[p], booking),
           req'[p].pc = req[p].pc, KeepsView(tx[p], tx'[p]),
           \A u \in User : (req[p].pc = "loop" \/ u \in tx[p].locks) =>
                               u \in tx'[p].missU \/ NoGain(u)
    PROVE  SoundAt(req'[p].pc, tx'[p], booking')
<1> DEFINE t == tx[p]   t2 == tx'[p]
<1> USE DEF KeepsView
<1>1. t.locks \subseteq User  BY DEF TypeOK, Transaction
<1>2. ASSUME req[p].pc \in {"loop", "commit"} PROVE LocksItsHolders(t2)
  BY <1>2 DEF SoundAt, LocksItsHolders
<1>3. ASSUME req[p].pc \in {"loop", "commit"} PROVE QuotaAfter(t2, booking')
  <2> SUFFICES ASSUME NEW u \in t2.locks \ t2.missU
               PROVE  Cardinality(HeldAfter(t2, booking', u)) <= MaxBookings
    BY DEF QuotaAfter
  <2>1. u \in User /\ NoGain(u)  BY <1>1
  <2>2. Cardinality(HeldAfter(t, booking, u)) <= MaxBookings
    BY <1>3 DEF SoundAt, QuotaAfter
  <2>3. HeldAfter(t2, booking', u) \subseteq HeldAfter(t, booking, u)
    BY <2>1 DEF HeldAfter, NoGain
  <2>4. QED  BY <2>2, <2>3, CountSubset DEF HeldAfter
<1>4. ASSUME req[p].pc = "loop" PROVE ViewCurrent(t2, booking')
  BY <1>4 DEF SoundAt, ViewCurrent, NoGain
<1>5. QED  BY <1>2, <1>3, <1>4 DEF SoundAt

-----------------------------------------------------------------------------
(* The steps *)

\* Handler p moves on; nobody else notices.
LEMMA BecomeSound ==
    ASSUME QInv, TypeOK', NEW p \in Proc, NEW r, NEW q, NEW t, Become(p, r, q, t),
           SoundAt(r.pc, t, booking)
    PROVE  QInv'
<1>1. BookingQuota'  BY DEF Become, QInv, BookingQuota, HeldIn
<1>2. ASSUME NEW o \in Proc PROVE SoundAt(req[o].pc, tx[o], booking)'
  <2>1. CASE o = p
    <3>1. req'[p] = r /\ tx'[p] = t /\ booking' = booking
      BY DEF Become, QInv, TypeOK
    <3>2. QED  BY <2>1, <3>1
  <2>2. CASE o # p
    <3>1. req'[o] = req[o] /\ tx'[o] = tx[o] /\ booking' = booking
      BY <2>2 DEF Become, QInv, TypeOK
    <3>2. SoundAt(req[o].pc, tx[o], booking)  BY DEF QInv, SnapshotsSound
    <3>3. QED  BY <3>1, <3>2
  <2>3. QED  BY <2>1, <2>2
<1>3. QED  BY <1>1, <1>2 DEF QInv, SnapshotsSound

LEMMA GotoSound ==
    ASSUME QInv, TypeOK', NEW p \in Proc, NEW pc, NEW t, Goto(p, pc, t),
           SoundAt(pc, t, booking)
    PROVE  QInv'
<1>1. [req[p] EXCEPT !.pc = pc].pc = pc  BY DEF QInv, TypeOK, Request, AnyRequest
<1>2. QED  BY <1>1, BecomeSound DEF Goto

\* A handler that is not in a transaction promises nothing.
LEMMA NoTxSound ==
    ASSUME NEW pc, pc \notin {"loop", "commit"}, NEW t, NEW docs
    PROVE  SoundAt(pc, t, docs)
BY DEF SoundAt

LEMMA FinishSound ==
    ASSUME QInv, TypeOK', NEW p \in Proc, Finish(p)
    PROVE  QInv'
BY BecomeSound, NoTxSound DEF Finish, Idle

\* A single-document update that gives nobody a booking.
LEMMA UpdateSound ==
    ASSUME QInv, TypeOK', NEW i \in Item, NEW d, NEW q, UpdateItem(i, d, q),
           NEW U, AllMiss({i}, U),
           \A u \in User : Holds(d, u) => Holds(booking[i], u),
           \A p \in Proc : req'[p] = req[p] \/ req'[p] = Idle
    PROVE  QInv'
<1>1. \A u \in User : NoGain(u)  BY DEF UpdateItem, NoGain, QInv, TypeOK
<1>2. BookingQuota'
  <2> SUFFICES ASSUME NEW u \in User
               PROVE  Cardinality(HeldIn(booking', u)) <= MaxBookings
    BY DEF BookingQuota
  <2>1. HeldIn(booking', u) \subseteq HeldIn(booking, u)  BY <1>1 DEF HeldIn, NoGain
  <2>2. QED  BY <2>1, CountSubset DEF HeldIn, QInv, BookingQuota
<1>3. ASSUME NEW p \in Proc PROVE SoundAt(req[p].pc, tx[p], booking)'
  <2>1. CASE req'[p] = req[p]
    <3>1. KeepsView(tx[p], tx'[p])  BY MissedKeeps DEF AllMiss, QInv
    <3>2. QED  BY <1>1, <2>1, <3>1, OthersSound DEF QInv, SnapshotsSound
  <2>2. CASE req'[p] = Idle  BY <2>2, NoTxSound DEF Idle
  <2>3. QED  BY <2>1, <2>2
<1>4. QED  BY <1>2, <1>3 DEF QInv, SnapshotsSound

LEMMA CreateBeginSound == ASSUME QInv, TypeOK', NEW p \in Proc, CreateBegin(p) PROVE QInv'
<1> DEFINE u == req[p].user   i == req[p].item
           d == [Blank EXCEPT !.status = "available"]
<1>1. CASE Finish(p)  BY <1>1, FinishSound
<1>2. CASE Goto(p, "commit", Writes(i, d, {}, {u}))
  <2>1. u \in User /\ i \in Item  BY DEF QInv, TypeOK, Request, CreateBegin
  <2>2. d \in ItemDoc /\ \A w : ~Holds(d, w)  BY BlankType DEF Blank, Holds
  <2>3. SoundAt("commit", Writes(i, d, {}, {u}), booking)
    BY <2>1, <2>2, WritesSound DEF QInv
  <2>4. QED  BY <1>2, <2>3, GotoSound
<1>3. QED  BY <1>1, <1>2 DEF CreateBegin

LEMMA BookBeginSound == ASSUME QInv, TypeOK', NEW p \in Proc, BookBegin(p) PROVE QInv'
<1> DEFINE u == req[p].user   i == req[p].item   d == BookedBy(booking[i], u)
           t == IF BookFilter(booking[i], u) THEN Writes(i, d, {u}, {u}) ELSE LocksOnly({u})
<1>1. u \in User /\ i \in Item  BY DEF QInv, TypeOK, Request, BookBegin
<1>2. CASE Finish(p)  BY <1>2, FinishSound
<1>3. CASE Cardinality(HeldIn(booking, u)) < MaxBookings /\ Goto(p, "commit", t)
  <2>1. d \in ItemDoc /\ \A w : Holds(d, w) => w = u
    <3>1. booking[i] \in ItemDoc  BY <1>1 DEF QInv, TypeOK
    <3>2. d.holder = u  BY <3>1 DEF BookedBy, ItemDoc
    <3>3. QED  BY <1>1, <3>1, <3>2, DocUpdates DEF Holds
  <2>2. CASE BookFilter(booking[i], u)
    <3>1. HeldIn(booking, u) \ {i} = HeldIn(booking, u)
      BY <1>1, <2>2, BookingAssumption DEF BookFilter, HeldIn, Holds
    <3>2. Cardinality(HeldIn(booking, u) \ {i}) < MaxBookings  BY <1>3, <3>1
    <3>3. SoundAt("commit", Writes(i, d, {u}, {u}), booking)
      BY <1>1, <2>1, <3>2, WritesSound DEF QInv
    <3>4. QED  BY <1>3, <2>2, <3>3, GotoSound
  <2>3. CASE ~BookFilter(booking[i], u)
    BY <1>1, <1>3, <2>3, LocksOnlySound, GotoSound DEF QInv
  <2>4. QED  BY <2>2, <2>3
<1>4. Cardinality(HeldIn(booking, u)) \in Nat
  BY FS_Subset, FS_CardinalityType, BookingAssumption DEF HeldIn
<1>5. QED  BY <1>2, <1>3, <1>4, BookingAssumption DEF BookBegin

\* The booking of i is passed on to the waiter at position k, or only locked.
LEMMA PassOnSound ==
    ASSUME QInv, NEW i \in Item, NEW h \in User, NEW q, NEW excluded,
           NEW k \in Promotable(q, i, excluded, booking, EligibleNow),
           NEW M \in SUBSET User
    PROVE  /\ SoundAt("commit", Writes(i, Barred(BookedBy(booking[i], q[k]), h),
                                       UpTo(q, k), {q[k]} \cup M), booking)
           /\ SoundAt("commit", LocksOnly({q[k]} \cup M), booking)
<1> DEFINE d == Barred(BookedBy(booking[i], q[k]), h)
           L == {q[k]} \cup M
<1>1. q[k] \in User  BY PromotedType DEF EligibleNow
<1>2. booking[i] \in ItemDoc  BY DEF QInv, TypeOK
<1>3. d \in ItemDoc  BY <1>1, <1>2, DocUpdates
<1>4. \A w : Holds(d, w) => w = q[k]
  BY <1>2 DEF Holds, Barred, BookedBy, ItemDoc
<1>5. Cardinality(HeldIn(booking, q[k]) \ {i}) < MaxBookings  BY DEF Promotable
<1>6. L \in SUBSET User  BY <1>1
<1>7. \A w \in L : Holds(d, w) => Cardinality(HeldIn(booking, w) \ {i}) < MaxBookings
  BY <1>4, <1>5
<1>8. \A w \in User : Holds(d, w) => w \in L  BY <1>4
<1> HIDE DEF d, L
<1>9. SoundAt("commit", Writes(i, d, UpTo(q, k), L), booking)
  BY <1>3, <1>6, <1>7, <1>8, UpToType, WritesSound DEF QInv
<1>10. SoundAt("commit", LocksOnly(L), booking)  BY <1>6, LocksOnlySound DEF QInv
<1>11. QED  BY <1>9, <1>10 DEF d, L

LEMMA CancelBeginSound == ASSUME QInv, TypeOK', NEW p \in Proc, CancelBegin(p) PROVE QInv'
<1> DEFINE r == req[p]   i == r.item   q == seen[p]
           S == Promotable(q, i, r.excluded, booking, EligibleNow)
           t(k) == IF CancelFilter(booking[i], r.holder)
                   THEN Writes(i, Barred(BookedBy(booking[i], q[k]), r.holder),
                               UpTo(q, k), {q[k]})
                   ELSE LocksOnly({q[k]})
<1>1. i \in Item /\ r.holder \in User  BY DEF QInv, TypeOK, Request, CancelBegin
<1>2. CASE Goto(p, "release", NoTx)  BY <1>2, NoTxSound, GotoSound
<1>3. ASSUME NEW k \in S, Goto(p, "commit", t(k)) PROVE QInv'
  <2>1. {q[k]} \cup {} = {q[k]}  OBVIOUS
  <2>2. SoundAt("commit", t(k), booking)  BY <1>1, <2>1, PassOnSound
  <2>3. QED  BY <1>3, <2>2, GotoSound
<1>4. QED  BY <1>2, <1>3 DEF CancelBegin

LEMMA ExpireBeginSound == ASSUME QInv, TypeOK', NEW p \in Proc, ExpireBegin(p) PROVE QInv'
<1> DEFINE r == req[p]   i == r.item   q == seen[p]
           E == EligibleNow \ r.excluded
           S == Promotable(q, i, r.excluded, booking, EligibleNow)
           e == Barred(Unbooked(booking[i], "available"), r.holder)
           L(k) == {q[k]} \cup (UpTo(q, k) \cap E)
           t0 == IF ExpireFilter(i, r.holder)
                 THEN Writes(i, e, Members(q), Members(q) \cap E)
                 ELSE LocksOnly(Members(q) \cap E)
           t(k) == IF ExpireFilter(i, r.holder)
                   THEN Writes(i, Barred(BookedBy(booking[i], q[k]), r.holder),
                               UpTo(q, k), L(k))
                   ELSE LocksOnly(L(k))
<1>1. i \in Item /\ r.holder \in User  BY DEF QInv, TypeOK, Request, ExpireBegin
<1>2. CASE Goto(p, "commit", t0)
  <2>1. booking[i] \in ItemDoc  BY <1>1 DEF QInv, TypeOK
  <2>2. Unbooked(booking[i], "available") \in ItemDoc  BY <2>1, DocUpdates DEF Status
  <2>3. e \in ItemDoc /\ \A w : ~Holds(e, w)
    BY <1>1, <2>1, <2>2, DocUpdates DEF Holds, Barred, Unbooked, ItemDoc
  <2>4. Members(q) \in SUBSET User /\ Members(q) \cap E \in SUBSET User  BY UpToType
  <2>5. SoundAt("commit", Writes(i, e, Members(q), Members(q) \cap E), booking)
    BY <1>1, <2>3, <2>4, WritesSound DEF QInv
  <2>6. SoundAt("commit", LocksOnly(Members(q) \cap E), booking)
    BY <2>4, LocksOnlySound DEF QInv
  <2>7. QED  BY <1>2, <2>5, <2>6, GotoSound
<1>3. ASSUME NEW k \in S, Goto(p, "commit", t(k)) PROVE QInv'
  <2>1. UpTo(q, k) \cap E \in SUBSET User  BY UpToType
  <2>2. SoundAt("commit", t(k), booking)  BY <1>1, <2>1, PassOnSound
  <2>3. QED  BY <1>3, <2>2, GotoSound
<1>4. QED  BY <1>2, <1>3 DEF ExpireBegin

LEMMA BanBeginSound == ASSUME QInv, TypeOK', NEW p \in Proc, BanBegin(p) PROVE QInv'
<1> DEFINE u == req[p].user
           T == {i \in Item : IsActive(booking[i]) /\ (Donor[i] = u \/ booking[i].holder = u)}
           t == [NoTx EXCEPT !.after = booking, !.bans = {u}, !.todo = T,
                             !.eligible = EligibleNow \ {u},
                             !.pulls = [i \in Item |->
                                 IF u \in Members(waitlist[i]) THEN {u} ELSE {}]]
<1>1. t.docs = {} /\ t.locks = {} /\ t.after = booking  BY DEF NoTx
<1> HIDE DEF t
<1>2. SoundAt("commit", t, booking)  BY <1>1, EmptySound DEF QInv
<1>3. SoundAt("loop", t, booking)  BY <1>1, <1>2 DEF SoundAt, ViewCurrent
<1>4. Goto(p, "commit", t) \/ Goto(p, "loop", t)  BY DEF BanBegin, t
<1>5. QED  BY <1>2, <1>3, <1>4, GotoSound

\* The loop of a ban treats one more item.  The promoted user's bookings were
\* counted in the snapshot; a user nobody else wrote since holds nothing more now.
LEMMA TreatedSound ==
    ASSUME NEW t \in Transaction, SoundAt("loop", t, booking),
           NEW i \in Item, NEW e \in ItemDoc, NEW P \in SUBSET User, NEW L \in SUBSET User,
           \A w \in User : Holds(e, w) <=> w \in L,
           \A w \in L : Cardinality(HeldIn(t.after, w) \ {i}) < MaxBookings
    PROVE  SoundAt("loop", Treated(t, i, e, P, L), booking)
<1> DEFINE t2 == Treated(t, i, e, P, L)
<1>1. /\ t2.docs = t.docs \cup {i} /\ t2.locks = t.locks \cup L /\ t2.missU = t.missU
      /\ t2.after[i] = e /\ \A j \in Item \ {i} : t2.after[j] = t.after[j]
  BY DEF Treated, Transaction
<1>2. t.docs \subseteq Item /\ t.locks \subseteq User  BY DEF Transaction
<1>3. LocksItsHolders(t2)  BY <1>1, <1>2 DEF SoundAt, LocksItsHolders
<1>4. ViewCurrent(t2, booking)  BY <1>1, <1>2 DEF SoundAt, ViewCurrent
<1>5. QuotaAfter(t2, booking)
  <2> SUFFICES ASSUME NEW w \in t2.locks \ t2.missU
               PROVE  Cardinality(HeldAfter(t2, booking, w)) <= MaxBookings
    BY DEF QuotaAfter
  <2>1. w \in User /\ w \notin t.missU  BY <1>1, <1>2
  <2>2. CASE w \in L
    <3>1. HeldAfter(t2, booking, w) \subseteq HeldIn(t.after, w) \cup {i}
      <4> SUFFICES ASSUME NEW j \in HeldAfter(t2, booking, w), j # i
                   PROVE  j \in HeldIn(t.after, w)
        OBVIOUS
      <4>1. j \in Item  BY DEF HeldAfter
      <4>2. CASE j \in t.docs  BY <1>1, <4>1, <4>2 DEF HeldAfter, HeldIn
      <4>3. CASE j \notin t.docs
        <5>1. Holds(booking[j], w)  BY <1>1, <4>1, <4>3 DEF HeldAfter
        <5>2. QED  BY <2>1, <4>1, <4>3, <5>1 DEF SoundAt, ViewCurrent, HeldIn
      <4>4. QED  BY <4>2, <4>3
    <3>2. QED  BY <2>2, <3>1, CountOneMore DEF HeldAfter, HeldIn
  <2>3. CASE w \notin L
    <3>1. HeldAfter(t2, booking, w) \subseteq HeldAfter(t, booking, w)
      BY <1>1, <2>1, <2>3 DEF HeldAfter
    <3>2. w \in t.locks  BY <1>1, <2>3
    <3>3. Cardinality(HeldAfter(t, booking, w)) <= MaxBookings
      BY <2>1, <3>2 DEF SoundAt, QuotaAfter
    <3>4. QED  BY <3>1, <3>3, CountSubset DEF HeldAfter
  <2>4. QED  BY <2>2, <2>3
<1>6. QED  BY <1>3, <1>4, <1>5 DEF SoundAt

LEMMA BanItemSound == ASSUME QInv, TypeOK', NEW p \in Proc, BanItem(p) PROVE QInv'
<1> DEFINE u == req[p].user   t == tx[p]
           S(i) == Promotable(waitlist[i], i, {Donor[i], u} \cup t.after[i].cancelledBy,
                              t.after, t.eligible)
           Treat(i, e, P, L) == Goto(p, IF t.todo = {i} THEN "commit" ELSE "loop",
                                     Treated(t, i, e, P, L))
<1>1. u \in User /\ SoundAt("loop", t, booking)
  BY DEF QInv, TypeOK, Request, BanItem, SnapshotsSound
<1>2. /\ t \in Transaction
      /\ \A i \in Item : t.after[i] \in ItemDoc
      /\ t.todo \subseteq Item /\ t.eligible \subseteq User
  BY DEF QInv, TypeOK, Transaction
<1>3. ASSUME NEW i \in Item, NEW e \in ItemDoc, NEW P \in SUBSET User,
             NEW L \in SUBSET User, Treat(i, e, P, L),
             \A w \in User : Holds(e, w) <=> w \in L,
             \A w \in L : Cardinality(HeldIn(t.after, w) \ {i}) < MaxBookings
      PROVE  QInv'
  <2> DEFINE t2 == Treated(t, i, e, P, L)
  <2>1. SoundAt("loop", t2, booking)  BY <1>1, <1>2, <1>3, TreatedSound
  <2>2. SoundAt("commit", t2, booking)  BY <2>1 DEF SoundAt
  <2>3. Goto(p, "commit", t2) \/ Goto(p, "loop", t2)  BY <1>3
  <2>4. QED  BY <2>1, <2>2, <2>3, GotoSound
<1>4. PICK i \in t.todo :
        LET d == t.after[i]   q == waitlist[i] IN
        \/ Treat(i, Unbooked(d, "hidden"), Members(q), {})
        \/ Treat(i, Barred(Unbooked(d, "available"), u), {u} \cup Members(q), {})
        \/ \E k \in S(i) :
             Treat(i, Barred(BookedBy(d, q[k]), u), {u} \cup UpTo(q, k), {q[k]})
  BY DEF BanItem
<1> DEFINE d == t.after[i]   q == waitlist[i]
<1>5. i \in Item /\ d \in ItemDoc  BY <1>2
<1>6. CASE Treat(i, Unbooked(d, "hidden"), Members(q), {})
  <2>1. Unbooked(d, "hidden") \in ItemDoc  BY <1>5, DocUpdates DEF Status
  <2>2. \A w : ~Holds(Unbooked(d, "hidden"), w)  BY <1>5 DEF Holds, Unbooked, ItemDoc
  <2>3. QED  BY <1>3, <1>5, <1>6, <2>1, <2>2, UpToType
<1>7. CASE Treat(i, Barred(Unbooked(d, "available"), u), {u} \cup Members(q), {})
  <2> DEFINE e == Barred(Unbooked(d, "available"), u)
  <2>1. Unbooked(d, "available") \in ItemDoc  BY <1>5, DocUpdates DEF Status
  <2>2. e \in ItemDoc  BY <1>1, <2>1, DocUpdates
  <2>3. \A w : ~Holds(e, w)  BY <1>5 DEF Holds, Barred, Unbooked, ItemDoc
  <2>4. {u} \cup Members(q) \in SUBSET User  BY <1>1, UpToType
  <2>5. \A w \in User : Holds(e, w) <=> w \in {}  BY <2>3
  <2>6. Treat(i, e, {u} \cup Members(q), {})  BY <1>7
  <2>7. {} \in SUBSET User  OBVIOUS
  <2>8. \A w \in {} : Cardinality(HeldIn(t.after, w) \ {i}) < MaxBookings  OBVIOUS
  <2> HIDE DEF e, Treat
  <2>9. QED  BY <1>3, <1>5, <2>2, <2>4, <2>5, <2>6, <2>7, <2>8
<1>8. ASSUME NEW k \in S(i),
             Treat(i, Barred(BookedBy(d, q[k]), u), {u} \cup UpTo(q, k), {q[k]})
      PROVE  QInv'
  <2> DEFINE e == Barred(BookedBy(d, q[k]), u)
  <2>1. q[k] \in User  BY <1>2, PromotedType
  <2>2. e \in ItemDoc  BY <1>1, <1>5, <2>1, DocUpdates
  <2>3. \A w : Holds(e, w) <=> w = q[k]
    BY <1>5 DEF Holds, Barred, BookedBy, ItemDoc
  <2>4. Cardinality(HeldIn(t.after, q[k]) \ {i}) < MaxBookings  BY DEF Promotable
  <2>5. {u} \cup UpTo(q, k) \in SUBSET User  BY <1>1, UpToType
  <2>6. Treat(i, e, {u} \cup UpTo(q, k), {q[k]})  BY <1>8
  <2>7. {q[k]} \in SUBSET User  BY <2>1
  <2>8. \A w \in User : Holds(e, w) <=> w \in {q[k]}  BY <2>3
  <2>9. \A w \in {q[k]} : Cardinality(HeldIn(t.after, w) \ {i}) < MaxBookings  BY <2>4
  <2> HIDE DEF e, Treat
  <2>10. QED  BY <1>3, <1>5, <2>2, <2>5, <2>6, <2>7, <2>8, <2>9
<1>9. QED  BY <1>4, <1>6, <1>7, <1>8

\* The commit of p: whoever gains a booking is locked by p, and so was counted;
\* and every other transaction that locks or reads this user now misses a write.
LEMMA CommitSound == ASSUME QInv, TypeOK', NEW p \in Proc, CommitTx(p) PROVE QInv'
<1> DEFINE t == tx[p]
<1>1. t \in Transaction /\ t.docs \subseteq Item /\ t.locks \subseteq User
  BY DEF QInv, TypeOK, Transaction
<1>2. LocksItsHolders(t) /\ QuotaAfter(t, booking)
  BY DEF CommitTx, QInv, SnapshotsSound, SoundAt
<1>3. \A u \in t.locks : u \notin t.missU  BY DEF CommitTx, Conflicts, WrittenUsers
<1>4. \A u \in User : HeldIn(booking', u) = HeldAfter(t, booking, u)
  BY DEF CommitTx, HeldIn, HeldAfter
<1>5. ASSUME NEW u \in User, u \notin t.locks PROVE NoGain(u)
  BY <1>2, <1>5 DEF CommitTx, NoGain, LocksItsHolders
<1>6. BookingQuota'
  <2> SUFFICES ASSUME NEW u \in User
               PROVE  Cardinality(HeldIn(booking', u)) <= MaxBookings
    BY DEF BookingQuota
  <2>1. CASE u \in t.locks
    <3>1. Cardinality(HeldAfter(t, booking, u)) <= MaxBookings
      BY <1>2, <1>3, <2>1 DEF QuotaAfter
    <3>2. QED  BY <1>4, <3>1
  <2>2. CASE u \notin t.locks
    <3>1. HeldIn(booking', u) \subseteq HeldIn(booking, u)  BY <1>5, <2>2 DEF NoGain, HeldIn
    <3>2. HeldIn(booking', u) \in SUBSET Item /\ HeldIn(booking, u) \in SUBSET Item
      BY DEF HeldIn
    <3>3. Cardinality(HeldIn(booking, u)) <= MaxBookings  BY DEF QInv, BookingQuota
    <3>4. QED  BY <3>1, <3>2, <3>3, CountSubset
  <2>3. QED  BY <2>1, <2>2
<1>7. ASSUME NEW o \in Proc PROVE SoundAt(req[o].pc, tx[o], booking)'
  <2>1. CASE o = p
    <3>1. req'[p] = Idle  BY DEF CommitTx, QInv, TypeOK
    <3>2. QED  BY <2>1, <3>1, NoTxSound DEF Idle
  <2>2. CASE o # p
    <3> DEFINE t2 == Missed(o, WrittenItems(t), WrittenUsers(t))
    <3>1. req'[o] = req[o] /\ tx'[o] = t2  BY <2>2 DEF CommitTx, QInv, TypeOK
    <3>2. CASE req[o].pc \in {"loop", "commit"}
      <4>1. KeepsView(tx[o], t2)  BY MissedKeeps DEF QInv
      <4>2. ASSUME NEW u \in User, req[o].pc = "loop" \/ u \in tx[o].locks, ~NoGain(u)
            PROVE  u \in t2.missU
        <5>1. u \in WrittenUsers(t)  BY <1>5, <4>2 DEF WrittenUsers
        <5>2. CASE req[o].pc = "loop"  BY <5>1, <5>2, MissedKeeps DEF QInv
        <5>3. CASE req[o].pc = "commit" /\ u \in tx[o].locks
          <6>1. u \in WrittenUsers(tx[o])  BY <5>3 DEF WrittenUsers
          <6>2. QED  BY <5>1, <5>3, <6>1, MissedKeeps DEF QInv
        <5>4. QED  BY <3>2, <4>2, <5>2, <5>3
      <4>3. QED  BY <3>1, <4>1, <4>2, OthersSound DEF QInv, SnapshotsSound
    <3>3. CASE req[o].pc \notin {"loop", "commit"}  BY <3>1, <3>3, NoTxSound
    <3>4. QED  BY <3>2, <3>3
  <2>3. QED  BY <2>1, <2>2
<1>8. QED  BY <1>6, <1>7 DEF QInv, SnapshotsSound

LEMMA ProcStepSound == ASSUME QInv, TypeOK', NEW p \in Proc, ProcStep(p) PROVE QInv'
<1>1. CASE JoinWrite(p)
  <2> DEFINE u == req[p].user   i == req[p].item
  <2>1. i \in Item  BY <1>1 DEF QInv, TypeOK, Request, JoinWrite
  <2>2. CASE Finish(p)  BY <2>2, FinishSound
  <2>3. CASE /\ UpdateItem(i, booking[i], Append(waitlist[i], u))
             /\ AllMiss({i}, {})
             /\ req' = [req EXCEPT ![p] = Idle]
    <3>1. \A o \in Proc : req'[o] = req[o] \/ req'[o] = Idle  BY <2>3 DEF QInv, TypeOK
    <3>2. QED  BY <2>1, <2>3, <3>1, UpdateSound
  <2>4. QED  BY <1>1, <2>2, <2>3 DEF JoinWrite
<1>2. CASE CancelRelease(p)
  <2> DEFINE r == req[p]   i == r.item
             d == Barred(Unbooked(booking[i], "available"), r.holder)
  <2>1. i \in Item  BY <1>2 DEF QInv, TypeOK, Request, CancelRelease
  <2>2. CASE Finish(p)  BY <2>2, FinishSound
  <2>3. CASE /\ UpdateItem(i, d, Pull(waitlist[i], Members(seen[p])))
             /\ AllMiss({i}, {})
             /\ req' = [req EXCEPT ![p] = Idle]
    <3>1. \A o \in Proc : req'[o] = req[o] \/ req'[o] = Idle  BY <2>3 DEF QInv, TypeOK
    <3>2. \A u : ~Holds(d, u)
      BY <2>1 DEF QInv, TypeOK, ItemDoc, Holds, Barred, Unbooked
    <3>3. QED  BY <2>1, <2>3, <3>1, <3>2, UpdateSound
  <2>4. QED  BY <1>2, <2>2, <2>3 DEF CancelRelease
<1>3. CASE RetryTx(p)  BY <1>3, NoTxSound, GotoSound DEF RetryTx
<1>4. QED
  BY <1>1, <1>2, <1>3, CreateBeginSound, BookBeginSound, CancelBeginSound,
     ExpireBeginSound, BanBeginSound, BanItemSound, CommitSound DEF ProcStep

LEMMA ArrivalSound == ASSUME QInv, TypeOK', NEW p \in Proc, Arrival(p) PROVE QInv'
<1>1. ASSUME NEW r, NEW q, Become(p, r, q, NoTx), r.pc \notin {"loop", "commit"}
      PROVE  QInv'
  BY <1>1, NoTxSound, BecomeSound
<1>2. ASSUME NEW i \in Item, CreateRead(p, i) PROVE QInv'
  <2> DEFINE r == [Idle EXCEPT !.op = "create", !.pc = "begin", !.user = Donor[i], !.item = i,
                   !.limit = IF Donor[i] \in demoted THEN MaxActiveLevel1 ELSE MaxActiveLevel2]
  <2>1. Become(p, r, <<>>, NoTx) /\ r.pc = "begin"  BY <1>2 DEF CreateRead, Idle
  <2>2. QED  BY <1>1, <2>1
<1>3. ASSUME NEW i \in Item, ExpireScan(p, i) PROVE QInv'
  <2> DEFINE d == booking[i]
             r == [Idle EXCEPT !.op = "expire", !.pc = "begin", !.item = i, !.holder = d.holder,
                   !.excluded = {Donor[i], d.holder} \cup d.cancelledBy]
  <2>1. Become(p, r, waitlist[i], NoTx) /\ r.pc = "begin"  BY <1>3 DEF ExpireScan, Idle
  <2>2. QED  BY <1>1, <2>1
<1>4. ASSUME NEW u \in User, BanStart(p, u) PROVE QInv'
  <2> DEFINE r == [Idle EXCEPT !.op = "ban", !.pc = "begin", !.user = u]
  <2>1. Become(p, r, <<>>, NoTx) /\ r.pc = "begin"  BY <1>4 DEF BanStart, Idle
  <2>2. QED  BY <1>1, <2>1
<1>5. ASSUME NEW u \in User, NEW i \in Item, BookRead(p, u, i) PROVE QInv'
  <2> DEFINE rb == [Idle EXCEPT !.op = "book", !.pc = "begin", !.user = u, !.item = i]
             rj == [Idle EXCEPT !.op = "join", !.pc = "join", !.user = u, !.item = i]
  <2>1. rb.pc = "begin" /\ rj.pc = "join"  BY DEF Idle
  <2>2. Become(p, rb, <<>>, NoTx) \/ Become(p, rj, <<>>, NoTx)  BY <1>5 DEF BookRead
  <2>3. QED  BY <1>1, <2>1, <2>2
<1>6. ASSUME NEW u \in User, NEW i \in Item, CancelRead(p, u, i) PROVE QInv'
  <2> DEFINE d == booking[i]
             r == [Idle EXCEPT !.op = "cancel", !.user = u, !.item = i,
                   !.pc = IF waitlist[i] = <<>> THEN "release" ELSE "begin",
                   !.holder = d.holder,
                   !.excluded = {Donor[i], d.holder} \cup d.cancelledBy]
  <2>1. Become(p, r, waitlist[i], NoTx)  BY <1>6 DEF CancelRead
  <2>2. r.pc \in {"release", "begin"}  BY DEF Idle
  <2>3. QED  BY <1>1, <2>1, <2>2
<1>7. QED
  BY <1>2, <1>3, <1>4, <1>5, <1>6, BookingAssumption DEF Arrival

LEMMA AtOnceSound == ASSUME QInv, TypeOK', AtOnce PROVE QInv'
<1>1. \A i \in Item : booking[i] \in ItemDoc  BY DEF QInv, TypeOK
<1>2. ASSUME NEW i \in Item, DonorConfirm(i) PROVE QInv'
  <2> DEFINE d == [booking[i] EXCEPT !.donorOk = TRUE, !.status = "delivered"]
  <2>1. \A u : ~Holds(d, u)  BY <1>1 DEF Holds, ItemDoc
  <2>2. QED  BY <1>2, <2>1, UpdateSound DEF DonorConfirm
<1>3. ASSUME NEW i \in Item, BookingAges(i) PROVE QInv'
  <2>1. UNCHANGED <<booking, req, tx>>  BY <1>3 DEF BookingAges
  <2>2. QED  BY <2>1 DEF QInv, BookingQuota, HeldIn, SnapshotsSound
<1>4. ASSUME NEW i \in Item, OwnerDelete(i) \/ AdminDelete(i) PROVE QInv'
  <2> DEFINE d == [booking[i] EXCEPT !.status = "deleted"]
  <2>1. \A u : ~Holds(d, u)  BY <1>1 DEF Holds, ItemDoc
  <2>2. QED  BY <1>4, <2>1, UpdateSound DEF OwnerDelete, AdminDelete
<1>5. ASSUME NEW u \in User, Unban(u) \/ Demote(u) \/ Promote(u) PROVE QInv'
  <2>1. AllMiss({}, {u}) /\ UNCHANGED <<booking, req>>
    BY <1>5 DEF Unban, Demote, Promote
  <2>2. BookingQuota'  BY <2>1 DEF QInv, BookingQuota, HeldIn
  <2>3. ASSUME NEW p \in Proc PROVE SoundAt(req[p].pc, tx[p], booking)'
    <3>1. KeepsView(tx[p], tx'[p])  BY <2>1, MissedKeeps DEF AllMiss, QInv
    <3>2. \A w \in User : NoGain(w)  BY <2>1 DEF NoGain
    <3>3. QED  BY <2>1, <3>1, <3>2, OthersSound DEF QInv, SnapshotsSound
  <2>4. QED  BY <2>2, <2>3 DEF QInv, SnapshotsSound
<1>6. ASSUME NEW u \in User, NEW i \in Item, Leave(u, i) PROVE QInv'
  BY <1>6, UpdateSound DEF Leave
<1>7. ASSUME NEW u \in User, NEW i \in Item, RecipientConfirm(u, i) PROVE QInv'
  <2> DEFINE d == [booking[i] EXCEPT !.recipientOk = TRUE]
  <2>1. \A w : Holds(d, w) => Holds(booking[i], w)  BY <1>1 DEF Holds, ItemDoc
  <2>2. QED  BY <1>7, <2>1, UpdateSound DEF RecipientConfirm
<1>8. QED
  BY <1>2, <1>3, <1>4, <1>5, <1>6, <1>7, BookingAssumption DEF AtOnce

LEMMA QuotaStep == QInv /\ [Next]_vars => QInv'
<1> SUFFICES ASSUME QInv, [Next]_vars PROVE QInv'
  OBVIOUS
<1>1. TypeOK'  BY TypeStep DEF QInv
<1>2. CASE UNCHANGED vars
  BY <1>1, <1>2 DEF vars, QInv, BookingQuota, HeldIn, SnapshotsSound
<1>3. CASE Next  BY <1>1, <1>3, ProcStepSound, ArrivalSound, AtOnceSound DEF Next
<1>4. QED  BY <1>2, <1>3

LEMMA QuotaInit == Init => QInv
<1> SUFFICES ASSUME Init PROVE QInv
  OBVIOUS
<1>1. \A u \in User : HeldIn(booking, u) = {}
  BY DEF Init, Blank, HeldIn, Holds
<1>2. Cardinality({}) = 0  BY FS_EmptySet
<1>3. BookingQuota  BY <1>1, <1>2, BookingAssumption DEF BookingQuota
<1>4. SnapshotsSound  BY NoTxSound DEF Init, Idle, SnapshotsSound
<1>5. QED  BY <1>3, <1>4, TypeInit DEF QInv

\* No user ever holds more than maxBookingsPerUser bookings, for any number of
\* concurrent bookings, cancellations, expiries and bans: the operation lock of
\* utils/userOperationLock.ts is enough, because every transaction that gives a
\* user a booking writes that user's document.
THEOREM QuotaHolds == Spec => []BookingQuota
<1>1. QInv => BookingQuota  BY DEF QInv
<1>2. QED  BY QuotaInit, QuotaStep, <1>1, PTL DEF Spec

\* Every open transaction stays sound for the collection as it is now: what it
\* would write over the current documents keeps within the quota every locked
\* user whom nobody else has written since the snapshot.
THEOREM SnapshotsStaySound == Spec => []SnapshotsSound
<1>1. QInv => SnapshotsSound  BY DEF QInv
<1>2. QED  BY QuotaInit, QuotaStep, <1>1, PTL DEF Spec
=============================================================================
