---------------------------- MODULE RequestsProofs ----------------------------
(***************************************************************************)
(* Theorems of Requests, for every set of users, requests, hubs and         *)
(* handlers and for every value of the limits.                              *)
(***************************************************************************)
EXTENDS Requests, FiniteSetTheorems, TLAPS

-----------------------------------------------------------------------------
(* Type correctness *)

\* The documents a call names, by its operation.
LEMMA CallParts ==
    ASSUME NEW c \in Call
    PROVE  /\ c.op \in {"create", "cancel", "expire"} => c.request \in Request
           /\ c.op = "submit" =>
                 c.request \in Request /\ c.user \in User /\ c.hub \in Hub \cup {NoHub}
           /\ c.op \in {"accept", "reject", "withdraw"} => c.request \in Request /\ c.user \in User
           /\ c.op = "ban" => c.user \in User
           /\ c.op \in {"deactivate", "restore"} => c.hub \in Hub
BY DEF Call, NoCall

LEMMA HandlerType ==
    /\ Idle \in Handler
    /\ \A c \in Call : /\ [Idle EXCEPT !.pc = "begin", !.call = c] \in Handler
                       /\ c.op = "restore" => [c EXCEPT !.op = "deactivate"] \in Call
    /\ \A h \in Handler :
          /\ h.call \in Call
          /\ \A b \in BOOLEAN : [h EXCEPT !.stale = b] \in Handler
          /\ \A D \in SUBSET Document : [h EXCEPT !.pc = "commit", !.docs = D] \in Handler
<1>1. Idle \in Handler  BY DEF Idle, Handler, Call
<1>2. ASSUME NEW c \in Call
      PROVE  /\ [Idle EXCEPT !.pc = "begin", !.call = c] \in Handler
             /\ c.op = "restore" => [c EXCEPT !.op = "deactivate"] \in Call
  <2>1. [Idle EXCEPT !.pc = "begin", !.call = c] \in Handler  BY DEF Idle, Handler
  <2>2. c.op = "restore" => [c EXCEPT !.op = "deactivate"] \in Call  BY DEF Call, NoCall
  <2>3. QED  BY <2>1, <2>2
<1>3. ASSUME NEW h \in Handler
      PROVE  /\ h.call \in Call
             /\ \A b \in BOOLEAN : [h EXCEPT !.stale = b] \in Handler
             /\ \A D \in SUBSET Document : [h EXCEPT !.pc = "commit", !.docs = D] \in Handler
  BY DEF Handler
<1>4. QED  BY <1>1, <1>2, <1>3

\* What the handlers write are documents.
LEMMA DocsType ==
    /\ \A r \in Request : CreateDocs(r) \subseteq Document /\ CloseDocs(r) \subseteq Document
    /\ \A h \in Hub \cup {NoHub} : HubDoc(h) \subseteq Document
    /\ \A r \in Request, u \in User : <<"offer", r, u>> \in Document
    /\ \A r \in Request, u \in User, h \in Hub \cup {NoHub} :
          SubmitDocs(r, u, h) \subseteq Document
<1>1. \A h \in Hub \cup {NoHub} : HubDoc(h) \subseteq Document  BY DEF HubDoc, Document
<1>2. \A r \in Request, u \in User : <<"offer", r, u>> \in Document  BY DEF Document
<1>3. \A r \in Request : CreateDocs(r) \subseteq Document
  BY RequestsAssumption DEF CreateDocs, Document
<1>4. \A r \in Request : CloseDocs(r) \subseteq Document
  BY <1>2 DEF CloseDocs, Pending, Document
<1>5. \A r \in Request, u \in User, h \in Hub \cup {NoHub} : SubmitDocs(r, u, h) \subseteq Document
  BY <1>1, <1>2 DEF SubmitDocs, Document
<1>6. QED  BY <1>1, <1>2, <1>3, <1>4, <1>5

LEMMA AcceptDocsType ==
    ASSUME TypeOK, NEW r \in Request, NEW u \in User
    PROVE  AcceptDocs(r, u) \subseteq Document
<1>1. HubDoc(hubOf[r][u]) \subseteq Document  BY DocsType DEF TypeOK
<1>2. {<<"offer", r, v>> : v \in Pending(r)} \subseteq Document  BY DocsType DEF Pending
<1>3. {<<"request", r>>, <<"item", r>>, <<"user", Requester[r]>>, <<"user", u>>}
         \subseteq Document
  BY RequestsAssumption DEF Document
<1>4. QED  BY <1>1, <1>2, <1>3 DEF AcceptDocs

LEMMA BanDocsType ==
    ASSUME NEW u \in User
    PROVE  BanDocs(u) \subseteq Document
<1>1. {<<"user", u>>} \subseteq Document  BY DEF Document
<1>2. UndoneBy(u) \subseteq Request  BY DEF UndoneBy
<1>3. {"item", "request"} \X UndoneBy(u) \subseteq Document  BY <1>2 DEF Document
<1>4. ASSUME NEW r \in UndoneBy(u)
      PROVE  {"offer"} \X {r} \X Accepted(r) \subseteq Document
  BY <1>2 DEF Accepted, Document
<1>5. UNION {{"offer"} \X {r} \X Accepted(r) : r \in UndoneBy(u)} \subseteq Document
  BY <1>4
<1>6. QED  BY <1>1, <1>3, <1>5 DEF BanDocs

LEMMA BecomeType ==
    ASSUME TypeOK, NEW p \in Proc, NEW h \in Handler, Become(p, h)
    PROVE  TypeOK'
BY DEF TypeOK, Become, documents

LEMMA SeenType ==
    ASSUME TypeOK, NEW q \in Proc, NEW D
    PROVE  Seen(q, D) \in Handler
<1>1. handler[q] \in Handler  BY DEF TypeOK
<1>2. handler[q].stale \in BOOLEAN  BY <1>1 DEF Handler
<1>3. (handler[q].stale \/ (handler[q].docs \cap D # {})) \in BOOLEAN  BY <1>2
<1>4. QED  BY <1>1, <1>3, HandlerType DEF Seen

LEMMA WrittenType ==
    ASSUME TypeOK, NEW D, Written(D)
    PROVE  handler' \in [Proc -> Handler]
BY SeenType DEF Written

LEMMA CommitsType ==
    ASSUME TypeOK, NEW p \in Proc, NEW op, Commits(p, op)
    PROVE  handler' \in [Proc -> Handler]
BY SeenType, HandlerType DEF Commits

LEMMA BeginsType ==
    ASSUME TypeOK, NEW p \in Proc, NEW op, NEW ok, NEW D \in SUBSET Document,
           Begins(p, op, ok, D)
    PROVE  TypeOK'
<1>1. handler[p] \in Handler  BY DEF TypeOK
<1>2. [handler[p] EXCEPT !.pc = "commit", !.docs = D] \in Handler  BY <1>1, HandlerType
<1>3. QED  BY <1>2, HandlerType, BecomeType DEF Begins

LEMMA ArrivesType ==
    ASSUME TypeOK, NEW p \in Proc, NEW c \in Call, Arrives(p, c)
    PROVE  TypeOK'
BY HandlerType, BecomeType DEF Arrives

\* A begin takes a snapshot and changes nothing but the handler.
LEMMA BeginType ==
    ASSUME TypeOK, NEW p \in Proc,
           \/ CreateBegin(p) \/ SubmitBegin(p) \/ AnswerBegin(p) \/ AcceptBegin(p)
           \/ CloseBegin(p) \/ BanBegin(p) \/ DeactivateBegin(p)
    PROVE  TypeOK'
<1> DEFINE c == handler[p].call
<1>1. handler[p] \in Handler /\ c \in Call  BY HandlerType DEF TypeOK
<1>2. CASE CreateBegin(p)
  <2>1. c.op = "create"  BY <1>2 DEF CreateBegin, Begins
  <2>2. CreateDocs(c.request) \subseteq Document  BY <1>1, <2>1, CallParts, DocsType
  <2>3. QED  BY <1>2, <2>2, BeginsType DEF CreateBegin
<1>3. CASE SubmitBegin(p)
  <2>1. c.op = "submit"  BY <1>3 DEF SubmitBegin, Begins
  <2>2. SubmitDocs(c.request, c.user, c.hub) \subseteq Document
    BY <1>1, <2>1, CallParts, DocsType
  <2>3. QED  BY <1>3, <2>2, BeginsType DEF SubmitBegin
<1>4. CASE AnswerBegin(p)
  <2>1. c.op \in {"reject", "withdraw"}  BY <1>4 DEF AnswerBegin, Begins
  <2>2. {<<"offer", c.request, c.user>>} \subseteq Document
    BY <1>1, <2>1, CallParts, DocsType
  <2>3. QED  BY <1>4, <2>2, BeginsType DEF AnswerBegin
<1>5. CASE AcceptBegin(p)
  <2>1. c.op = "accept"  BY <1>5 DEF AcceptBegin, Begins
  <2>2. AcceptDocs(c.request, c.user) \subseteq Document
    BY <1>1, <2>1, CallParts, AcceptDocsType
  <2>3. QED  BY <1>5, <2>2, BeginsType DEF AcceptBegin
<1>6. CASE CloseBegin(p)
  <2>1. c.op \in {"cancel", "expire"}  BY <1>6 DEF CloseBegin, Begins
  <2>2. CloseDocs(c.request) \subseteq Document  BY <1>1, <2>1, CallParts, DocsType
  <2>3. QED  BY <1>6, <2>2, BeginsType DEF CloseBegin
<1>7. CASE BanBegin(p)
  <2>1. c.op = "ban"  BY <1>7 DEF BanBegin, Begins
  <2>2. BanDocs(c.user) \subseteq Document  BY <1>1, <2>1, CallParts, BanDocsType
  <2>3. QED  BY <1>7, <2>2, BeginsType DEF BanBegin
<1>8. CASE DeactivateBegin(p)
  <2> DEFINE D == HubDoc(c.hub)
             h1 == [handler[p] EXCEPT !.pc = "commit", !.docs = D]
             h2 == [handler[p] EXCEPT !.pc = "commit", !.docs = D, !.call.op = "restore"]
  <2>1. c.op = "deactivate"  BY <1>8 DEF DeactivateBegin
  <2>2. D \subseteq Document  BY <1>1, <2>1, CallParts, DocsType
  <2>3. h1 \in Handler  BY <1>1, <2>2, HandlerType
  <2>4. [c EXCEPT !.op = "restore"] \in Call  BY <1>1, <2>1 DEF Call, NoCall
  <2>5. h2 \in Handler
    <3>1. h2 = [h1 EXCEPT !.call = [c EXCEPT !.op = "restore"]]  BY <1>1 DEF Handler
    <3>2. QED  BY <3>1, <2>3, <2>4 DEF Handler
  <2>6. Become(p, Idle) \/ Become(p, h1) \/ Become(p, h2)  BY <1>8 DEF DeactivateBegin
  <2>7. QED  BY <2>3, <2>5, <2>6, HandlerType, BecomeType
<1>9. QED  BY <1>2, <1>3, <1>4, <1>5, <1>6, <1>7, <1>8

LEMMA ConflictType == ASSUME TypeOK, NEW p \in Proc, Conflict(p) PROVE TypeOK'
<1> DEFINE h == handler[p]
           h1 == [Idle EXCEPT !.pc = "begin", !.call = h.call]
           h2 == [Idle EXCEPT !.pc = "begin", !.call = [h.call EXCEPT !.op = "deactivate"]]
<1>1. h \in Handler /\ h.call \in Call  BY HandlerType DEF TypeOK
<1>2. h1 \in Handler  BY <1>1, HandlerType
<1>3. h.call.op = "restore" => h2 \in Handler  BY <1>1, HandlerType
<1>4. Become(p, Idle) \/ Become(p, h1) \/ (h.call.op = "restore" /\ Become(p, h2))
  BY DEF Conflict
<1>5. QED  BY <1>2, <1>3, <1>4, HandlerType, BecomeType

LEMMA EndOffersType ==
    ASSUME TypeOK, NEW p \in Proc, NEW r \in Request, NEW st \in OfferStatus
    PROVE  EndOffers(p, r, st) \in [User -> OfferStatus]
BY DEF TypeOK, EndOffers

LEMMA CommitType ==
    ASSUME TypeOK, NEW p \in Proc,
           \/ CreateCommit(p) \/ SubmitCommit(p) \/ AnswerCommit(p) \/ AcceptCommit(p)
           \/ CloseCommit(p) \/ BanCommit(p) \/ DeactivateCommit(p)
    PROVE  TypeOK'
<1> DEFINE c == handler[p].call
<1>1. handler[p] \in Handler /\ c \in Call  BY HandlerType DEF TypeOK
<1>2. handler' \in [Proc -> Handler]
  BY CommitsType DEF CreateCommit, SubmitCommit, AnswerCommit, AcceptCommit, CloseCommit,
                     BanCommit, DeactivateCommit
<1>3. CASE CreateCommit(p)
  BY <1>2, <1>3 DEF TypeOK, CreateCommit, RequestStatus
<1>4. CASE SubmitCommit(p)
  <2>1. c.op = "submit"  BY <1>4 DEF SubmitCommit, Commits
  <2>2. c.request \in Request /\ c.user \in User /\ c.hub \in Hub \cup {NoHub}
    BY <1>1, <2>1, CallParts
  <2>3. offer' \in [Request -> [User -> OfferStatus]]
    BY <1>4, <2>2 DEF TypeOK, SubmitCommit, OfferStatus
  <2>4. hubOf' \in [Request -> [User -> Hub \cup {NoHub}]]
    BY <1>4, <2>2 DEF TypeOK, SubmitCommit
  <2>5. QED  BY <1>2, <1>4, <2>3, <2>4 DEF TypeOK, SubmitCommit
<1>5. CASE AnswerCommit(p)
  <2>1. PICK st \in OfferStatus : offer' = [offer EXCEPT ![c.request][c.user] = st]
    BY <1>5 DEF AnswerCommit, OfferStatus
  <2>2. offer' \in [Request -> [User -> OfferStatus]]
    <3>1. c.op \in {"reject", "withdraw"}  BY <1>5 DEF AnswerCommit, Commits
    <3>2. c.request \in Request /\ c.user \in User  BY <1>1, <3>1, CallParts
    <3>3. QED  BY <2>1, <3>2 DEF TypeOK
  <2>3. UNCHANGED <<request, past, hubOf, item, banned, demoted, inactive, booked, offered>>
    BY <1>5 DEF AnswerCommit
  <2>4. QED  BY <1>2, <2>2, <2>3 DEF TypeOK
<1>6. CASE AcceptCommit(p)
  <2>1. c.op = "accept"  BY <1>6 DEF AcceptCommit, Commits
  <2>2. c.request \in Request /\ c.user \in User  BY <1>1, <2>1, CallParts
  <2>3. [EndOffers(p, c.request, "rejected") EXCEPT ![c.user] = "accepted"]
           \in [User -> OfferStatus]
    BY <2>2, EndOffersType DEF OfferStatus
  <2>4. offer' \in [Request -> [User -> OfferStatus]]
    BY <1>6, <2>2, <2>3 DEF TypeOK, AcceptCommit
  <2>5. item' \in [Request -> LinkedItem]
    <3>1. [status |-> "booked", donor |-> c.user, recipientOk |-> FALSE] \in LinkedItem
      BY <2>2 DEF LinkedItem
    <3>2. QED  BY <1>6, <3>1 DEF TypeOK, AcceptCommit
  <2>6. request' \in [Request -> RequestStatus]
    BY <1>6 DEF TypeOK, AcceptCommit, RequestStatus
  <2>7. QED  BY <1>2, <1>6, <2>4, <2>5, <2>6 DEF TypeOK, AcceptCommit
<1>7. CASE CloseCommit(p)
  <2>1. c.op \in {"cancel", "expire"}  BY <1>7 DEF CloseCommit, Commits
  <2>2. c.request \in Request  BY <1>1, <2>1, CallParts
  <2>3. \A st \in OfferStatus : EndOffers(p, c.request, st) \in [User -> OfferStatus]
    BY <2>2, EndOffersType
  <2>4. offer' \in [Request -> [User -> OfferStatus]]
    BY <1>7, <2>2, <2>3 DEF TypeOK, CloseCommit, OfferStatus
  <2>5. request' \in [Request -> RequestStatus]
    BY <1>7 DEF TypeOK, CloseCommit, RequestStatus
  <2>6. QED  BY <1>2, <1>7, <2>4, <2>5 DEF TypeOK, CloseCommit
<1>8. CASE BanCommit(p)
  <2>1. c.op = "ban"  BY <1>8 DEF BanCommit, Commits
  <2>2. c.user \in User  BY <1>1, <2>1, CallParts
  <2>3. request' \in [Request -> RequestStatus]
    BY <1>8 DEF TypeOK, BanCommit, RequestStatus
  <2>4. offer' \in [Request -> [User -> OfferStatus]]
    BY <1>8 DEF TypeOK, BanCommit, OfferStatus
  <2>5. item' \in [Request -> LinkedItem]
    <3>1. \A r \in Request :
             [item[r] EXCEPT !.status = "hidden", !.recipientOk = FALSE] \in LinkedItem
      BY DEF TypeOK, LinkedItem
    <3>2. QED  BY <1>8, <3>1 DEF TypeOK, BanCommit
  <2>6. booked' \in [User -> Nat] /\ offered' \in [User -> Nat]
    BY <1>8 DEF TypeOK, BanCommit
  <2>7. QED  BY <1>2, <1>8, <2>2, <2>3, <2>4, <2>5, <2>6 DEF TypeOK, BanCommit
<1>9. CASE DeactivateCommit(p)
  <2>1. c.op \in {"deactivate", "restore"}  BY <1>9 DEF DeactivateCommit, Commits
  <2>2. c.hub \in Hub  BY <1>1, <2>1, CallParts
  <2>3. QED  BY <1>2, <1>9, <2>2 DEF TypeOK, DeactivateCommit, documents
<1>10. QED  BY <1>3, <1>4, <1>5, <1>6, <1>7, <1>8, <1>9

LEMMA ProcStepType == ASSUME TypeOK, NEW p \in Proc, ProcStep(p) PROVE TypeOK'
BY BeginType, CommitType, ConflictType DEF ProcStep

LEMMA ArrivalType == ASSUME TypeOK, NEW p \in Proc, Arrival(p) PROVE TypeOK'
<1>1. ASSUME NEW r \in Request, CreateRead(p, r) \/ CancelRead(p, r) \/ ExpireScan(p, r)
      PROVE  TypeOK'
  <2>1. \A op \in {"create", "cancel", "expire"} :
           [NoCall EXCEPT !.op = op, !.request = r] \in Call
    BY DEF NoCall, Call
  <2>2. QED  BY <1>1, <2>1, ArrivesType DEF CreateRead, CancelRead, ExpireScan
<1>2. ASSUME NEW r \in Request, NEW u \in User,
             RejectRead(p, r, u) \/ WithdrawRead(p, r, u) \/ AcceptRead(p, r, u)
      PROVE  TypeOK'
  <2>1. \A op \in {"reject", "withdraw", "accept"} :
           [NoCall EXCEPT !.op = op, !.request = r, !.user = u] \in Call
    BY DEF NoCall, Call
  <2>2. QED  BY <1>2, <2>1, ArrivesType DEF RejectRead, WithdrawRead, AcceptRead, Answer
<1>3. ASSUME NEW r \in Request, NEW u \in User, NEW h \in Hub \cup {NoHub},
             SubmitRead(p, r, u, h)
      PROVE  TypeOK'
  <2>1. [op |-> "submit", request |-> r, user |-> u, hub |-> h] \in Call  BY DEF Call
  <2>2. QED  BY <1>3, <2>1, ArrivesType DEF SubmitRead
<1>4. ASSUME NEW u \in User, BanStart(p, u) PROVE TypeOK'
  <2>1. [NoCall EXCEPT !.op = "ban", !.user = u] \in Call  BY DEF NoCall, Call
  <2>2. QED  BY <1>4, <2>1, ArrivesType DEF BanStart
<1>5. ASSUME NEW h \in Hub, DeactivateStart(p, h) PROVE TypeOK'
  <2>1. [NoCall EXCEPT !.op = "deactivate", !.hub = h] \in Call  BY DEF NoCall, Call
  <2>2. QED  BY <1>5, <2>1, ArrivesType DEF DeactivateStart
<1>6. QED  BY <1>1, <1>2, <1>3, <1>4, <1>5, RequestsAssumption DEF Arrival

LEMMA AtOnceType == ASSUME TypeOK, AtOnce PROVE TypeOK'
<1>1. ASSUME NEW r \in Request, RequestAges(r) PROVE TypeOK'
  BY <1>1 DEF TypeOK, RequestAges
<1>2. ASSUME NEW r \in Request, RecipientConfirm(r) \/ DonorConfirm(r) \/ AdminDelete(r)
      PROVE  TypeOK'
  <2>1. handler' \in [Proc -> Handler]
    BY <1>2, WrittenType DEF RecipientConfirm, DonorConfirm, AdminDelete
  <2>2. item' \in [Request -> LinkedItem]
    <3>1. /\ [item[r] EXCEPT !.recipientOk = TRUE] \in LinkedItem
          /\ \A st \in {"delivered", "deleted"} : [item[r] EXCEPT !.status = st] \in LinkedItem
      BY DEF TypeOK, LinkedItem
    <3>2. QED  BY <1>2, <3>1 DEF TypeOK, RecipientConfirm, DonorConfirm, AdminDelete
  <2>3. QED  BY <1>2, <2>1, <2>2 DEF TypeOK, RecipientConfirm, DonorConfirm, AdminDelete
<1>3. ASSUME NEW u \in User,
             PublicBook(u) \/ PublicBookEnds(u) \/ PublicOffer(u) \/ PublicOfferEnds(u)
      PROVE  TypeOK'
  <2>1. handler' \in [Proc -> Handler]
    BY <1>3, WrittenType DEF TypeOK, PublicBook, PublicBookEnds, PublicOffer, PublicOfferEnds
  <2>2. \E n \in Nat :
           \/ booked' = [booked EXCEPT ![u] = n] /\ offered' = offered
           \/ offered' = [offered EXCEPT ![u] = n] /\ booked' = booked
    <3>1. booked[u] \in Nat /\ offered[u] \in Nat  BY DEF TypeOK
    <3>2. /\ booked[u] + 1 \in Nat /\ offered[u] + 1 \in Nat
          /\ booked[u] > 0 => booked[u] - 1 \in Nat
          /\ offered[u] > 0 => offered[u] - 1 \in Nat
      BY <3>1
    <3>3. QED
      BY <1>3, <3>2 DEF PublicBook, PublicBookEnds, PublicOffer, PublicOfferEnds
  <2>3. QED
    BY <1>3, <2>1, <2>2 DEF TypeOK, PublicBook, PublicBookEnds, PublicOffer, PublicOfferEnds
<1>4. ASSUME NEW u \in User, Unban(u) \/ Demote(u) \/ Promote(u) PROVE TypeOK'
  BY <1>4, WrittenType DEF TypeOK, Unban, Demote, Promote
<1>5. ASSUME NEW h \in Hub, Reactivate(h) PROVE TypeOK'
  BY <1>5, WrittenType DEF TypeOK, Reactivate
<1>6. QED  BY <1>1, <1>2, <1>3, <1>4, <1>5, RequestsAssumption DEF AtOnce

LEMMA TypeStep == TypeOK /\ [Next]_vars => TypeOK'
<1>1. ASSUME TypeOK, UNCHANGED vars PROVE TypeOK'  BY <1>1 DEF TypeOK, vars, documents
<1>2. QED  BY <1>1, ProcStepType, ArrivalType, AtOnceType DEF Next

LEMMA TypeInit == Init => TypeOK
<1> SUFFICES ASSUME Init PROVE TypeOK
  OBVIOUS
<1>1. item \in [Request -> LinkedItem]  BY DEF Init, NoLink, LinkedItem
<1>2. handler \in [Proc -> Handler]  BY HandlerType DEF Init
<1>3. QED  BY <1>1, <1>2 DEF Init, TypeOK, RequestStatus, OfferStatus

\* Every request, offer, linked item and handler stays well formed: no handler
\* writes a status the schemas of models/DonationRequest.ts, DonationOffer.ts and
\* Item.ts do not have, or a document it did not read.
THEOREM TypeCorrect == Spec => []TypeOK
BY TypeInit, TypeStep, PTL DEF Spec

-----------------------------------------------------------------------------
(* Requests, offers, items and hubs agree.  A transaction that can still       *)
(* commit finds the documents as it saw them (SnapshotsCurrent), because every *)
(* handler declares, among the documents it writes, whatever it changes and    *)
(* whatever could make another handler's checks or list of documents out of    *)
(* date (Covered).                                                             *)

\* D has all that the step changes, and the document that stands for every set
\* the step enlarges: the request for its pending and accepted offers, the user
\* for the exchanges a ban undoes, the hub for what refers to it.
Covered(D) ==
    /\ \A r \in Request :
          /\ request'[r] # request[r] => <<"request", r>> \in D
          /\ item'[r] # item[r] => <<"item", r>> \in D
          /\ \A u \in User : offer'[r][u] # offer[r][u] \/ hubOf'[r][u] # hubOf[r][u]
                                => <<"offer", r, u>> \in D
          /\ \/ <<"request", r>> \in D
             \/ Pending(r)' \subseteq Pending(r) /\ Accepted(r)' \subseteq Accepted(r)
    /\ \A u \in User :
          \/ <<"user", u>> \in D
          \/ (u \in banned <=> u \in banned') /\ UndoneBy(u)' \subseteq UndoneBy(u)
    /\ \A h \in Hub :
          \/ <<"hub", h>> \in D
          \/ /\ h \in inactive <=> h \in inactive'
             /\ ItemsAt(h)' \subseteq ItemsAt(h) /\ OffersAt(h)' \subseteq OffersAt(h)

\* Requests that are being posted do not exist, and are posted once.
PostsAreNew ==
    \A p \in Proc : handler[p].call.op = "create" =>
        /\ request[handler[p].call.request] = "absent"
        /\ \A q \in Proc \ {p} : handler[q].call.op = "create" =>
              handler[q].call.request # handler[p].call.request

\* The donor confirms after the recipient.
DeliveredIsConfirmed ==
    \A r \in Request : item[r].status = "delivered" => item[r].recipientOk

Agreement ==
    /\ OffersFollowRequest /\ ExchangesAmongAllowed /\ HubsInUseStayOpen
    /\ DeliveredIsConfirmed

IInv == TypeOK /\ Agreement /\ PostsAreNew /\ SnapshotsCurrent

-----------------------------------------------------------------------------
(* What the handlers write *)

LEMMA AcceptDocsMembers ==
    ASSUME NEW r \in Request, NEW u \in User
    PROVE  /\ {<<"request", r>>, <<"item", r>>, <<"user", Requester[r]>>, <<"user", u>>}
                \subseteq AcceptDocs(r, u)
           /\ \A v \in User : <<"offer", r, v>> \in AcceptDocs(r, u) <=> v \in Pending(r)
           /\ \A h \in Hub : hubOf[r][u] = h => <<"hub", h>> \in AcceptDocs(r, u)
<1>1. \A v \in User : \A h : <<"offer", r, v>> # <<"hub", h>>  OBVIOUS
<1>2. \A v \in User : <<"offer", r, v>> \notin HubDoc(hubOf[r][u])  BY <1>1 DEF HubDoc
<1>3. \A v \in User : <<"offer", r, v>> \notin
         {<<"request", r>>, <<"item", r>>, <<"user", Requester[r]>>, <<"user", u>>}
  OBVIOUS
<1>4. \A v \in User : <<"offer", r, v>> \in {<<"offer", r, w>> : w \in Pending(r)}
                         <=> v \in Pending(r)
  OBVIOUS
<1>5. \A h \in Hub : hubOf[r][u] = h => <<"hub", h>> \in HubDoc(hubOf[r][u])
  BY RequestsAssumption DEF HubDoc
<1>6. QED  BY <1>2, <1>3, <1>4, <1>5 DEF AcceptDocs

LEMMA CloseDocsMembers ==
    ASSUME NEW r \in Request
    PROVE  /\ <<"request", r>> \in CloseDocs(r)
           /\ \A v \in User : <<"offer", r, v>> \in CloseDocs(r) <=> v \in Pending(r)
<1>1. \A v \in User : <<"offer", r, v>> # <<"request", r>>  OBVIOUS
<1>2. QED  BY <1>1 DEF CloseDocs

LEMMA BanDocsMembers ==
    ASSUME NEW u \in User
    PROVE  /\ <<"user", u>> \in BanDocs(u)
           /\ \A r \in Request :
                 /\ <<"request", r>> \in BanDocs(u) <=> r \in UndoneBy(u)
                 /\ <<"item", r>> \in BanDocs(u) <=> r \in UndoneBy(u)
                 /\ \A v \in User : <<"offer", r, v>> \in BanDocs(u)
                                       <=> r \in UndoneBy(u) /\ v \in Accepted(r)
<1> DEFINE I == {"item", "request"} \X UndoneBy(u)
           O == UNION {{"offer"} \X {r} \X Accepted(r) : r \in UndoneBy(u)}
<1>1. \A r \in Request : /\ <<"request", r>> \in I <=> r \in UndoneBy(u)
                         /\ <<"item", r>> \in I <=> r \in UndoneBy(u)
  OBVIOUS
<1>2. \A r \in Request, v \in User : <<"offer", r, v>> \in O
                                        <=> r \in UndoneBy(u) /\ v \in Accepted(r)
  OBVIOUS
<1>3. \A r \in Request, v \in User : <<"offer", r, v>> \notin I \cup {<<"user", u>>}
  OBVIOUS
<1>4. \A r \in Request : <<"request", r>> \notin O /\ <<"item", r>> \notin O
  OBVIOUS
<1>5. \A r : <<"request", r>> # <<"user", u>> /\ <<"item", r>> # <<"user", u>>  OBVIOUS
<1>6. QED  BY <1>1, <1>2, <1>3, <1>4, <1>5 DEF BanDocs

LEMMA SubmitDocsMembers ==
    ASSUME NEW r \in Request, NEW u \in User, NEW h \in Hub \cup {NoHub}
    PROVE  /\ <<"user", u>> \in SubmitDocs(r, u, h)
           /\ <<"request", r>> \in SubmitDocs(r, u, h)
           /\ <<"offer", r, u>> \in SubmitDocs(r, u, h)
           /\ h \in Hub => <<"hub", h>> \in SubmitDocs(r, u, h)
BY RequestsAssumption DEF SubmitDocs, HubDoc

-----------------------------------------------------------------------------
(* What a transaction saw stays current while nobody writes its documents *)

LEMMA AcceptStays ==
    ASSUME TypeOK, NEW r \in Request, NEW u \in User, NEW D, Covered(D),
           AcceptDocs(r, u) \cap D = {}, offer[r][u] = "pending"
    PROVE  /\ request'[r] = request[r] /\ offer'[r][u] = offer[r][u]
           /\ hubOf'[r][u] = hubOf[r][u]
           /\ Requester[r] \in banned' <=> Requester[r] \in banned
           /\ u \in banned' <=> u \in banned
           /\ hubOf[r][u] \in Hub => (hubOf[r][u] \in inactive' <=> hubOf[r][u] \in inactive)
           /\ AcceptDocs(r, u)' = AcceptDocs(r, u)
<1>1. u \in Pending(r)  BY DEF Pending
<1>2. /\ <<"request", r>> \notin D /\ <<"user", Requester[r]>> \notin D
      /\ <<"user", u>> \notin D /\ \A v \in Pending(r) : <<"offer", r, v>> \notin D
  BY AcceptDocsMembers DEF Pending
<1>3. hubOf[r][u] \in Hub => <<"hub", hubOf[r][u]>> \notin D  BY AcceptDocsMembers
<1>4. request'[r] = request[r] /\ Pending(r)' \subseteq Pending(r)  BY <1>2 DEF Covered
<1>5. \A v \in Pending(r) : offer'[r][v] = offer[r][v] /\ hubOf'[r][v] = hubOf[r][v]
  BY <1>2 DEF Covered, Pending
<1>6. Pending(r) \subseteq Pending(r)'  BY <1>5 DEF Pending
<1>7. AcceptDocs(r, u)' = AcceptDocs(r, u)  BY <1>1, <1>4, <1>5, <1>6 DEF AcceptDocs
<1>8. Requester[r] \in User  BY RequestsAssumption
<1>9. (Requester[r] \in banned' <=> Requester[r] \in banned) /\ (u \in banned' <=> u \in banned)
  BY <1>2, <1>8 DEF Covered
<1>10. hubOf[r][u] \in Hub => (hubOf[r][u] \in inactive' <=> hubOf[r][u] \in inactive)
  BY <1>3 DEF Covered
<1>11. QED  BY <1>1, <1>4, <1>5, <1>7, <1>9, <1>10

LEMMA CloseStays ==
    ASSUME NEW r \in Request, NEW D, Covered(D), CloseDocs(r) \cap D = {}
    PROVE  request'[r] = request[r] /\ CloseDocs(r)' = CloseDocs(r)
<1>1. <<"request", r>> \notin D /\ \A v \in Pending(r) : <<"offer", r, v>> \notin D
  BY CloseDocsMembers DEF Pending
<1>2. request'[r] = request[r] /\ Pending(r)' \subseteq Pending(r)  BY <1>1 DEF Covered
<1>3. Pending(r) \subseteq Pending(r)'  BY <1>1 DEF Covered, Pending
<1>4. QED  BY <1>2, <1>3 DEF CloseDocs

LEMMA BanStays ==
    ASSUME NEW u \in User, NEW D, Covered(D), BanDocs(u) \cap D = {}
    PROVE  BanDocs(u)' = BanDocs(u)
<1>1. <<"user", u>> \notin D  BY BanDocsMembers
<1>2. \A r \in UndoneBy(u) :
         /\ <<"request", r>> \notin D /\ <<"item", r>> \notin D
         /\ \A v \in Accepted(r) : <<"offer", r, v>> \notin D
  BY BanDocsMembers DEF UndoneBy, Accepted
<1>3. UndoneBy(u)' \subseteq UndoneBy(u)  BY <1>1 DEF Covered
<1>4. \A r \in UndoneBy(u) : item'[r] = item[r]  BY <1>2 DEF Covered, UndoneBy
<1>5. UndoneBy(u) \subseteq UndoneBy(u)'  BY <1>4 DEF UndoneBy
<1>6. ASSUME NEW r \in UndoneBy(u) PROVE Accepted(r)' = Accepted(r)
  <2>1. Accepted(r)' \subseteq Accepted(r)  BY <1>2 DEF Covered, UndoneBy
  <2>2. Accepted(r) \subseteq Accepted(r)'  BY <1>2 DEF Covered, UndoneBy, Accepted
  <2>3. QED  BY <2>1, <2>2
<1>7. UndoneBy(u)' = UndoneBy(u)  BY <1>3, <1>5
<1>8. UNION {{"offer"} \X {r} \X Accepted(r)' : r \in UndoneBy(u)}
         = UNION {{"offer"} \X {r} \X Accepted(r) : r \in UndoneBy(u)}
  BY <1>6
<1>9. QED  BY <1>7, <1>8 DEF BanDocs

LEMMA StaysCurrent ==
    ASSUME TypeOK, TypeOK', NEW h \in Handler, NEW D, Covered(D), Current(h), h.docs \cap D = {}
    PROVE  Current(h)'
<1> DEFINE r == h.call.request   u == h.call.user   op == h.call.op   hub == h.call.hub
<1>1. h.call \in Call  BY HandlerType
<1>2. CASE op = "create"
  <2>1. r \in Request  BY <1>1, <1>2, CallParts
  <2>2. <<"request", r>> \notin D  BY <1>2, <2>1 DEF Current, CreateDocs
  <2>3. QED  BY <1>2, <2>1, <2>2 DEF Current, Covered, CreateDocs
<1>3. CASE op = "submit"
  <2>1. r \in Request /\ u \in User /\ hub \in Hub \cup {NoHub}  BY <1>1, <1>3, CallParts
  <2>2. h.docs = SubmitDocs(r, u, hub)  BY <1>3 DEF Current
  <2>3. /\ <<"request", r>> \notin D /\ <<"offer", r, u>> \notin D
        /\ hub \in Hub => <<"hub", hub>> \notin D
    <3>1. /\ <<"request", r>> \in h.docs /\ <<"offer", r, u>> \in h.docs
          /\ hub \in Hub => <<"hub", hub>> \in h.docs
      <4> HIDE DEF r, u, hub
      <4>1. QED  BY <2>1, <2>2, SubmitDocsMembers
    <3>2. QED  BY <3>1
  <2>4. request'[r] = "active" /\ offer'[r][u] = "none"
    BY <1>3, <2>1, <2>3 DEF Current, Covered
  <2>5. hub \notin inactive'
    <3>1. CASE hub \in Hub  BY <1>3, <2>3, <3>1 DEF Current, Covered
    <3>2. CASE hub = NoHub  BY <3>2, RequestsAssumption DEF TypeOK
    <3>3. QED  BY <2>1, <3>1, <3>2
  <2>6. SubmitDocs(r, u, hub)' = SubmitDocs(r, u, hub)  BY DEF SubmitDocs, HubDoc
  <2>7. QED  BY <1>3, <2>2, <2>4, <2>5, <2>6 DEF Current
<1>4. CASE op \in {"reject", "withdraw"}
  <2>1. r \in Request /\ u \in User  BY <1>1, <1>4, CallParts
  <2>2. <<"offer", r, u>> \notin D  BY <1>4, <2>1 DEF Current
  <2>3. QED  BY <1>4, <2>1, <2>2 DEF Current, Covered
<1>5. CASE op = "accept"
  <2>1. r \in Request /\ u \in User  BY <1>1, <1>5, CallParts
  <2>2. /\ h.docs = AcceptDocs(r, u) /\ request[r] = "active" /\ offer[r][u] = "pending"
        /\ Requester[r] \notin banned /\ u \notin banned /\ hubOf[r][u] \notin inactive
    BY <1>5 DEF Current
  <2>3. /\ request'[r] = request[r] /\ offer'[r][u] = offer[r][u]
        /\ hubOf'[r][u] = hubOf[r][u]
        /\ Requester[r] \in banned' <=> Requester[r] \in banned
        /\ u \in banned' <=> u \in banned
        /\ hubOf[r][u] \in Hub => (hubOf[r][u] \in inactive' <=> hubOf[r][u] \in inactive)
        /\ AcceptDocs(r, u)' = AcceptDocs(r, u)
    BY <2>1, <2>2, AcceptStays
  <2>4. hubOf'[r][u] \notin inactive'
    <3>1. hubOf[r][u] \in Hub \cup {NoHub}  BY <2>1 DEF TypeOK
    <3>2. NoHub \notin inactive'  BY RequestsAssumption DEF TypeOK
    <3>3. QED  BY <2>2, <2>3, <3>1, <3>2
  <2>5. QED  BY <1>5, <2>2, <2>3, <2>4 DEF Current
<1>6. CASE op \in {"cancel", "expire"}
  <2>1. r \in Request  BY <1>1, <1>6, CallParts
  <2>2. request[r] = "active" /\ h.docs = CloseDocs(r)  BY <1>6 DEF Current
  <2>3. request'[r] = request[r] /\ CloseDocs(r)' = CloseDocs(r)  BY <2>1, <2>2, CloseStays
  <2>4. QED  BY <1>6, <2>2, <2>3 DEF Current
<1>7. CASE op = "ban"
  <2>1. u \in User  BY <1>1, <1>7, CallParts
  <2>2. h.docs = BanDocs(u)  BY <1>7 DEF Current
  <2>3. BanDocs(u)' = BanDocs(u)  BY <2>1, <2>2, BanStays
  <2>4. QED  BY <1>7, <2>2, <2>3 DEF Current
<1>8. CASE op \in {"deactivate", "restore"}
  <2>1. hub \in Hub  BY <1>1, <1>8, CallParts
  <2>2. h.docs = HubDoc(hub)  BY <1>8 DEF Current
  <2>3. <<"hub", hub>> \notin D  BY <2>1, <2>2, RequestsAssumption DEF HubDoc
  <2>4. ItemsAt(hub)' \subseteq ItemsAt(hub) /\ OffersAt(hub)' \subseteq OffersAt(hub)
    BY <2>1, <2>3 DEF Covered
  <2>5. HubDoc(hub)' = HubDoc(hub)  BY DEF HubDoc
  <2>6. QED  BY <1>8, <2>2, <2>4, <2>5 DEF Current
<1>9. CASE op = "none"  BY <1>9 DEF Current
<1>10. op \in {"none", "create", "submit", "reject", "withdraw", "accept", "cancel", "expire",
               "ban", "deactivate", "restore"}
  BY <1>1 DEF Call, NoCall
<1>11. QED  BY <1>2, <1>3, <1>4, <1>5, <1>6, <1>7, <1>8, <1>9, <1>10

LEMMA OthersStayCurrent ==
    ASSUME TypeOK, TypeOK', SnapshotsCurrent, NEW D, Covered(D), NEW q \in Proc,
           handler'[q] = Seen(q, D), handler'[q].pc = "commit", ~handler'[q].stale
    PROVE  Current(handler[q])'
<1>1. handler[q] \in Handler  BY DEF TypeOK
<1>2. PICK h \in Handler : h = handler[q]  BY <1>1
<1>3. h.stale \in BOOLEAN /\ h = [pc |-> h.pc, call |-> h.call, docs |-> h.docs, stale |-> h.stale]
  BY DEF Handler
<1>4. handler'[q] = [h EXCEPT !.stale = h.stale \/ (h.docs \cap D # {})]  BY <1>2 DEF Seen
<1>5. ~h.stale /\ h.docs \cap D = {} /\ h.pc = "commit"  BY <1>3, <1>4
<1>6. handler'[q] = h  BY <1>3, <1>4, <1>5
<1>7. Current(h)  BY <1>2, <1>5 DEF SnapshotsCurrent
<1>8. Current(h)'  BY <1>5, <1>7, StaysCurrent
<1>9. QED  BY <1>6, <1>8 DEF Current

LEMMA WrittenCurrent ==
    ASSUME TypeOK, TypeOK', SnapshotsCurrent, NEW D, Covered(D), Written(D)
    PROVE  SnapshotsCurrent'
BY OthersStayCurrent DEF SnapshotsCurrent, Written

LEMMA CommitsCurrent ==
    ASSUME TypeOK, TypeOK', SnapshotsCurrent, NEW p \in Proc, NEW op,
           Commits(p, op), Covered(handler[p].docs)
    PROVE  SnapshotsCurrent'
<1> SUFFICES ASSUME NEW q \in Proc, handler'[q].pc = "commit", ~handler'[q].stale
             PROVE  Current(handler[q])'
  BY DEF SnapshotsCurrent
<1>1. q # p /\ handler'[q] = Seen(q, handler[p].docs)  BY DEF Commits, Idle
<1>2. QED  BY <1>1, OthersStayCurrent

LEMMA BecomeCurrent ==
    ASSUME TypeOK, SnapshotsCurrent, NEW p \in Proc, NEW h, Become(p, h),
           h.pc = "commit" => Current(h)
    PROVE  SnapshotsCurrent'
<1> SUFFICES ASSUME NEW q \in Proc, handler'[q].pc = "commit", ~handler'[q].stale
             PROVE  Current(handler[q])'
  BY DEF SnapshotsCurrent
<1>1. UNCHANGED documents /\ handler' = [handler EXCEPT ![p] = h]  BY DEF Become
<1>2. handler'[q] = IF q = p THEN h ELSE handler[q]  BY <1>1 DEF TypeOK
<1>3. \A x : Current(x) => Current(x)'
  <2>1. UNCHANGED <<request, offer, hubOf, item, banned, inactive>>  BY <1>1 DEF documents
  <2>2. /\ \A r : Pending(r)' = Pending(r) /\ Accepted(r)' = Accepted(r)
        /\ \A u : UndoneBy(u)' = UndoneBy(u)
        /\ \A g : ItemsAt(g)' = ItemsAt(g) /\ OffersAt(g)' = OffersAt(g)
    BY <2>1 DEF Pending, Accepted, UndoneBy, ItemsAt, OffersAt
  <2>3. \A r : CloseDocs(r)' = CloseDocs(r)  BY <2>2 DEF CloseDocs
  <2>4. \A u : BanDocs(u)' = BanDocs(u)  BY <2>2 DEF BanDocs
  <2>5. \A r, u : AcceptDocs(r, u)' = AcceptDocs(r, u)  BY <2>1, <2>2 DEF AcceptDocs
  <2>6. QED  BY <2>1, <2>2, <2>3, <2>4, <2>5 DEF Current
<1>4. PICK x : x = handler'[q]  OBVIOUS
<1>5. Current(x)
  <2>1. CASE q = p  BY <1>2, <1>4, <2>1
  <2>2. CASE q # p  BY <1>2, <1>4, <2>2 DEF SnapshotsCurrent
  <2>3. QED  BY <2>1, <2>2
<1>6. Current(x)'  BY <1>3, <1>5
<1>7. QED  BY <1>4, <1>6, SMTT(30) DEF Current

LEMMA PostsStay ==
    ASSUME TypeOK, PostsAreNew,
           NEW P \in SUBSET Proc,
           \A q \in P : /\ handler'[q].call = handler[q].call
                        /\ handler[q].call.op = "create" =>
                              request'[handler[q].call.request] = "absent",
           \A q \in Proc \ P : handler'[q].call.op # "create"
    PROVE  PostsAreNew'
BY DEF PostsAreNew

\* A step that changes no document keeps them in agreement.
LEMMA AgreementStays ==
    ASSUME Agreement, UNCHANGED <<request, offer, hubOf, item, banned, inactive>>
    PROVE  Agreement'
BY DEF Agreement, OffersFollowRequest, ExchangesAmongAllowed, HubsInUseStayOpen,
       DeliveredIsConfirmed, Pending, Accepted, ItemsAt, OffersAt

-----------------------------------------------------------------------------
(* The commits *)

\* A commit is of a transaction whose snapshot is current.
LEMMA CommitIsCurrent ==
    ASSUME TypeOK, SnapshotsCurrent, NEW p \in Proc, NEW op, Commits(p, op)
    PROVE  /\ handler[p] \in Handler /\ handler[p].call \in Call
           /\ handler[p].call.op = op /\ Current(handler[p])
BY HandlerType DEF TypeOK, SnapshotsCurrent, Commits

LEMMA CreateCommitStep ==
    ASSUME IInv, NEW p \in Proc, CreateCommit(p)
    PROVE  Agreement' /\ Covered(handler[p].docs)
<1> DEFINE r == handler[p].call.request
<1>1. r \in Request /\ request[r] = "absent" /\ handler[p].docs = CreateDocs(r)
  BY CommitIsCurrent, CallParts DEF IInv, CreateCommit, Current
<1>2. /\ UNCHANGED <<offer, hubOf, item, banned, inactive>>
      /\ request'[r] = "active"
      /\ \A x \in Request \ {r} : request'[x] = request[x]
  BY <1>1 DEF CreateCommit, IInv, TypeOK
<1>3. <<"request", r>> \in handler[p].docs  BY <1>1 DEF CreateDocs
<1>4. /\ \A x : Pending(x)' = Pending(x) /\ Accepted(x)' = Accepted(x)
      /\ \A u : UndoneBy(u)' = UndoneBy(u)
      /\ \A h : ItemsAt(h)' = ItemsAt(h) /\ OffersAt(h)' = OffersAt(h)
  BY <1>2 DEF Pending, Accepted, UndoneBy, ItemsAt, OffersAt
<1>5. Covered(handler[p].docs)  BY <1>2, <1>3, <1>4 DEF Covered
<1>6. Agreement'
  BY <1>1, <1>2, <1>4
  DEF IInv, Agreement, OffersFollowRequest, ExchangesAmongAllowed, HubsInUseStayOpen,
      DeliveredIsConfirmed
<1>7. QED  BY <1>5, <1>6

LEMMA SubmitCommitStep ==
    ASSUME IInv, NEW p \in Proc, SubmitCommit(p)
    PROVE  Agreement' /\ Covered(handler[p].docs)
<1> DEFINE r == handler[p].call.request   u == handler[p].call.user   h == handler[p].call.hub
<1>1. /\ r \in Request /\ u \in User /\ h \in Hub \cup {NoHub}
      /\ request[r] = "active" /\ offer[r][u] = "none" /\ h \notin inactive
      /\ handler[p].docs = SubmitDocs(r, u, h)
  BY CommitIsCurrent, CallParts DEF IInv, SubmitCommit, Current
<1>2. /\ UNCHANGED <<request, item, banned, inactive>>
      /\ offer' = [offer EXCEPT ![r][u] = "pending"]
      /\ hubOf' = [hubOf EXCEPT ![r][u] = h]
  BY DEF SubmitCommit
<1>3. \A x \in Request, v \in User :
         /\ offer'[x][v] = IF x = r /\ v = u THEN "pending" ELSE offer[x][v]
         /\ hubOf'[x][v] = IF x = r /\ v = u THEN h ELSE hubOf[x][v]
  BY <1>1, <1>2 DEF IInv, TypeOK
<1>4. item[r].status \notin {"booked", "delivered"}
  BY <1>1 DEF IInv, Agreement, OffersFollowRequest
<1>5. /\ \A x \in Request \ {r} : Pending(x)' = Pending(x)
      /\ \A x \in Request : Accepted(x)' = Accepted(x)
  BY <1>1, <1>3 DEF Pending, Accepted
<1>6. \A v : UndoneBy(v)' = UndoneBy(v)  BY <1>2 DEF UndoneBy
<1>7. \A g : ItemsAt(g)' = ItemsAt(g)
  <2>1. \A x \in Request \ {r} : hubOf'[x] = hubOf[x]  BY <1>1, <1>2 DEF IInv, TypeOK
  <2>2. QED  BY <1>2, <1>4, <2>1 DEF ItemsAt
<1>8. \A g : g # h => OffersAt(g)' \subseteq OffersAt(g)  BY <1>3 DEF OffersAt
<1>9. /\ <<"request", r>> \in handler[p].docs /\ <<"offer", r, u>> \in handler[p].docs
      /\ h \in Hub => <<"hub", h>> \in handler[p].docs
  <2> HIDE DEF r, u, h
  <2>1. QED  BY <1>1, SubmitDocsMembers
<1>10. Covered(handler[p].docs)
  <2> HIDE DEF r, u, h
  <2>1. \A x \in Request :
           \A v \in User : offer'[x][v] # offer[x][v] \/ hubOf'[x][v] # hubOf[x][v]
                          => <<"offer", x, v>> \in handler[p].docs
    BY <1>3, <1>9
  <2>2. \A x \in Request : \/ <<"request", x>> \in handler[p].docs
                           \/ Pending(x)' \subseteq Pending(x) /\ Accepted(x)' \subseteq Accepted(x)
    BY <1>5, <1>9
  <2>3. \A g \in Hub : \/ <<"hub", g>> \in handler[p].docs
                       \/ ItemsAt(g)' \subseteq ItemsAt(g) /\ OffersAt(g)' \subseteq OffersAt(g)
    BY <1>7, <1>8, <1>9
  <2>4. QED  BY <1>2, <1>6, <2>1, <2>2, <2>3 DEF Covered
<1>11. OffersFollowRequest'
  <2>1. UNCHANGED <<request, item>> /\ request[r] = "active"  BY <1>1, <1>2
  <2>2. OffersFollowRequest  BY DEF IInv, Agreement
  <2> HIDE DEF r, u, h
  <2>3. \A x \in Request \ {r} : Pending(x)' # {} => request[x] = "active"
    BY <2>2, <1>5 DEF OffersFollowRequest
  <2>4. \A x \in Request :
          /\ request[x] = "fulfilled" =>
                item[x].status \in {"booked", "delivered", "deleted"} /\ Accepted(x)' = {item[x].donor}
          /\ request[x] # "fulfilled" =>
                item[x].status \in {"absent", "hidden", "deleted"} /\ Accepted(x)' = {}
    BY <2>2, <1>5 DEF OffersFollowRequest
  <2>5. \A x \in Request : Pending(x)' # {} => request[x] = "active"  BY <2>1, <2>3
  <2>6. QED  BY <2>1, <2>4, <2>5 DEF OffersFollowRequest
<1>12. HubsInUseStayOpen'
  BY <1>1, <1>2, <1>7, <1>8 DEF IInv, Agreement, HubsInUseStayOpen
<1>13. (ExchangesAmongAllowed /\ DeliveredIsConfirmed)'
  BY <1>2 DEF IInv, Agreement, ExchangesAmongAllowed, DeliveredIsConfirmed
<1>14. QED  BY <1>10, <1>11, <1>12, <1>13 DEF Agreement

LEMMA AnswerCommitStep ==
    ASSUME IInv, NEW p \in Proc, AnswerCommit(p)
    PROVE  Agreement' /\ Covered(handler[p].docs)
<1> DEFINE r == handler[p].call.request   u == handler[p].call.user
<1>1. /\ r \in Request /\ u \in User /\ offer[r][u] = "pending"
      /\ handler[p].docs = {<<"offer", r, u>>}
  BY CommitIsCurrent, CallParts DEF IInv, AnswerCommit, Current
<1>2. UNCHANGED <<request, hubOf, item, banned, inactive>>  BY DEF AnswerCommit
<1>3. PICK st \in {"rejected", "withdrawn"} : offer' = [offer EXCEPT ![r][u] = st]
  BY DEF AnswerCommit
<1>4. \A x \in Request, v \in User :
         offer'[x][v] = IF x = r /\ v = u THEN st ELSE offer[x][v]
  BY <1>1, <1>3 DEF IInv, TypeOK
<1>5. \A x \in Request : Pending(x)' \subseteq Pending(x) /\ Accepted(x)' = Accepted(x)
  BY <1>1, <1>4 DEF Pending, Accepted
<1>6. /\ \A v : UndoneBy(v)' = UndoneBy(v)
      /\ \A g : ItemsAt(g)' = ItemsAt(g) /\ OffersAt(g)' \subseteq OffersAt(g)
  BY <1>2, <1>4 DEF UndoneBy, ItemsAt, OffersAt
<1>7. Covered(handler[p].docs)  BY <1>1, <1>2, <1>4, <1>5, <1>6 DEF Covered
<1>8. Agreement'
  BY <1>2, <1>5, <1>6
  DEF IInv, Agreement, OffersFollowRequest, ExchangesAmongAllowed, HubsInUseStayOpen,
      DeliveredIsConfirmed
<1>9. QED  BY <1>7, <1>8

LEMMA AcceptCommitStep ==
    ASSUME IInv, NEW p \in Proc, AcceptCommit(p)
    PROVE  Agreement' /\ Covered(handler[p].docs)
<1> DEFINE r == handler[p].call.request   u == handler[p].call.user
           booking == [status |-> "booked", donor |-> u, recipientOk |-> FALSE]
<1>1. r \in Request /\ u \in User  BY CommitIsCurrent, CallParts DEF IInv, AcceptCommit
<1>2. /\ request[r] = "active" /\ offer[r][u] = "pending"
      /\ {Requester[r], u} \cap banned = {} /\ hubOf[r][u] \notin inactive
      /\ handler[p].docs = AcceptDocs(r, u)
  BY CommitIsCurrent DEF IInv, AcceptCommit, Current
<1>3. UNCHANGED <<hubOf, banned, inactive>>  BY DEF AcceptCommit
<1>4. \A x \in Request :
         /\ request'[x] = IF x = r THEN "fulfilled" ELSE request[x]
         /\ item'[x] = IF x = r THEN booking ELSE item[x]
  <2>1. /\ request' = [request EXCEPT ![r] = "fulfilled"]
        /\ item' = [item EXCEPT ![r] = booking]
    BY DEF AcceptCommit
  <2>2. QED  BY <1>1, <2>1 DEF IInv, TypeOK
<1>5. \A x \in Request, v \in User :
         offer'[x][v] = IF x # r THEN offer[x][v]
                        ELSE IF v = u THEN "accepted"
                        ELSE IF v \in Pending(r) THEN "rejected" ELSE offer[x][v]
  <2>1. \A v \in User : EndOffers(p, r, "rejected")[v] =
                           IF v \in Pending(r) THEN "rejected" ELSE offer[r][v]
    BY <1>1, <1>2, AcceptDocsMembers DEF EndOffers
  <2>2. EndOffers(p, r, "rejected") \in [User -> OfferStatus]
    BY <1>1, EndOffersType DEF IInv, OfferStatus
  <2>3. offer' = [offer EXCEPT ![r] = [EndOffers(p, r, "rejected") EXCEPT ![u] = "accepted"]]
    BY DEF AcceptCommit
  <2>4. QED  BY <1>1, <2>1, <2>2, <2>3 DEF IInv, TypeOK
<1>6. /\ \A x \in Request : Pending(x)' = IF x = r THEN {} ELSE Pending(x)
      /\ \A x \in Request \ {r} : Accepted(x)' = Accepted(x)
  BY <1>5 DEF Pending, Accepted
<1>7. \A x \in Request : x = r => Accepted(x)' = {u}
  <2>1. Accepted(r) = {}  BY <1>1, <1>2 DEF IInv, Agreement, OffersFollowRequest
  <2>2. \A v \in User : offer[r][v] # "accepted"  BY <2>1 DEF Accepted
  <2>3. \A v \in User : offer'[r][v] = "accepted" <=> v = u  BY <1>1, <1>5, <2>2
  <2>4. QED  BY <1>1, <2>3 DEF Accepted
<1>8. \A v \in User \ {Requester[r], u} : UndoneBy(v)' \subseteq UndoneBy(v)
  <2>1. booking.donor = u  OBVIOUS
  <2> HIDE DEF booking
  <2>2. QED  BY <1>1, <1>4, <2>1 DEF UndoneBy
<1>9. \A g : /\ g # hubOf[r][u] => ItemsAt(g)' \subseteq ItemsAt(g)
             /\ OffersAt(g)' \subseteq OffersAt(g)
  <2>1. \A g : g # hubOf[r][u] => ItemsAt(g)' \subseteq ItemsAt(g)
    BY <1>1, <1>3, <1>4 DEF ItemsAt
  <2>2. \A x \in Request, v \in User : offer'[x][v] = "pending" => offer[x][v] = "pending"
    BY <1>5
  <2>3. \A g : OffersAt(g)' \subseteq OffersAt(g)  BY <1>3, <2>2 DEF OffersAt
  <2>4. QED  BY <2>1, <2>3
<1>10. /\ <<"request", r>> \in handler[p].docs /\ <<"item", r>> \in handler[p].docs
       /\ <<"user", Requester[r]>> \in handler[p].docs /\ <<"user", u>> \in handler[p].docs
       /\ \A v \in Pending(r) : <<"offer", r, v>> \in handler[p].docs
       /\ \A g \in Hub : g = hubOf[r][u] => <<"hub", g>> \in handler[p].docs
  <2> HIDE DEF r, u
  <2>1. QED  BY <1>1, <1>2, AcceptDocsMembers DEF Pending
<1>11. Covered(handler[p].docs)
  <2>1. \A x \in Request, v \in User :
           offer'[x][v] # offer[x][v] \/ hubOf'[x][v] # hubOf[x][v] =>
              x = r /\ v \in Pending(r)
    BY <1>2, <1>3, <1>5 DEF Pending
  <2>2. QED  BY <1>3, <1>4, <1>6, <1>8, <1>9, <1>10, <2>1 DEF Covered
<1>12. OffersFollowRequest'
  <2> SUFFICES ASSUME NEW x \in Request
               PROVE  /\ Pending(x)' # {} => request'[x] = "active"
                      /\ request'[x] = "fulfilled" =>
                            /\ item'[x].status \in {"booked", "delivered", "deleted"}
                            /\ Accepted(x)' = {item'[x].donor}
                      /\ request'[x] # "fulfilled" =>
                            /\ item'[x].status \in {"absent", "hidden", "deleted"}
                            /\ Accepted(x)' = {}
    BY DEF OffersFollowRequest
  <2>1. CASE x = r
    <3>1. item'[x].status = "booked" /\ item'[x].donor = u  BY <1>4, <2>1
    <3>2. QED  BY <1>4, <1>6, <1>7, <2>1, <3>1
  <2>2. CASE x # r
    BY <1>4, <1>6, <2>2 DEF IInv, Agreement, OffersFollowRequest
  <2>3. QED  BY <2>1, <2>2
<1>13. HubsInUseStayOpen'  BY <1>2, <1>3, <1>9 DEF IInv, Agreement, HubsInUseStayOpen
<1>14. (ExchangesAmongAllowed /\ DeliveredIsConfirmed)'
  BY <1>2, <1>3, <1>4 DEF IInv, Agreement, ExchangesAmongAllowed, DeliveredIsConfirmed
<1>15. QED  BY <1>11, <1>12, <1>13, <1>14 DEF Agreement

LEMMA CloseCommitStep ==
    ASSUME IInv, NEW p \in Proc, CloseCommit(p)
    PROVE  Agreement' /\ Covered(handler[p].docs)
<1> DEFINE r == handler[p].call.request
<1>1. PICK op \in {"cancel", "expire"} : Commits(p, op)  BY DEF CloseCommit
<1>2. r \in Request /\ request[r] = "active" /\ handler[p].docs = CloseDocs(r)
  BY <1>1, CommitIsCurrent, CallParts DEF IInv, Current
<1>3. UNCHANGED <<hubOf, item, banned, inactive>>  BY DEF CloseCommit
<1>4. PICK st \in {"cancelled", "expired"}, ost \in {"cancelled_by_requester", "request_expired"} :
         /\ request' = [request EXCEPT ![r] = st]
         /\ offer' = [offer EXCEPT ![r] = EndOffers(p, r, ost)]
  BY DEF CloseCommit
<1>5. \A x \in Request : request'[x] = IF x = r THEN st ELSE request[x]
  BY <1>4 DEF IInv, TypeOK
<1>6. \A x \in Request, v \in User :
         offer'[x][v] = IF x = r /\ v \in Pending(r) THEN ost ELSE offer[x][v]
  <2>1. \A v \in User : EndOffers(p, r, ost)[v] =
                           IF v \in Pending(r) THEN ost ELSE offer[r][v]
    BY <1>2, CloseDocsMembers DEF EndOffers
  <2>2. QED  BY <1>2, <1>4, <2>1 DEF IInv, TypeOK
<1>7. \A x \in Request : /\ Pending(x)' = IF x = r THEN {} ELSE Pending(x)
                         /\ Accepted(x)' = Accepted(x)
  BY <1>6 DEF Pending, Accepted
<1>8. \A v : UndoneBy(v)' = UndoneBy(v)  BY <1>3 DEF UndoneBy
<1>9. \A g : ItemsAt(g)' = ItemsAt(g) /\ OffersAt(g)' \subseteq OffersAt(g)
  BY <1>3, <1>6 DEF ItemsAt, OffersAt
<1>10. <<"request", r>> \in handler[p].docs
       /\ \A v \in Pending(r) : <<"offer", r, v>> \in handler[p].docs
  BY <1>2, CloseDocsMembers DEF Pending
<1>11. Covered(handler[p].docs)  BY <1>3, <1>5, <1>6, <1>7, <1>8, <1>9, <1>10 DEF Covered
<1>12. OffersFollowRequest'
  BY <1>2, <1>3, <1>5, <1>7 DEF IInv, Agreement, OffersFollowRequest
<1>13. (HubsInUseStayOpen /\ ExchangesAmongAllowed /\ DeliveredIsConfirmed)'
  BY <1>3, <1>9
  DEF IInv, Agreement, HubsInUseStayOpen, ExchangesAmongAllowed, DeliveredIsConfirmed
<1>14. QED  BY <1>11, <1>12, <1>13 DEF Agreement

LEMMA BanCommitStep ==
    ASSUME IInv, NEW p \in Proc, BanCommit(p)
    PROVE  Agreement' /\ Covered(handler[p].docs)
<1> DEFINE u == handler[p].call.user
           hidden(x) == [item[x] EXCEPT !.status = "hidden", !.recipientOk = FALSE]
<1>1. u \in User /\ handler[p].docs = BanDocs(u)
  BY CommitIsCurrent, CallParts DEF IInv, BanCommit, Current
<1>2. UNCHANGED <<hubOf, inactive>> /\ banned' = banned \cup {u}  BY DEF BanCommit
<1>3. \A x \in Request :
         /\ request'[x] = IF x \in UndoneBy(u) THEN "cancelled" ELSE request[x]
         /\ item'[x] = IF x \in UndoneBy(u) THEN hidden(x) ELSE item[x]
  BY <1>1, BanDocsMembers DEF BanCommit
<1>4. \A x \in Request, v \in User :
         offer'[x][v] = IF x \in UndoneBy(u) /\ v \in Accepted(x)
                        THEN "cancelled_by_admin" ELSE offer[x][v]
  BY <1>1, BanDocsMembers DEF BanCommit
<1>5. \A x \in Request : item'[x].status = "hidden" \/ (x \notin UndoneBy(u) /\ item'[x] = item[x])
  BY <1>3 DEF IInv, TypeOK, LinkedItem
<1>6. \A x \in Request : /\ Pending(x)' = Pending(x)
                         /\ Accepted(x)' = IF x \in UndoneBy(u) THEN {} ELSE Accepted(x)
  BY <1>4 DEF Pending, Accepted
<1>7. \A x \in UndoneBy(u) : request[x] = "fulfilled" /\ Pending(x) = {}
  <2>1. \A x \in UndoneBy(u) : request[x] = "fulfilled"
    BY DEF UndoneBy, IInv, Agreement, OffersFollowRequest
  <2>2. QED  BY <2>1 DEF UndoneBy, IInv, Agreement, OffersFollowRequest
<1>8. \A v : UndoneBy(v)' \subseteq UndoneBy(v)  BY <1>5 DEF UndoneBy
<1>9. \A g : ItemsAt(g)' \subseteq ItemsAt(g) /\ OffersAt(g)' \subseteq OffersAt(g)
  <2>1. \A x \in Request, v \in User : offer'[x][v] = "pending" => offer[x][v] = "pending"
    BY <1>4
  <2>2. QED  BY <1>2, <1>5, <2>1 DEF ItemsAt, OffersAt
<1>10. Covered(handler[p].docs)
  <2>1. <<"user", u>> \in handler[p].docs  BY <1>1, BanDocsMembers
  <2>2. \A x \in UndoneBy(u) :
           /\ <<"request", x>> \in handler[p].docs /\ <<"item", x>> \in handler[p].docs
           /\ \A v \in Accepted(x) : <<"offer", x, v>> \in handler[p].docs
    <3> HIDE DEF u
    <3>1. UndoneBy(u) \subseteq Request /\ \A x : Accepted(x) \subseteq User
      BY DEF UndoneBy, Accepted
    <3>2. QED  BY <1>1, <3>1, BanDocsMembers
  <2>3. \A x \in Request : /\ request'[x] # request[x] => x \in UndoneBy(u)
                           /\ item'[x] # item[x] => x \in UndoneBy(u)
                           /\ \A v \in User : offer'[x][v] # offer[x][v] =>
                                 x \in UndoneBy(u) /\ v \in Accepted(x)
    BY <1>3, <1>4
  <2>4. \A x \in Request : Pending(x)' \subseteq Pending(x) /\ Accepted(x)' \subseteq Accepted(x)
    BY <1>6
  <2>5. \A v \in User : v # u => (v \in banned <=> v \in banned')  BY <1>2
  <2>6. QED  BY <1>2, <1>8, <1>9, <2>1, <2>2, <2>3, <2>4, <2>5 DEF Covered
<1>11. OffersFollowRequest'
  <2> SUFFICES ASSUME NEW x \in Request
               PROVE  /\ Pending(x)' # {} => request'[x] = "active"
                      /\ request'[x] = "fulfilled" =>
                            /\ item'[x].status \in {"booked", "delivered", "deleted"}
                            /\ Accepted(x)' = {item'[x].donor}
                      /\ request'[x] # "fulfilled" =>
                            /\ item'[x].status \in {"absent", "hidden", "deleted"}
                            /\ Accepted(x)' = {}
    BY DEF OffersFollowRequest
  <2>1. CASE x \in UndoneBy(u)
    <3>1. item'[x].status = "hidden"  BY <1>5, <2>1
    <3>2. QED  BY <1>3, <1>6, <1>7, <2>1, <3>1
  <2>2. CASE x \notin UndoneBy(u)
    BY <1>3, <1>6, <2>2 DEF IInv, Agreement, OffersFollowRequest
  <2>3. QED  BY <2>1, <2>2
<1>12. HubsInUseStayOpen'  BY <1>2, <1>9 DEF IInv, Agreement, HubsInUseStayOpen
<1>13. (ExchangesAmongAllowed /\ DeliveredIsConfirmed)'
  BY <1>2, <1>5
  DEF UndoneBy, IInv, Agreement, ExchangesAmongAllowed, DeliveredIsConfirmed
<1>14. QED  BY <1>10, <1>11, <1>12, <1>13 DEF Agreement

LEMMA DeactivateCommitStep ==
    ASSUME IInv, NEW p \in Proc, DeactivateCommit(p)
    PROVE  Agreement' /\ Covered(handler[p].docs)
<1> DEFINE h == handler[p].call.hub
<1>1. UNCHANGED <<request, offer, hubOf, item, banned>>  BY DEF DeactivateCommit, documents
<1>2. /\ \A x : Pending(x)' = Pending(x) /\ Accepted(x)' = Accepted(x)
      /\ \A v : UndoneBy(v)' = UndoneBy(v)
      /\ \A g : ItemsAt(g)' = ItemsAt(g) /\ OffersAt(g)' = OffersAt(g)
  BY <1>1 DEF Pending, Accepted, UndoneBy, ItemsAt, OffersAt
<1>3. CASE Commits(p, "deactivate") /\ inactive' = inactive \cup {h}
  <2>1. /\ h \in Hub /\ ItemsAt(h) = {} /\ OffersAt(h) = {}
        /\ handler[p].docs = HubDoc(h)
    BY <1>3, CommitIsCurrent, CallParts DEF IInv, Current
  <2>2. <<"hub", h>> \in handler[p].docs  BY <2>1, RequestsAssumption DEF HubDoc
  <2>3. Covered(handler[p].docs)  BY <1>1, <1>2, <1>3, <2>2 DEF Covered
  <2>4. Agreement'
    BY <1>1, <1>2, <1>3, <2>1
    DEF IInv, Agreement, OffersFollowRequest, ExchangesAmongAllowed, HubsInUseStayOpen,
        DeliveredIsConfirmed
  <2>5. QED  BY <2>3, <2>4
<1>4. CASE UNCHANGED documents
  <2>1. inactive' = inactive  BY <1>4 DEF documents
  <2>2. Covered(handler[p].docs)  BY <1>1, <1>2, <2>1 DEF Covered
  <2>3. QED  BY <1>1, <2>1, <2>2, AgreementStays DEF IInv
<1>5. QED  BY <1>3, <1>4 DEF DeactivateCommit

-----------------------------------------------------------------------------
(* The steps that are one update, the begins and the arrivals *)

LEMMA SeenCall ==
    ASSUME TypeOK, NEW q \in Proc, NEW D
    PROVE  Seen(q, D).call = handler[q].call
BY DEF TypeOK, Handler, Seen

LEMMA WrittenPosts ==
    ASSUME TypeOK, PostsAreNew, NEW D, Written(D), UNCHANGED request
    PROVE  PostsAreNew'
<1>1. \A q \in Proc : handler'[q].call = handler[q].call  BY SeenCall DEF Written
<1>2. QED  BY <1>1 DEF PostsAreNew

\* An update of item r that books nothing covers itself.
LEMMA ItemUpdate ==
    ASSUME IInv, NEW r \in Request, NEW d, item' = [item EXCEPT ![r] = d],
           d.status = "booked" => item[r].status = "booked",
           d.donor = item[r].donor,
           NEW D, <<"item", r>> \in D,
           UNCHANGED <<request, offer, hubOf, banned, inactive>>
    PROVE  Covered(D)
<1>1. \A x \in Request : item'[x] = IF x = r THEN d ELSE item[x]  BY DEF IInv, TypeOK
<1>2. \A x : Pending(x)' = Pending(x) /\ Accepted(x)' = Accepted(x)  BY DEF Pending, Accepted
<1>3. \A v : UndoneBy(v)' \subseteq UndoneBy(v)  BY <1>1 DEF UndoneBy
<1>4. \A g : ItemsAt(g)' \subseteq ItemsAt(g) /\ OffersAt(g)' = OffersAt(g)
  BY <1>1 DEF ItemsAt, OffersAt
<1>5. QED  BY <1>1, <1>2, <1>3, <1>4 DEF Covered

LEMMA ConfirmStep ==
    ASSUME IInv, TypeOK', NEW r \in Request,
           RecipientConfirm(r) \/ DonorConfirm(r) \/ AdminDelete(r)
    PROVE  IInv'
<1>1. item[r] \in LinkedItem  BY DEF IInv, TypeOK
<1>2. UNCHANGED <<request, offer, hubOf, banned, inactive>>
  BY DEF RecipientConfirm, DonorConfirm, AdminDelete
<1>3. PICK e : /\ item' = [item EXCEPT ![r] = e]
               /\ e.donor = item[r].donor
               /\ e.status = "booked" => item[r].status = "booked"
               /\ e.status = "delivered" => e.recipientOk
               /\ item[r].status \in {"booked", "delivered"} =>
                     e.status \in {"booked", "delivered", "deleted"}
               /\ e.status \in {"booked", "delivered"} => item[r].status = "booked"
               /\ e.status \in {"booked", "delivered", "deleted"}
  <2>1. CASE RecipientConfirm(r)
    <3> DEFINE e == [item[r] EXCEPT !.recipientOk = TRUE]
    <3>1. e.donor = item[r].donor /\ e.status = item[r].status /\ e.recipientOk
      BY <1>1 DEF LinkedItem
    <3>2. item' = [item EXCEPT ![r] = e] /\ item[r].status = "booked"
      BY <1>1, <2>1 DEF RecipientConfirm, IInv, TypeOK
    <3>3. QED  BY <3>1, <3>2
  <2>2. CASE DonorConfirm(r)
    <3> DEFINE e == [item[r] EXCEPT !.status = "delivered"]
    <3>1. e.donor = item[r].donor /\ e.status = "delivered"
          /\ e.recipientOk = item[r].recipientOk
      BY <1>1 DEF LinkedItem
    <3>2. item' = [item EXCEPT ![r] = e] /\ item[r].status = "booked" /\ item[r].recipientOk
      BY <1>1, <2>2 DEF DonorConfirm, IInv, TypeOK
    <3>3. QED  BY <3>1, <3>2
  <2>3. CASE AdminDelete(r)
    <3> DEFINE e == [item[r] EXCEPT !.status = "deleted"]
    <3>1. e.donor = item[r].donor /\ e.status = "deleted"  BY <1>1 DEF LinkedItem
    <3>2. item' = [item EXCEPT ![r] = e]  BY <1>1, <2>3 DEF AdminDelete, IInv, TypeOK
    <3>3. QED  BY <3>1, <3>2
  <2>4. QED  BY <2>1, <2>2, <2>3
<1>4. PICK D : Written(D) /\ <<"item", r>> \in D
  BY DEF RecipientConfirm, DonorConfirm, AdminDelete
<1>5. Covered(D)  BY <1>2, <1>3, <1>4, ItemUpdate
<1>6. \A x \in Request : item'[x] = IF x = r THEN e ELSE item[x]  BY <1>3 DEF IInv, TypeOK
<1>7. Agreement'
  BY <1>2, <1>3, <1>6
  DEF IInv, Agreement, OffersFollowRequest, ExchangesAmongAllowed, HubsInUseStayOpen,
      DeliveredIsConfirmed, Pending, Accepted, ItemsAt, OffersAt
<1>8. SnapshotsCurrent'  BY <1>4, <1>5, WrittenCurrent DEF IInv
<1>9. PostsAreNew'  BY <1>2, <1>4, WrittenPosts DEF IInv
<1>10. QED  BY <1>7, <1>8, <1>9 DEF IInv

\* Updates of user and hub documents outside a transaction.
LEMMA OtherUpdatesStep ==
    ASSUME IInv, TypeOK', NEW D, Written(D),
           UNCHANGED <<request, offer, hubOf, item>>,
           banned' \subseteq banned, inactive' \subseteq inactive,
           \A u \in User : (u \in banned <=> u \in banned') \/ <<"user", u>> \in D,
           \A h \in Hub : (h \in inactive <=> h \in inactive') \/ <<"hub", h>> \in D
    PROVE  IInv'
<1>1. /\ \A x : Pending(x)' = Pending(x) /\ Accepted(x)' = Accepted(x)
      /\ \A v : UndoneBy(v)' = UndoneBy(v)
      /\ \A g : ItemsAt(g)' = ItemsAt(g) /\ OffersAt(g)' = OffersAt(g)
  BY DEF Pending, Accepted, UndoneBy, ItemsAt, OffersAt
<1>2. Covered(D)  BY <1>1 DEF Covered
<1>3. Agreement'
  BY <1>1
  DEF IInv, Agreement, OffersFollowRequest, ExchangesAmongAllowed, HubsInUseStayOpen,
      DeliveredIsConfirmed
<1>4. SnapshotsCurrent'  BY <1>2, WrittenCurrent DEF IInv
<1>5. PostsAreNew'  BY WrittenPosts DEF IInv
<1>6. QED  BY <1>3, <1>4, <1>5 DEF IInv

\* Steps after which only counters and the clock differ.
LEMMA QuietStep ==
    ASSUME IInv, TypeOK',
           UNCHANGED <<request, offer, hubOf, item, banned, inactive, handler>>
    PROVE  IInv'
<1>1. Agreement'  BY AgreementStays DEF IInv
<1>2. PostsAreNew'  BY DEF IInv, PostsAreNew
<1>3. SnapshotsCurrent'
  BY DEF IInv, SnapshotsCurrent, Current, CreateDocs, SubmitDocs, AcceptDocs, CloseDocs, BanDocs,
         UndoneBy, Accepted, Pending, ItemsAt, OffersAt, HubDoc
<1>4. QED  BY <1>1, <1>2, <1>3 DEF IInv

LEMMA AtOnceStep == ASSUME IInv, TypeOK', AtOnce PROVE IInv'
<1>1. ASSUME NEW r \in Request, RequestAges(r) PROVE IInv'
  BY <1>1, QuietStep DEF RequestAges
<1>2. ASSUME NEW u \in User, PublicBookEnds(u) \/ PublicOfferEnds(u) PROVE IInv'
  BY <1>2, QuietStep DEF PublicBookEnds, PublicOfferEnds
<1>3. ASSUME NEW u \in User, PublicBook(u) \/ PublicOffer(u) \/ Demote(u) \/ Promote(u)
      PROVE  IInv'
  <2>1. Written({<<"user", u>>}) /\ UNCHANGED <<request, offer, hubOf, item, banned, inactive>>
    BY <1>3 DEF PublicBook, PublicOffer, Demote, Promote
  <2>2. QED  BY <2>1, OtherUpdatesStep
<1>4. ASSUME NEW u \in User, Unban(u) PROVE IInv'
  <2>1. /\ Written({<<"user", u>>}) /\ banned' = banned \ {u}
        /\ UNCHANGED <<request, offer, hubOf, item, inactive>>
    BY <1>4 DEF Unban
  <2>2. \A v \in User : (v \in banned <=> v \in banned') \/ <<"user", v>> \in {<<"user", u>>}
    BY <2>1
  <2>3. QED  BY <2>1, <2>2, OtherUpdatesStep
<1>5. ASSUME NEW h \in Hub, Reactivate(h) PROVE IInv'
  <2>1. /\ Written(HubDoc(h)) /\ inactive' = inactive \ {h}
        /\ UNCHANGED <<request, offer, hubOf, item, banned>>
    BY <1>5 DEF Reactivate
  <2>2. <<"hub", h>> \in HubDoc(h)  BY RequestsAssumption DEF HubDoc
  <2>3. \A g \in Hub : (g \in inactive <=> g \in inactive') \/ <<"hub", g>> \in HubDoc(h)
    BY <2>1, <2>2
  <2>4. QED  BY <2>1, <2>3, OtherUpdatesStep
<1>6. QED
  BY <1>1, <1>2, <1>3, <1>4, <1>5, ConfirmStep, RequestsAssumption DEF AtOnce

\* A handler that changes its own record only, and starts to post no request.
LEMMA OwnStep ==
    ASSUME IInv, TypeOK', NEW p \in Proc, NEW h, Become(p, h),
           h.pc = "commit" => Current(h),
           h.call.op = "create" => h.call = handler[p].call
    PROVE  IInv'
<1>1. UNCHANGED documents /\ handler' = [handler EXCEPT ![p] = h]  BY DEF Become
<1>2. \A q \in Proc : handler'[q] = IF q = p THEN h ELSE handler[q]  BY <1>1 DEF IInv, TypeOK
<1>3. Agreement'  BY <1>1, AgreementStays DEF IInv, documents
<1>4. SnapshotsCurrent'  BY BecomeCurrent DEF IInv
<1>5. PostsAreNew'  BY <1>1, <1>2 DEF IInv, PostsAreNew, documents
<1>6. QED  BY <1>3, <1>4, <1>5 DEF IInv

LEMMA BeginsStep ==
    ASSUME IInv, TypeOK', NEW p \in Proc, NEW op, NEW ok, NEW D, Begins(p, op, ok, D),
           ASSUME NEW h, h.call = handler[p].call, h.docs = D, ok
           PROVE  Current(h)
    PROVE  IInv'
<1> DEFINE g == [handler[p] EXCEPT !.pc = "commit", !.docs = D]
<1>1. handler[p] \in Handler  BY DEF IInv, TypeOK
<1>2. g.call = handler[p].call /\ g.docs = D  BY <1>1 DEF Handler
<1>3. CASE ok /\ Become(p, g)
  <2>1. Current(g)  BY <1>2, <1>3
  <2>2. QED  BY <1>2, <1>3, <2>1, OwnStep
<1>4. CASE Become(p, Idle)
  BY <1>4, OwnStep DEF Idle, NoCall
<1>5. QED  BY <1>3, <1>4 DEF Begins

LEMMA BeginStep ==
    ASSUME IInv, TypeOK', NEW p \in Proc,
           \/ CreateBegin(p) \/ SubmitBegin(p) \/ AnswerBegin(p) \/ AcceptBegin(p)
           \/ CloseBegin(p) \/ BanBegin(p)
    PROVE  IInv'
<1> DEFINE c == handler[p].call
<1>1. CASE CreateBegin(p)
  <2>1. c.op = "create"  BY <1>1 DEF CreateBegin, Begins
  <2>2. request[c.request] = "absent"  BY <2>1 DEF IInv, PostsAreNew
  <2>3. ASSUME NEW h, h.call = c, h.docs = CreateDocs(c.request) PROVE Current(h)
    BY <2>1, <2>2, <2>3 DEF Current
  <2>4. QED  BY <1>1, <2>3, BeginsStep DEF CreateBegin
<1>2. CASE SubmitBegin(p)
  <2>1. c.op = "submit"  BY <1>2 DEF SubmitBegin, Begins
  <2>2. ASSUME NEW h, h.call = c, h.docs = SubmitDocs(c.request, c.user, c.hub),
               CanSubmit(c.request, c.user, c.hub)
        PROVE  Current(h)
    BY <2>1, <2>2 DEF Current, CanSubmit, Open
  <2>3. QED  BY <1>2, <2>2, BeginsStep DEF SubmitBegin
<1>3. CASE AnswerBegin(p)
  <2>1. PICK op \in {"reject", "withdraw"} :
           Begins(p, op, Open(c.request) /\ offer[c.request][c.user] = "pending",
                  {<<"offer", c.request, c.user>>})
    BY <1>3 DEF AnswerBegin
  <2>2. ASSUME NEW h, h.call = c, h.docs = {<<"offer", c.request, c.user>>},
               Open(c.request) /\ offer[c.request][c.user] = "pending"
        PROVE  Current(h)
    <3>1. c.op = op  BY <2>1 DEF Begins
    <3>2. QED  BY <2>2, <3>1 DEF Current
  <2>3. QED  BY <2>1, <2>2, BeginsStep
<1>4. CASE AcceptBegin(p)
  <2>1. c.op = "accept"  BY <1>4 DEF AcceptBegin, Begins
  <2>2. ASSUME NEW h, h.call = c, h.docs = AcceptDocs(c.request, c.user),
               CanAccept(c.request, c.user)
        PROVE  Current(h)
    BY <2>1, <2>2 DEF Current, CanAccept, Open
  <2>3. QED  BY <1>4, <2>2, BeginsStep DEF AcceptBegin
<1>5. CASE CloseBegin(p)
  <2>1. PICK op \in {"cancel", "expire"}, ok \in {Open(c.request), Expirable(c.request)} :
           Begins(p, op, ok, CloseDocs(c.request))
    BY <1>5 DEF CloseBegin
  <2>2. ASSUME NEW h, h.call = c, h.docs = CloseDocs(c.request), ok PROVE Current(h)
    <3>1. c.op = op  BY <2>1 DEF Begins
    <3>2. request[c.request] = "active"  BY <2>1, <2>2 DEF Open, Expirable
    <3>3. QED  BY <2>2, <3>1, <3>2 DEF Current
  <2>3. QED  BY <2>1, <2>2, BeginsStep
<1>6. CASE BanBegin(p)
  <2>1. c.op = "ban"  BY <1>6 DEF BanBegin, Begins
  <2>2. ASSUME NEW h, h.call = c, h.docs = BanDocs(c.user) PROVE Current(h)
    BY <2>1, <2>2 DEF Current
  <2>3. QED  BY <1>6, <2>2, BeginsStep DEF BanBegin
<1>7. QED  BY <1>1, <1>2, <1>3, <1>4, <1>5, <1>6

LEMMA DeactivateBeginStep ==
    ASSUME IInv, TypeOK', NEW p \in Proc, DeactivateBegin(p)
    PROVE  IInv'
<1> DEFINE h == handler[p].call.hub   D == HubDoc(h)
           h1 == [handler[p] EXCEPT !.pc = "commit", !.docs = D]
           h2 == [handler[p] EXCEPT !.pc = "commit", !.docs = D, !.call.op = "restore"]
<1>1. handler[p] \in Handler /\ handler[p].call \in Call /\ handler[p].call.op = "deactivate"
  BY HandlerType DEF IInv, TypeOK, DeactivateBegin
<1>2. CASE Become(p, Idle)  BY <1>2, OwnStep DEF Idle, NoCall
<1>3. CASE Become(p, h1) /\ ItemsAt(h) = {} /\ OffersAt(h) = {}
  <2>1. h1.call = handler[p].call /\ h1.docs = D  BY <1>1 DEF Handler
  <2>2. Current(h1)  BY <1>1, <1>3, <2>1 DEF Current
  <2>3. QED  BY <1>3, <2>1, <2>2, OwnStep
<1>4. CASE Become(p, h2)
  <2>1. h2.call = [handler[p].call EXCEPT !.op = "restore"] /\ h2.docs = D
    BY <1>1 DEF Handler
  <2>2. h2.call.op = "restore" /\ h2.call.hub = h  BY <1>1, <2>1 DEF Call, NoCall
  <2>3. Current(h2)  BY <2>1, <2>2 DEF Current
  <2>4. QED  BY <1>4, <2>2, <2>3, OwnStep
<1>5. QED  BY <1>2, <1>3, <1>4 DEF DeactivateBegin

LEMMA ConflictStep == ASSUME IInv, TypeOK', NEW p \in Proc, Conflict(p) PROVE IInv'
<1> DEFINE h == handler[p]
           h1 == [Idle EXCEPT !.pc = "begin", !.call = h.call]
           h2 == [Idle EXCEPT !.pc = "begin", !.call = [h.call EXCEPT !.op = "deactivate"]]
<1>1. h.call \in Call  BY HandlerType DEF IInv, TypeOK
<1>2. Become(p, Idle) \/ Become(p, h1) \/ Become(p, h2)  BY DEF Conflict
<1>3. CASE Become(p, Idle)  BY <1>3, OwnStep DEF Idle, NoCall
<1>4. CASE Become(p, h1)
  <2>1. h1.pc = "begin" /\ h1.call = h.call  BY DEF Idle
  <2>2. QED  BY <1>4, <2>1, OwnStep
<1>5. CASE Become(p, h2)
  <2>1. h2.pc = "begin" /\ h2.call = [h.call EXCEPT !.op = "deactivate"]  BY DEF Idle
  <2>2. h2.call.op # "create"  BY <1>1, <2>1 DEF Call, NoCall
  <2>3. QED  BY <1>5, <2>1, <2>2, OwnStep
<1>6. QED  BY <1>2, <1>3, <1>4, <1>5

LEMMA ArrivesStep ==
    ASSUME IInv, TypeOK', NEW p \in Proc, NEW c \in Call, Arrives(p, c), c.op # "create"
    PROVE  IInv'
<1> DEFINE h == [Idle EXCEPT !.pc = "begin", !.call = c]
<1>1. h.pc = "begin" /\ h.call = c  BY DEF Idle
<1>2. QED  BY <1>1, OwnStep DEF Arrives

LEMMA CreateReadStep ==
    ASSUME IInv, TypeOK', NEW p \in Proc, NEW r \in Request, CreateRead(p, r)
    PROVE  IInv'
<1> DEFINE c == [NoCall EXCEPT !.op = "create", !.request = r]
           h == [Idle EXCEPT !.pc = "begin", !.call = c]
<1>1. h.pc = "begin" /\ h.call.op = "create" /\ h.call.request = r  BY DEF Idle, NoCall
<1>2. Become(p, h)  BY DEF CreateRead, Arrives
<1>3. UNCHANGED documents /\ handler' = [handler EXCEPT ![p] = h]  BY <1>2 DEF Become
<1>4. \A q \in Proc : handler'[q] = IF q = p THEN h ELSE handler[q]  BY <1>3 DEF IInv, TypeOK
<1>5. /\ request[r] = "absent"
      /\ \A q \in Proc : handler[q].call.op = "create" => handler[q].call.request # r
  BY DEF CreateRead
<1>6. PostsAreNew'
  <2> HIDE DEF h
  <2>1. QED  BY <1>1, <1>3, <1>4, <1>5 DEF IInv, PostsAreNew, documents
<1>7. Agreement'  BY <1>3, AgreementStays DEF IInv, documents
<1>8. SnapshotsCurrent'  BY <1>1, <1>2, BecomeCurrent DEF IInv
<1>9. QED  BY <1>6, <1>7, <1>8 DEF IInv

LEMMA ArrivalStep == ASSUME IInv, TypeOK', NEW p \in Proc, Arrival(p) PROVE IInv'
<1>1. ASSUME NEW r \in Request, CancelRead(p, r) \/ ExpireScan(p, r) PROVE IInv'
  <2>1. \A op \in {"cancel", "expire"} :
           /\ [NoCall EXCEPT !.op = op, !.request = r] \in Call
           /\ [NoCall EXCEPT !.op = op, !.request = r].op # "create"
    BY DEF NoCall, Call
  <2>2. QED  BY <1>1, <2>1, ArrivesStep DEF CancelRead, ExpireScan
<1>2. ASSUME NEW r \in Request, NEW u \in User,
             RejectRead(p, r, u) \/ WithdrawRead(p, r, u) \/ AcceptRead(p, r, u)
      PROVE  IInv'
  <2>1. \A op \in {"reject", "withdraw", "accept"} :
           /\ [NoCall EXCEPT !.op = op, !.request = r, !.user = u] \in Call
           /\ [NoCall EXCEPT !.op = op, !.request = r, !.user = u].op # "create"
    BY DEF NoCall, Call
  <2>2. QED  BY <1>2, <2>1, ArrivesStep DEF RejectRead, WithdrawRead, AcceptRead, Answer
<1>3. ASSUME NEW r \in Request, NEW u \in User, NEW h \in Hub \cup {NoHub},
             SubmitRead(p, r, u, h)
      PROVE  IInv'
  <2>1. [op |-> "submit", request |-> r, user |-> u, hub |-> h] \in Call  BY DEF Call
  <2>2. QED  BY <1>3, <2>1, ArrivesStep DEF SubmitRead
<1>4. ASSUME NEW u \in User, BanStart(p, u) PROVE IInv'
  <2>1. /\ [NoCall EXCEPT !.op = "ban", !.user = u] \in Call
        /\ [NoCall EXCEPT !.op = "ban", !.user = u].op # "create"
    BY DEF NoCall, Call
  <2>2. QED  BY <1>4, <2>1, ArrivesStep DEF BanStart
<1>5. ASSUME NEW h \in Hub, DeactivateStart(p, h) PROVE IInv'
  <2>1. /\ [NoCall EXCEPT !.op = "deactivate", !.hub = h] \in Call
        /\ [NoCall EXCEPT !.op = "deactivate", !.hub = h].op # "create"
    BY DEF NoCall, Call
  <2>2. QED  BY <1>5, <2>1, ArrivesStep DEF DeactivateStart
<1>6. QED
  BY <1>1, <1>2, <1>3, <1>4, <1>5, CreateReadStep, RequestsAssumption DEF Arrival

\* Only the posting of a request takes it out of absence.
LEMMA CommitPosts ==
    ASSUME IInv, NEW p \in Proc, NEW op, Commits(p, op),
           \A r \in Request : request[r] = "absent" =>
              \/ request'[r] = "absent"
              \/ op = "create" /\ r = handler[p].call.request
    PROVE  PostsAreNew'
<1> DEFINE P == {q \in Proc \ {p} : handler[q].call.op = "create"}
<1>1. handler[p].call.op = op  BY DEF Commits
<1>2. ASSUME NEW q \in Proc \ {p} PROVE handler'[q].call = handler[q].call
  BY SeenCall DEF Commits, IInv
<1>3. handler'[p].call.op # "create"  BY DEF Commits, Idle, NoCall
<1>4. ASSUME NEW q \in P PROVE request'[handler[q].call.request] = "absent"
  <2>1. handler[q].call \in Call  BY HandlerType DEF IInv, TypeOK
  <2>2. handler[q].call.request \in Request /\ request[handler[q].call.request] = "absent"
    BY <2>1, CallParts DEF IInv, PostsAreNew
  <2>3. op = "create" => handler[q].call.request # handler[p].call.request
    BY <1>1 DEF IInv, PostsAreNew
  <2>4. QED  BY <2>2, <2>3
<1>5. \A q \in Proc \ P : handler'[q].call.op # "create"  BY <1>2, <1>3
<1>6. QED  BY <1>2, <1>4, <1>5, PostsStay DEF IInv

LEMMA CommitStep ==
    ASSUME IInv, TypeOK', NEW p \in Proc,
           \/ CreateCommit(p) \/ SubmitCommit(p) \/ AnswerCommit(p) \/ AcceptCommit(p)
           \/ CloseCommit(p) \/ BanCommit(p) \/ DeactivateCommit(p)
    PROVE  IInv'
<1>1. Agreement' /\ Covered(handler[p].docs)
  BY CreateCommitStep, SubmitCommitStep, AnswerCommitStep, AcceptCommitStep, CloseCommitStep,
     BanCommitStep, DeactivateCommitStep
<1>2. PICK op : Commits(p, op)
  BY DEF CreateCommit, SubmitCommit, AnswerCommit, AcceptCommit, CloseCommit, BanCommit,
         DeactivateCommit
<1>3. SnapshotsCurrent'  BY <1>1, <1>2, CommitsCurrent DEF IInv
<1>4. \A r \in Request : request[r] = "absent" =>
         \/ request'[r] = "absent"
         \/ op = "create" /\ r = handler[p].call.request
  <2>1. CASE CreateCommit(p)
    BY <1>2, <2>1 DEF CreateCommit, Commits, IInv, TypeOK
  <2>2. CASE SubmitCommit(p) \/ AnswerCommit(p) \/ DeactivateCommit(p)
    BY <2>2 DEF SubmitCommit, AnswerCommit, DeactivateCommit, documents
  <2>3. CASE AcceptCommit(p) \/ CloseCommit(p)
    <3>1. request[handler[p].call.request] = "active"
      BY <2>3, CommitIsCurrent DEF IInv, AcceptCommit, CloseCommit, Current
    <3>2. \E st : request' = [request EXCEPT ![handler[p].call.request] = st]
      BY <2>3 DEF AcceptCommit, CloseCommit
    <3>3. QED  BY <3>1, <3>2 DEF IInv, TypeOK
  <2>4. CASE BanCommit(p)
    <3>1. handler[p].call.user \in User /\ handler[p].docs = BanDocs(handler[p].call.user)
      BY <2>4, CommitIsCurrent, CallParts DEF IInv, BanCommit, Current
    <3>2. \A r \in Request : request'[r] = request[r] \/ r \in UndoneBy(handler[p].call.user)
      BY <2>4, <3>1, BanDocsMembers DEF BanCommit
    <3>3. \A r \in UndoneBy(handler[p].call.user) : request[r] # "absent"
      BY DEF UndoneBy, IInv, Agreement, OffersFollowRequest
    <3>4. QED  BY <3>2, <3>3
  <2>5. QED  BY <2>1, <2>2, <2>3, <2>4
<1>5. PostsAreNew'  BY <1>2, <1>4, CommitPosts
<1>6. QED  BY <1>1, <1>3, <1>5 DEF IInv

LEMMA InvInit == Init => IInv
<1> SUFFICES ASSUME Init PROVE IInv
  OBVIOUS
<1>1. Agreement
  BY DEF Init, NoLink, Agreement, OffersFollowRequest, ExchangesAmongAllowed, HubsInUseStayOpen,
         DeliveredIsConfirmed, Pending, Accepted, ItemsAt, OffersAt
<1>2. PostsAreNew /\ SnapshotsCurrent
  BY DEF Init, Idle, NoCall, PostsAreNew, SnapshotsCurrent
<1>3. QED  BY <1>1, <1>2, TypeInit DEF IInv

LEMMA InvStep == IInv /\ [Next]_vars => IInv'
<1> SUFFICES ASSUME IInv, [Next]_vars PROVE IInv'
  OBVIOUS
<1>1. TypeOK'  BY TypeStep DEF IInv
<1>2. CASE UNCHANGED vars  BY <1>1, <1>2, QuietStep DEF vars, documents
<1>3. ASSUME NEW p \in Proc, ProcStep(p) PROVE IInv'
  BY <1>1, <1>3, BeginStep, DeactivateBeginStep, CommitStep, ConflictStep DEF ProcStep
<1>4. QED  BY <1>1, <1>2, <1>3, ArrivalStep, AtOnceStep DEF Next

LEMMA InvAlways == Spec => []IInv
BY InvInit, InvStep, PTL DEF Spec

-----------------------------------------------------------------------------
(* The theorems *)

\* However submitOfferLogic, acceptOfferLogic, rejectOfferLogic, withdrawOfferLogic,
\* cancelRequestLogic, expireSingleRequest and applyBanConsequences interleave, a
\* request, its offers and its item tell one story: no offer is pending on a closed
\* request, and one offer is accepted exactly when the request is fulfilled.
THEOREM OffersFollow == Spec => []OffersFollowRequest
<1>1. IInv => OffersFollowRequest  BY DEF IInv, Agreement
<1>2. QED  BY <1>1, InvAlways, PTL

\* No acceptance slips past a ban of banUser, and a ban undoes what was accepted
\* before: an exchange under way is between users who are not banned.
THEOREM ExchangesAllowed == Spec => []ExchangesAmongAllowed
<1>1. IInv => ExchangesAmongAllowed  BY DEF IInv, Agreement
<1>2. QED  BY <1>1, InvAlways, PTL

\* deactivateHub never leaves a pending offer or an item to hand over at a hub that
\* is not active.
THEOREM HubsStayOpen == Spec => []HubsInUseStayOpen
<1>1. IInv => HubsInUseStayOpen  BY DEF IInv, Agreement
<1>2. QED  BY <1>1, InvAlways, PTL

\* The three together: submitOfferLogic, acceptOfferLogic, banUser and deactivateHub
\* keep what an exchange promises both parties and the hub.
THEOREM ExchangeStaysSound == Spec => []ExchangeSound
<1>1. IInv => ExchangeSound  BY DEF IInv, Agreement, ExchangeSound
<1>2. QED  BY <1>1, InvAlways, PTL

\* Whatever runMongoTransaction commits was decided on documents that are still as
\* the callback saw them.
THEOREM SnapshotsStayCurrent == Spec => []SnapshotsCurrent
<1>1. IInv => SnapshotsCurrent  BY DEF IInv
<1>2. QED  BY <1>1, InvAlways, PTL

-----------------------------------------------------------------------------
(* History *)

\* The step condition of DeliveredKeepsHistory.
HistoryKept ==
    \A r \in Request : item[r].status = "delivered" =>
        /\ request'[r] = request[r] /\ offer'[r] = offer[r]
        /\ item'[r].donor = item[r].donor /\ item'[r].recipientOk
        /\ item'[r].status \in {"delivered", "deleted"}

LEMMA DeliveredFacts ==
    ASSUME IInv, NEW r \in Request, item[r].status = "delivered"
    PROVE  /\ request[r] = "fulfilled" /\ Pending(r) = {} /\ item[r].recipientOk
           /\ \A u : r \notin UndoneBy(u)
<1>1. request[r] = "fulfilled"  BY DEF IInv, Agreement, OffersFollowRequest
<1>2. Pending(r) = {}  BY <1>1 DEF IInv, Agreement, OffersFollowRequest
<1>3. item[r].recipientOk  BY DEF IInv, Agreement, DeliveredIsConfirmed
<1>4. QED  BY <1>1, <1>2, <1>3 DEF UndoneBy

LEMMA UnchangedHistory ==
    ASSUME IInv, UNCHANGED <<request, offer, item>>
    PROVE  HistoryKept
BY DeliveredFacts DEF HistoryKept

LEMMA CommitHistory ==
    ASSUME IInv, TypeOK', NEW p \in Proc,
           \/ CreateCommit(p) \/ SubmitCommit(p) \/ AnswerCommit(p) \/ AcceptCommit(p)
           \/ CloseCommit(p) \/ BanCommit(p) \/ DeactivateCommit(p)
    PROVE  HistoryKept
<1> SUFFICES ASSUME NEW r \in Request, item[r].status = "delivered"
             PROVE  request'[r] = request[r] /\ offer'[r] = offer[r] /\ item'[r] = item[r]
  BY DeliveredFacts DEF HistoryKept
<1> DEFINE x == handler[p].call.request   v == handler[p].call.user
<1>1. /\ request[r] = "fulfilled" /\ \A u \in User : offer[r][u] # "pending"
      /\ \A u : r \notin UndoneBy(u)
  BY DeliveredFacts DEF Pending
<1>2. CASE CreateCommit(p)
  <2>1. x # r  BY <1>1, <1>2, CommitIsCurrent DEF IInv, CreateCommit, Current
  <2>2. QED  BY <1>2, <2>1 DEF CreateCommit, IInv, TypeOK
<1>3. CASE SubmitCommit(p)
  <2>1. x # r  BY <1>1, <1>3, CommitIsCurrent DEF IInv, SubmitCommit, Current
  <2>2. QED  BY <1>3, <2>1 DEF SubmitCommit, IInv, TypeOK
<1>4. CASE AnswerCommit(p)
  <2>1. offer[x][v] = "pending" /\ v \in User
    BY <1>4, CommitIsCurrent, CallParts DEF IInv, AnswerCommit, Current
  <2>2. x # r  BY <1>1, <2>1
  <2>3. QED  BY <1>4, <2>2 DEF AnswerCommit, IInv, TypeOK
<1>5. CASE AcceptCommit(p) \/ CloseCommit(p)
  <2>1. request[x] = "active"
    BY <1>5, CommitIsCurrent DEF IInv, AcceptCommit, CloseCommit, Current
  <2>2. x # r  BY <1>1, <2>1
  <2>3. /\ \E st : request' = [request EXCEPT ![x] = st]
        /\ \E f : offer' = [offer EXCEPT ![x] = f]
        /\ \E d : item' = [item EXCEPT ![x] = d] \/ item' = item
    BY <1>5 DEF AcceptCommit, CloseCommit
  <2>4. QED  BY <2>2, <2>3 DEF IInv, TypeOK
<1>6. CASE BanCommit(p)
  <2>1. v \in User /\ handler[p].docs = BanDocs(v)
    BY <1>6, CommitIsCurrent, CallParts DEF IInv, BanCommit, Current
  <2>2. /\ <<"request", r>> \notin handler[p].docs /\ <<"item", r>> \notin handler[p].docs
        /\ \A u \in User : <<"offer", r, u>> \notin handler[p].docs
    BY <1>1, <2>1, BanDocsMembers
  <2>3. request'[r] = request[r] /\ item'[r] = item[r]  BY <1>6, <2>2 DEF BanCommit
  <2>4. offer'[r] = [u \in User |-> offer[r][u]]  BY <1>6, <2>2 DEF BanCommit
  <2>5. offer'[r] = offer[r]  BY <2>4 DEF IInv, TypeOK
  <2>6. QED  BY <2>3, <2>5
<1>7. CASE DeactivateCommit(p)  BY <1>7 DEF DeactivateCommit, documents
<1>8. QED  BY <1>2, <1>3, <1>4, <1>5, <1>6, <1>7

LEMMA AtOnceHistory == ASSUME IInv, AtOnce PROVE HistoryKept
<1>1. ASSUME NEW x \in Request, RequestAges(x) PROVE HistoryKept
  BY <1>1, UnchangedHistory DEF RequestAges
<1>2. ASSUME NEW x \in Request, RecipientConfirm(x) \/ DonorConfirm(x) \/ AdminDelete(x)
      PROVE  HistoryKept
  <2> SUFFICES ASSUME NEW r \in Request, item[r].status = "delivered"
               PROVE  /\ item'[r].donor = item[r].donor /\ item'[r].recipientOk
                      /\ item'[r].status \in {"delivered", "deleted"}
    BY <1>2 DEF HistoryKept, RecipientConfirm, DonorConfirm, AdminDelete
  <2>1. item[r] \in LinkedItem /\ item[r].recipientOk
    BY DeliveredFacts DEF IInv, TypeOK
  <2>2. CASE x = r
    <3>1. item' = [item EXCEPT ![r] = [item[r] EXCEPT !.status = "deleted"]]
      BY <1>2, <2>2 DEF RecipientConfirm, DonorConfirm, AdminDelete, IInv, TypeOK
    <3>2. item'[r] = [item[r] EXCEPT !.status = "deleted"]  BY <3>1 DEF IInv, TypeOK
    <3>3. QED  BY <2>1, <3>2 DEF LinkedItem
  <2>3. CASE x # r
    <3>1. item'[r] = item[r]
      BY <1>2, <2>3 DEF RecipientConfirm, DonorConfirm, AdminDelete, IInv, TypeOK
    <3>2. QED  BY <2>1, <3>1
  <2>4. QED  BY <2>2, <2>3
<1>3. ASSUME NEW u \in User,
             \/ PublicBook(u) \/ PublicBookEnds(u) \/ PublicOffer(u) \/ PublicOfferEnds(u)
             \/ Unban(u) \/ Demote(u) \/ Promote(u)
      PROVE  HistoryKept
  BY <1>3, UnchangedHistory
  DEF PublicBook, PublicBookEnds, PublicOffer, PublicOfferEnds, Unban, Demote, Promote
<1>4. ASSUME NEW h \in Hub, Reactivate(h) PROVE HistoryKept
  BY <1>4, UnchangedHistory DEF Reactivate
<1>5. QED  BY <1>1, <1>2, <1>3, <1>4, RequestsAssumption DEF AtOnce

\* A step of a handler that opens no transaction or loses it leaves the documents.
LEMMA OwnHistory ==
    ASSUME IInv, NEW p \in Proc,
           \/ Arrival(p) \/ Conflict(p) \/ CreateBegin(p) \/ SubmitBegin(p) \/ AnswerBegin(p)
           \/ AcceptBegin(p) \/ CloseBegin(p) \/ BanBegin(p) \/ DeactivateBegin(p)
    PROVE  HistoryKept
<1>1. UNCHANGED documents
  BY DEF Arrival, CreateRead, CancelRead, ExpireScan, RejectRead, WithdrawRead, AcceptRead,
         Answer, SubmitRead, BanStart, DeactivateStart, Arrives, Conflict, CreateBegin,
         SubmitBegin, AnswerBegin, AcceptBegin, CloseBegin, BanBegin, DeactivateBegin, Begins,
         Become
<1>2. QED  BY <1>1, UnchangedHistory DEF documents

\* A delivered exchange keeps its request, offers and item: the filters of
\* completeDeliveryLogic, applyBanConsequences and the request handlers let a ban or a
\* late handler change nothing of it; only a moderator's deleteItem marks the item.
THEOREM DeliveredHistory == Spec => DeliveredKeepsHistory
<1>1. IInv /\ Next => HistoryKept
  <2> SUFFICES ASSUME IInv, Next PROVE HistoryKept
    OBVIOUS
  <2>1. TypeOK'  BY TypeStep DEF IInv
  <2>2. ASSUME NEW p \in Proc, ProcStep(p) \/ Arrival(p) PROVE HistoryKept
    BY <2>1, <2>2, CommitHistory, OwnHistory DEF ProcStep
  <2>3. QED  BY <2>2, AtOnceHistory DEF Next
<1>2. IInv /\ [Next]_vars => [HistoryKept]_vars  BY <1>1
<1>3. QED  BY <1>2, InvAlways, PTL DEF Spec, DeliveredKeepsHistory, HistoryKept

-----------------------------------------------------------------------------
(***************************************************************************)
(* The four limits of Requests.  The argument: a step that makes a count of *)
(* a user grow writes that user's document (Counted); a transaction locks   *)
(* the users it counted for, so the room it found (Room) is still there     *)
(* when it commits.                                                         *)
(***************************************************************************)

Within ==
    BookingsWithinLimit /\ DonationsWithinLimit /\ PendingWithinLimit /\ RequestsWithinLimit

\* There is room for what h's transaction adds.
Room(h) ==
    LET r == h.call.request   u == h.call.user   op == h.call.op IN
    /\ op = "create" => Cardinality(RequestsOf(Requester[r])) < MaxRequests
    /\ op = "submit" => Cardinality(PendingOf(u)) < MaxPending
    /\ op = "accept" => Bookings(Requester[r]) < MaxBookings /\ Donations(u) < MaxActiveLevel2

RoomKept == \A p \in Proc :
    handler[p].pc = "commit" /\ ~handler[p].stale => Room(handler[p])

LInv == IInv /\ Within /\ RoomKept

\* The step adds nothing to what is counted for v.
Quiet(v) ==
    /\ HeldBy(v)' \subseteq HeldBy(v) /\ GivenBy(v)' \subseteq GivenBy(v)
    /\ PendingOf(v)' \subseteq PendingOf(v) /\ RequestsOf(v)' \subseteq RequestsOf(v)
    /\ booked'[v] <= booked[v] /\ offered'[v] <= offered[v]

Counted(D) == \A v \in User : <<"user", v>> \in D \/ Quiet(v)

-----------------------------------------------------------------------------
(* Counting *)

LEMMA SmallerSet ==
    ASSUME NEW S \in SUBSET Request, NEW T \in SUBSET Request, T \subseteq S
    PROVE  /\ Cardinality(S) \in Nat /\ Cardinality(T) \in Nat
           /\ Cardinality(T) <= Cardinality(S)
<1>1. IsFiniteSet(S)  BY RequestsAssumption, FS_Subset
<1>2. IsFiniteSet(T) /\ Cardinality(T) <= Cardinality(S)  BY <1>1, FS_Subset
<1>3. QED  BY <1>1, <1>2, FS_CardinalityType

LEMMA OneMore ==
    ASSUME NEW S \in SUBSET Request, NEW T \in SUBSET Request, NEW r \in Request,
           T \subseteq S \cup {r}
    PROVE  Cardinality(T) <= Cardinality(S) + 1
<1>1. IsFiniteSet(S)  BY RequestsAssumption, FS_Subset
<1>2. Cardinality(S) \in Nat  BY <1>1, FS_CardinalityType
<1>3. Cardinality(S \cup {r}) <= Cardinality(S) + 1
  <2>1. Cardinality(S \cup {r}) = IF r \in S THEN Cardinality(S) ELSE Cardinality(S) + 1
    BY <1>1, FS_AddElement
  <2>2. QED  BY <1>2, <2>1
<1>4. S \cup {r} \in SUBSET Request  OBVIOUS
<1>5. Cardinality(T) \in Nat /\ Cardinality(S \cup {r}) \in Nat
      /\ Cardinality(T) <= Cardinality(S \cup {r})
  BY <1>4, SmallerSet
<1>6. QED  BY <1>2, <1>3, <1>5

\* What is counted for v are numbers.
Numbers(v) ==
    /\ Bookings(v) \in Nat /\ Donations(v) \in Nat
    /\ Cardinality(PendingOf(v)) \in Nat /\ Cardinality(RequestsOf(v)) \in Nat

LEMMA NumbersNow == ASSUME TypeOK, NEW v \in User PROVE Numbers(v)
<1>1. /\ HeldBy(v) \in SUBSET Request /\ GivenBy(v) \in SUBSET Request
      /\ PendingOf(v) \in SUBSET Request /\ RequestsOf(v) \in SUBSET Request
  BY DEF HeldBy, GivenBy, PendingOf, RequestsOf
<1>2. /\ Cardinality(HeldBy(v)) \in Nat /\ Cardinality(GivenBy(v)) \in Nat
      /\ Cardinality(PendingOf(v)) \in Nat /\ Cardinality(RequestsOf(v)) \in Nat
  BY <1>1, SmallerSet
<1>3. booked[v] \in Nat /\ offered[v] \in Nat  BY DEF TypeOK
<1>4. QED  BY <1>2, <1>3 DEF Numbers, Bookings, Donations

LEMMA NumbersNext == ASSUME TypeOK', NEW v \in User PROVE Numbers(v)'
<1>1. /\ HeldBy(v)' \in SUBSET Request /\ GivenBy(v)' \in SUBSET Request
      /\ PendingOf(v)' \in SUBSET Request /\ RequestsOf(v)' \in SUBSET Request
  BY DEF HeldBy, GivenBy, PendingOf, RequestsOf
<1>2. /\ Cardinality(HeldBy(v)') \in Nat /\ Cardinality(GivenBy(v)') \in Nat
      /\ Cardinality(PendingOf(v)') \in Nat /\ Cardinality(RequestsOf(v)') \in Nat
  BY <1>1, SmallerSet
<1>3. booked'[v] \in Nat /\ offered'[v] \in Nat  BY DEF TypeOK
<1>4. QED  BY <1>2, <1>3 DEF Numbers, Bookings, Donations

\* The counts of v in two states, when the second adds at most one request to each set.
LEMMA CountsOfNext ==
    ASSUME TypeOK, TypeOK', NEW v \in User
    PROVE  /\ HeldBy(v)' \subseteq HeldBy(v) /\ booked'[v] <= booked[v]
                 => Bookings(v)' <= Bookings(v)
           /\ GivenBy(v)' \subseteq GivenBy(v) /\ offered'[v] <= offered[v]
                 => Donations(v)' <= Donations(v)
           /\ PendingOf(v)' \subseteq PendingOf(v)
                 => Cardinality(PendingOf(v))' <= Cardinality(PendingOf(v))
           /\ RequestsOf(v)' \subseteq RequestsOf(v)
                 => Cardinality(RequestsOf(v))' <= Cardinality(RequestsOf(v))
           /\ \A r \in Request :
                 /\ HeldBy(v)' \subseteq HeldBy(v) \cup {r} /\ booked'[v] = booked[v]
                       => Bookings(v)' <= Bookings(v) + 1
                 /\ GivenBy(v)' \subseteq GivenBy(v) \cup {r} /\ offered'[v] = offered[v]
                       => Donations(v)' <= Donations(v) + 1
                 /\ PendingOf(v)' \subseteq PendingOf(v) \cup {r}
                       => Cardinality(PendingOf(v))' <= Cardinality(PendingOf(v)) + 1
                 /\ RequestsOf(v)' \subseteq RequestsOf(v) \cup {r}
                       => Cardinality(RequestsOf(v))' <= Cardinality(RequestsOf(v)) + 1
<1>1. /\ HeldBy(v) \in SUBSET Request /\ HeldBy(v)' \in SUBSET Request
      /\ GivenBy(v) \in SUBSET Request /\ GivenBy(v)' \in SUBSET Request
      /\ PendingOf(v) \in SUBSET Request /\ PendingOf(v)' \in SUBSET Request
      /\ RequestsOf(v) \in SUBSET Request /\ RequestsOf(v)' \in SUBSET Request
  BY DEF HeldBy, GivenBy, PendingOf, RequestsOf
<1>2. /\ booked[v] \in Nat /\ booked'[v] \in Nat /\ offered[v] \in Nat /\ offered'[v] \in Nat
  BY DEF TypeOK
<1>3. \A S, T \in SUBSET Request :
         /\ Cardinality(S) \in Nat
         /\ T \subseteq S => Cardinality(T) <= Cardinality(S)
         /\ \A r \in Request : T \subseteq S \cup {r} => Cardinality(T) <= Cardinality(S) + 1
  BY SmallerSet, OneMore
<1>4. /\ Bookings(v) = Cardinality(HeldBy(v)) + booked[v]
      /\ Bookings(v)' = Cardinality(HeldBy(v)') + booked'[v]
      /\ Donations(v) = Cardinality(GivenBy(v)) + offered[v]
      /\ Donations(v)' = Cardinality(GivenBy(v)') + offered'[v]
  BY DEF Bookings, Donations
<1>5. /\ HeldBy(v)' \subseteq HeldBy(v) /\ booked'[v] <= booked[v]
            => Bookings(v)' <= Bookings(v)
      /\ \A r \in Request : HeldBy(v)' \subseteq HeldBy(v) \cup {r} /\ booked'[v] = booked[v]
            => Bookings(v)' <= Bookings(v) + 1
  <2>1. /\ Cardinality(HeldBy(v)) \in Nat /\ Cardinality(HeldBy(v)') \in Nat
        /\ HeldBy(v)' \subseteq HeldBy(v) => Cardinality(HeldBy(v)') <= Cardinality(HeldBy(v))
        /\ \A r \in Request : HeldBy(v)' \subseteq HeldBy(v) \cup {r}
              => Cardinality(HeldBy(v)') <= Cardinality(HeldBy(v)) + 1
    BY <1>1, <1>3
  <2>2. QED  BY <1>2, <1>4, <2>1
<1>6. /\ GivenBy(v)' \subseteq GivenBy(v) /\ offered'[v] <= offered[v]
            => Donations(v)' <= Donations(v)
      /\ \A r \in Request : GivenBy(v)' \subseteq GivenBy(v) \cup {r} /\ offered'[v] = offered[v]
            => Donations(v)' <= Donations(v) + 1
  <2>1. /\ Cardinality(GivenBy(v)) \in Nat /\ Cardinality(GivenBy(v)') \in Nat
        /\ GivenBy(v)' \subseteq GivenBy(v)
              => Cardinality(GivenBy(v)') <= Cardinality(GivenBy(v))
        /\ \A r \in Request : GivenBy(v)' \subseteq GivenBy(v) \cup {r}
              => Cardinality(GivenBy(v)') <= Cardinality(GivenBy(v)) + 1
    BY <1>1, <1>3
  <2>2. QED  BY <1>2, <1>4, <2>1
<1>7. QED  BY <1>1, <1>3, <1>5, <1>6

-----------------------------------------------------------------------------
(* Room found stays while nobody writes the users it was found for *)

LEMMA OthersRoom ==
    ASSUME LInv, TypeOK', NEW D, Counted(D), NEW q \in Proc,
           handler'[q] = Seen(q, D), handler'[q].pc = "commit", ~handler'[q].stale
    PROVE  Room(handler[q])'
<1>1. PICK h \in Handler : h = handler[q]  BY DEF LInv, IInv, TypeOK
<1>2. h.stale \in BOOLEAN /\ h = [pc |-> h.pc, call |-> h.call, docs |-> h.docs, stale |-> h.stale]
  BY DEF Handler
<1>3. handler'[q] = [h EXCEPT !.stale = h.stale \/ (h.docs \cap D # {})]  BY <1>1 DEF Seen
<1>4. ~h.stale /\ h.docs \cap D = {} /\ h.pc = "commit"  BY <1>2, <1>3
<1>5. handler'[q] = h  BY <1>2, <1>3, <1>4
<1>6. Room(h) /\ Current(h) /\ h.call \in Call
  BY <1>1, <1>4, HandlerType DEF LInv, IInv, RoomKept, SnapshotsCurrent
<1>7. ASSUME NEW v \in User, <<"user", v>> \in h.docs
      PROVE  /\ Bookings(v)' <= Bookings(v) /\ Donations(v)' <= Donations(v)
             /\ Cardinality(PendingOf(v))' <= Cardinality(PendingOf(v))
             /\ Cardinality(RequestsOf(v))' <= Cardinality(RequestsOf(v))
             /\ Numbers(v) /\ Numbers(v)'
  <2>1. Quiet(v)  BY <1>4, <1>7 DEF Counted
  <2>2. Numbers(v) /\ Numbers(v)'  BY NumbersNow, NumbersNext DEF LInv, IInv
  <2>3. QED  BY <2>1, <2>2, CountsOfNext DEF Quiet, LInv, IInv
<1> DEFINE r == h.call.request   u == h.call.user   op == h.call.op
<1>8. CASE op = "create"
  <2>1. r \in Request /\ Requester[r] \in User  BY <1>6, <1>8, CallParts, RequestsAssumption
  <2>2. <<"user", Requester[r]>> \in h.docs  BY <1>6, <1>8 DEF Current, CreateDocs
  <2>3. Cardinality(RequestsOf(Requester[r])) < MaxRequests  BY <1>6, <1>8 DEF Room
  <2>4. Cardinality(RequestsOf(Requester[r]))' < MaxRequests
    BY <1>7, <2>1, <2>2, <2>3, RequestsAssumption DEF Numbers
  <2>5. QED  BY <1>5, <1>8, <2>4 DEF Room
<1>9. CASE op = "submit"
  <2>1. r \in Request /\ u \in User /\ h.call.hub \in Hub \cup {NoHub}
    BY <1>6, <1>9, CallParts
  <2>2. h.docs = SubmitDocs(r, u, h.call.hub)  BY <1>6, <1>9 DEF Current
  <2>3. <<"user", u>> \in h.docs  BY <2>2 DEF SubmitDocs
  <2>4. Cardinality(PendingOf(u)) < MaxPending  BY <1>6, <1>9 DEF Room
  <2>5. Cardinality(PendingOf(u))' < MaxPending
    BY <1>7, <2>1, <2>3, <2>4, RequestsAssumption DEF Numbers
  <2>6. QED  BY <1>5, <1>9, <2>5 DEF Room
<1>10. CASE op = "accept"
  <2>1. r \in Request /\ Requester[r] \in User /\ u \in User
    BY <1>6, <1>10, CallParts, RequestsAssumption
  <2>2. h.docs = AcceptDocs(r, u)  BY <1>6, <1>10 DEF Current
  <2>3. <<"user", Requester[r]>> \in h.docs /\ <<"user", u>> \in h.docs
    BY <2>2 DEF AcceptDocs
  <2>4. Bookings(Requester[r]) < MaxBookings /\ Donations(u) < MaxActiveLevel2
    BY <1>6, <1>10 DEF Room
  <2>5. Bookings(Requester[r])' < MaxBookings /\ Donations(u)' < MaxActiveLevel2
    BY <1>7, <2>1, <2>3, <2>4, RequestsAssumption DEF Numbers
  <2>6. QED  BY <1>5, <1>10, <2>5 DEF Room
<1>11. CASE op \notin {"create", "submit", "accept"}  BY <1>5, <1>11 DEF Room
<1>12. QED  BY <1>8, <1>9, <1>10, <1>11

LEMMA WrittenRoom ==
    ASSUME LInv, TypeOK', NEW D, Counted(D), Written(D)
    PROVE  RoomKept'
BY OthersRoom DEF RoomKept, Written

LEMMA CommitsRoom ==
    ASSUME LInv, TypeOK', NEW p \in Proc, NEW op, Commits(p, op), Counted(handler[p].docs)
    PROVE  RoomKept'
<1> SUFFICES ASSUME NEW q \in Proc, handler'[q].pc = "commit", ~handler'[q].stale
             PROVE  Room(handler[q])'
  BY DEF RoomKept
<1>1. q # p /\ handler'[q] = Seen(q, handler[p].docs)  BY DEF Commits, Idle
<1>2. QED  BY <1>1, OthersRoom

\* Each count of each user either does not grow or is within its limit after the step.
LEMMA WithinNext ==
    ASSUME LInv, TypeOK',
           \A v \in User :
              /\ \/ HeldBy(v)' \subseteq HeldBy(v) /\ booked'[v] <= booked[v]
                 \/ Bookings(v)' <= MaxBookings
              /\ \/ GivenBy(v)' \subseteq GivenBy(v) /\ offered'[v] <= offered[v]
                 \/ Donations(v)' <= MaxActiveLevel2
              /\ \/ PendingOf(v)' \subseteq PendingOf(v)
                 \/ Cardinality(PendingOf(v))' <= MaxPending
              /\ \/ RequestsOf(v)' \subseteq RequestsOf(v)
                 \/ Cardinality(RequestsOf(v))' <= MaxRequests
    PROVE  Within'
<1> SUFFICES ASSUME NEW v \in User
             PROVE  /\ Bookings(v)' <= MaxBookings /\ Donations(v)' <= MaxActiveLevel2
                    /\ Cardinality(PendingOf(v))' <= MaxPending
                    /\ Cardinality(RequestsOf(v))' <= MaxRequests
  BY DEF Within, BookingsWithinLimit, DonationsWithinLimit, PendingWithinLimit, RequestsWithinLimit
<1>1. /\ Bookings(v)' <= Bookings(v) \/ Bookings(v)' <= MaxBookings
      /\ Donations(v)' <= Donations(v) \/ Donations(v)' <= MaxActiveLevel2
      /\ \/ Cardinality(PendingOf(v))' <= Cardinality(PendingOf(v))
         \/ Cardinality(PendingOf(v))' <= MaxPending
      /\ \/ Cardinality(RequestsOf(v))' <= Cardinality(RequestsOf(v))
         \/ Cardinality(RequestsOf(v))' <= MaxRequests
  BY CountsOfNext DEF LInv, IInv
<1>2. /\ Bookings(v) <= MaxBookings /\ Donations(v) <= MaxActiveLevel2
      /\ Cardinality(PendingOf(v)) <= MaxPending /\ Cardinality(RequestsOf(v)) <= MaxRequests
  BY DEF LInv, Within, BookingsWithinLimit, DonationsWithinLimit, PendingWithinLimit,
         RequestsWithinLimit
<1>3. Numbers(v) /\ Numbers(v)'  BY NumbersNow, NumbersNext DEF LInv, IInv
<1>4. QED  BY <1>1, <1>2, <1>3, RequestsAssumption DEF Numbers

LEMMA QuietStepRoom ==
    ASSUME LInv, TypeOK', \A v \in User : Quiet(v),
           handler' = handler \/ \E D : Written(D)
    PROVE  Within' /\ RoomKept'
<1>1. Within'  BY WithinNext DEF Quiet
<1>2. PICK D : Written(D)
  <2>1. CASE handler' = handler
    <3>1. \A q \in Proc : Seen(q, {}) = handler[q]
      BY DEF Seen, LInv, IInv, TypeOK, Handler
    <3>2. handler = [q \in Proc |-> handler[q]]  BY DEF LInv, IInv, TypeOK
    <3>3. Written({})  BY <2>1, <3>1, <3>2 DEF Written
    <3>4. QED  BY <3>3
  <2>2. QED  BY <2>1
<1>3. RoomKept'  BY <1>2, WrittenRoom DEF Counted
<1>4. QED  BY <1>1, <1>3

\* A handler that changes its own record only.
LEMMA OwnRoom ==
    ASSUME LInv, TypeOK', NEW p \in Proc, NEW h, Become(p, h), h.pc = "commit" => Room(h)
    PROVE  Within' /\ RoomKept'
<1>1. UNCHANGED documents /\ handler' = [handler EXCEPT ![p] = h]  BY DEF Become
<1>2. \A v : /\ HeldBy(v)' = HeldBy(v) /\ GivenBy(v)' = GivenBy(v)
             /\ PendingOf(v)' = PendingOf(v) /\ RequestsOf(v)' = RequestsOf(v)
             /\ Bookings(v)' = Bookings(v) /\ Donations(v)' = Donations(v)
  BY <1>1 DEF documents, HeldBy, GivenBy, PendingOf, RequestsOf, Bookings, Donations
<1>3. Within'
  BY <1>2 DEF LInv, Within, BookingsWithinLimit, DonationsWithinLimit, PendingWithinLimit,
              RequestsWithinLimit
<1>4. \A x : Room(x) => Room(x)'  BY <1>2 DEF Room
<1>5. ASSUME NEW q \in Proc, handler'[q].pc = "commit", ~handler'[q].stale
      PROVE  Room(handler[q])'
  <2>1. handler'[q] = IF q = p THEN h ELSE handler[q]  BY <1>1 DEF LInv, IInv, TypeOK
  <2>2. PICK x : x = handler'[q]  OBVIOUS
  <2>3. Room(x)  BY <1>5, <2>1, <2>2 DEF LInv, RoomKept
  <2>4. QED  BY <1>4, <2>2, <2>3 DEF Room
<1>6. QED  BY <1>3, <1>5 DEF RoomKept

-----------------------------------------------------------------------------
(* The begins, the arrivals and the conflicts *)

LEMMA BeginsRoom ==
    ASSUME LInv, TypeOK', NEW p \in Proc, NEW op, NEW ok, NEW D, Begins(p, op, ok, D),
           ASSUME NEW h, h.call = handler[p].call, ok
           PROVE  Room(h)
    PROVE  Within' /\ RoomKept'
<1> DEFINE g == [handler[p] EXCEPT !.pc = "commit", !.docs = D]
<1>1. handler[p] \in Handler  BY DEF LInv, IInv, TypeOK
<1>2. g.call = handler[p].call  BY <1>1 DEF Handler
<1>3. CASE ok /\ Become(p, g)
  <2>1. Room(g)  BY <1>2, <1>3
  <2>2. QED  BY <1>3, <2>1, OwnRoom
<1>4. CASE Become(p, Idle)  BY <1>4, OwnRoom DEF Idle
<1>5. QED  BY <1>3, <1>4 DEF Begins

LEMMA BeginRoom ==
    ASSUME LInv, TypeOK', NEW p \in Proc,
           \/ CreateBegin(p) \/ SubmitBegin(p) \/ AnswerBegin(p) \/ AcceptBegin(p)
           \/ CloseBegin(p) \/ BanBegin(p)
    PROVE  Within' /\ RoomKept'
<1> DEFINE c == handler[p].call
<1>0. c \in Call  BY HandlerType DEF LInv, IInv, TypeOK
<1>1. CASE CreateBegin(p)
  <2>1. c.op = "create"  BY <1>1 DEF CreateBegin, Begins
  <2>2. ASSUME NEW h, h.call = c, Cardinality(RequestsOf(Requester[c.request])) < MaxRequests
        PROVE  Room(h)
    BY <2>1, <2>2 DEF Room
  <2>3. QED  BY <1>1, <2>2, BeginsRoom DEF CreateBegin
<1>2. CASE SubmitBegin(p)
  <2>1. c.op = "submit"  BY <1>2 DEF SubmitBegin, Begins
  <2>2. ASSUME NEW h, h.call = c, Cardinality(PendingOf(c.user)) < MaxPending
        PROVE  Room(h)
    BY <2>1, <2>2 DEF Room
  <2>3. QED  BY <1>2, <2>2, BeginsRoom DEF SubmitBegin
<1>3. CASE AcceptBegin(p)
  <2>1. c.op = "accept" /\ c.user \in User
    BY <1>0, <1>3, CallParts DEF AcceptBegin, Begins
  <2>2. ASSUME NEW h, h.call = c, CanAccept(c.request, c.user) PROVE Room(h)
    <3>1. Bookings(Requester[c.request]) < MaxBookings
      BY <2>2 DEF CanAccept
    <3>2. Donations(c.user) < MaxActiveLevel1 \/ Donations(c.user) < MaxActiveLevel2
      BY <2>2 DEF CanAccept, DonationLimit
    <3>3. Donations(c.user) \in Nat  BY <2>1, NumbersNow DEF Numbers, LInv, IInv
    <3>4. Donations(c.user) < MaxActiveLevel2  BY <3>2, <3>3, RequestsAssumption
    <3>5. QED  BY <2>1, <2>2, <3>1, <3>4 DEF Room
  <2> DEFINE g == [handler[p] EXCEPT !.pc = "commit",
                                     !.docs = AcceptDocs(c.request, c.user)]
  <2>3. (CanAccept(c.request, c.user) /\ Become(p, g)) \/ Become(p, Idle)
    BY <1>3 DEF AcceptBegin, Begins
  <2>4. g.call = c  BY DEF LInv, IInv, TypeOK, Handler
  <2>5. CASE CanAccept(c.request, c.user) /\ Become(p, g)
    <3>1. Room(g)  BY <2>2, <2>4, <2>5
    <3>2. QED  BY <2>5, <3>1, OwnRoom
  <2>6. CASE Become(p, Idle)  BY <2>6, OwnRoom DEF Idle
  <2>7. QED  BY <2>3, <2>5, <2>6
<1>4. CASE AnswerBegin(p) \/ CloseBegin(p) \/ BanBegin(p)
  <2>1. PICK op \in {"reject", "withdraw", "cancel", "expire", "ban"} :
           \E ok, D : Begins(p, op, ok, D)
    BY <1>4 DEF AnswerBegin, CloseBegin, BanBegin
  <2>2. PICK ok, D : Begins(p, op, ok, D)  BY <2>1
  <2>3. c.op = op  BY <2>2 DEF Begins
  <2>4. ASSUME NEW h, h.call = c PROVE Room(h)  BY <2>3, <2>4 DEF Room
  <2>5. QED  BY <2>2, <2>4, BeginsRoom
<1>5. QED  BY <1>1, <1>2, <1>3, <1>4

LEMMA OtherOwnRoom ==
    ASSUME LInv, TypeOK', NEW p \in Proc, DeactivateBegin(p) \/ Conflict(p) \/ Arrival(p)
    PROVE  Within' /\ RoomKept'
<1>1. CASE DeactivateBegin(p)
  <2>1. handler[p] \in Handler /\ handler[p].call \in Call /\ handler[p].call.op = "deactivate"
    BY <1>1, HandlerType DEF LInv, IInv, TypeOK, DeactivateBegin
  <2>2. PICK h : Become(p, h) /\ (h.pc = "commit" => h.call.op \in {"deactivate", "restore"})
    <3> DEFINE D == HubDoc(handler[p].call.hub)
               h1 == [handler[p] EXCEPT !.pc = "commit", !.docs = D]
               h2 == [handler[p] EXCEPT !.pc = "commit", !.docs = D, !.call.op = "restore"]
    <3>1. Become(p, Idle) \/ Become(p, h1) \/ Become(p, h2)  BY <1>1 DEF DeactivateBegin
    <3>2. Idle.pc # "commit" /\ h1.call.op = "deactivate"  BY <2>1 DEF Idle, Handler
    <3>3. h2.call = [handler[p].call EXCEPT !.op = "restore"]  BY <2>1 DEF Handler
    <3>4. h2.call.op = "restore"  BY <2>1, <3>3 DEF Call, NoCall
    <3>5. QED  BY <3>1, <3>2, <3>4
  <2>3. h.pc = "commit" => Room(h)  BY <2>2 DEF Room
  <2>4. QED  BY <2>2, <2>3, OwnRoom
<1>2. CASE Conflict(p)
  <2> DEFINE c == handler[p].call
             h1 == [Idle EXCEPT !.pc = "begin", !.call = c]
             h2 == [Idle EXCEPT !.pc = "begin", !.call = [c EXCEPT !.op = "deactivate"]]
  <2>1. Become(p, Idle) \/ Become(p, h1) \/ Become(p, h2)  BY <1>2 DEF Conflict
  <2>2. Idle.pc # "commit" /\ h1.pc # "commit" /\ h2.pc # "commit"  BY DEF Idle
  <2>3. QED  BY <2>1, <2>2, OwnRoom
<1>3. CASE Arrival(p)
  <2>1. PICK c : Arrives(p, c)
    BY <1>3 DEF Arrival, CreateRead, CancelRead, ExpireScan, RejectRead, WithdrawRead,
                AcceptRead, Answer, SubmitRead, BanStart, DeactivateStart
  <2> DEFINE h == [Idle EXCEPT !.pc = "begin", !.call = c]
  <2>2. Become(p, h) /\ h.pc # "commit"  BY <2>1 DEF Arrives, Idle
  <2>3. QED  BY <2>2, OwnRoom
<1>4. QED  BY <1>1, <1>2, <1>3

-----------------------------------------------------------------------------
(* The commits *)

\* A commit finds the room its snapshot had.
LEMMA CommitHasRoom ==
    ASSUME LInv, NEW p \in Proc, NEW op, Commits(p, op)
    PROVE  /\ handler[p].call \in Call /\ handler[p].call.op = op
           /\ Current(handler[p]) /\ Room(handler[p])
BY CommitIsCurrent DEF LInv, IInv, RoomKept, Commits

LEMMA CreateCommitRoom ==
    ASSUME LInv, TypeOK', NEW p \in Proc, CreateCommit(p)
    PROVE  Within' /\ Counted(handler[p].docs)
<1>0. PICK r \in Request : r = handler[p].call.request
  BY CommitHasRoom, CallParts DEF CreateCommit
<1>1. /\ handler[p].docs = CreateDocs(r)
      /\ Cardinality(RequestsOf(Requester[r])) < MaxRequests
  BY <1>0, CommitHasRoom DEF CreateCommit, Current, Room
<1>2. /\ UNCHANGED <<offer, item, booked, offered>>
      /\ \A x \in Request \ {r} : request'[x] = request[x]
  BY <1>0 DEF CreateCommit, LInv, IInv, TypeOK
<1>3. \A v \in User : /\ HeldBy(v)' = HeldBy(v) /\ GivenBy(v)' = GivenBy(v)
                      /\ PendingOf(v)' = PendingOf(v)
                      /\ RequestsOf(v)' \subseteq RequestsOf(v) \cup {r}
                      /\ v # Requester[r] => RequestsOf(v)' \subseteq RequestsOf(v)
                      /\ booked'[v] <= booked[v] /\ offered'[v] <= offered[v]
  BY <1>2 DEF HeldBy, GivenBy, PendingOf, RequestsOf, LInv, IInv, TypeOK
<1>4. Cardinality(RequestsOf(Requester[r]))' <= MaxRequests
  <2>1. Requester[r] \in User  BY RequestsAssumption
  <2>2. Cardinality(RequestsOf(Requester[r]))' <= Cardinality(RequestsOf(Requester[r])) + 1
    BY <1>1, <1>3, <2>1, CountsOfNext DEF LInv, IInv
  <2>3. Numbers(Requester[r]) /\ Numbers(Requester[r])'
    BY <2>1, NumbersNow, NumbersNext DEF LInv, IInv
  <2>4. QED  BY <1>1, <2>2, <2>3, RequestsAssumption DEF Numbers
<1>5. Within'  BY <1>3, <1>4, WithinNext
<1>6. Counted(handler[p].docs)  BY <1>1, <1>3 DEF Counted, Quiet, CreateDocs
<1>7. QED  BY <1>5, <1>6

LEMMA SubmitCommitRoom ==
    ASSUME LInv, TypeOK', NEW p \in Proc, SubmitCommit(p)
    PROVE  Within' /\ Counted(handler[p].docs)
<1>0. PICK r \in Request, u \in User :
         r = handler[p].call.request /\ u = handler[p].call.user
  BY CommitHasRoom, CallParts DEF SubmitCommit
<1>1. /\ handler[p].docs = SubmitDocs(r, u, handler[p].call.hub)
      /\ Cardinality(PendingOf(u)) < MaxPending
  BY <1>0, CommitHasRoom DEF SubmitCommit, Current, Room
<1>2. /\ UNCHANGED <<request, item, booked, offered>>
      /\ \A x \in Request, v \in User : x # r \/ v # u => offer'[x][v] = offer[x][v]
  BY <1>0 DEF SubmitCommit, LInv, IInv, TypeOK
<1>3. \A v \in User : /\ HeldBy(v)' = HeldBy(v) /\ GivenBy(v)' = GivenBy(v)
                      /\ PendingOf(v)' \subseteq PendingOf(v) \cup {r}
                      /\ v # u => PendingOf(v)' \subseteq PendingOf(v)
                      /\ RequestsOf(v)' = RequestsOf(v)
                      /\ booked'[v] <= booked[v] /\ offered'[v] <= offered[v]
  BY <1>2 DEF HeldBy, GivenBy, PendingOf, RequestsOf, LInv, IInv, TypeOK
<1>4. Cardinality(PendingOf(u))' <= MaxPending
  <2>1. Cardinality(PendingOf(u))' <= Cardinality(PendingOf(u)) + 1
    BY <1>1, <1>3, CountsOfNext DEF LInv, IInv
  <2>2. Numbers(u) /\ Numbers(u)'  BY <1>1, NumbersNow, NumbersNext DEF LInv, IInv
  <2>3. QED  BY <1>1, <2>1, <2>2, RequestsAssumption DEF Numbers
<1>5. Within'  BY <1>3, <1>4, WithinNext
<1>6. Counted(handler[p].docs)  BY <1>1, <1>3 DEF Counted, Quiet, SubmitDocs
<1>7. QED  BY <1>5, <1>6

\* Offers of one request that are ended are not pending any more.
LEMMA EndedOffers ==
    ASSUME TypeOK, NEW p \in Proc, NEW r \in Request, NEW st, st # "pending",
           offer' = [offer EXCEPT ![r] = EndOffers(p, r, st)]
    PROVE  \A v \in User : PendingOf(v)' \subseteq PendingOf(v)
<1>1. \A x \in Request, v \in User :
         offer'[x][v] = IF x = r THEN EndOffers(p, r, st)[v] ELSE offer[x][v]
  BY DEF TypeOK
<1>2. \A v \in User : EndOffers(p, r, st)[v] \in {st, offer[r][v]}  BY DEF EndOffers
<1>3. QED  BY <1>1, <1>2 DEF PendingOf

LEMMA AcceptCommitRoom ==
    ASSUME LInv, TypeOK', NEW p \in Proc, AcceptCommit(p)
    PROVE  Within' /\ Counted(handler[p].docs)
<1>0. PICK r \in Request, u \in User, a \in User :
         r = handler[p].call.request /\ u = handler[p].call.user /\ a = Requester[r]
  BY CommitHasRoom, CallParts, RequestsAssumption DEF AcceptCommit
<1>1. /\ handler[p].docs = AcceptDocs(r, u)
      /\ request[r] = "active"
      /\ Bookings(a) < MaxBookings /\ Donations(u) < MaxActiveLevel2
  BY <1>0, CommitHasRoom DEF AcceptCommit, Current, Room
<1>2. /\ UNCHANGED <<booked, offered>>
      /\ \A x \in Request : x # r => request'[x] = request[x] /\ item'[x] = item[x]
      /\ item'[r].donor = u
  BY <1>0 DEF AcceptCommit, LInv, IInv, TypeOK
<1>3. \A v \in User : PendingOf(v)' \subseteq PendingOf(v)
  <2>1. offer' = [offer EXCEPT ![r] = [EndOffers(p, r, "rejected") EXCEPT ![u] = "accepted"]]
    BY <1>0 DEF AcceptCommit
  <2>2. \A x \in Request, v \in User :
           offer'[x][v] = IF x = r THEN IF v = u THEN "accepted"
                                        ELSE EndOffers(p, r, "rejected")[v]
                          ELSE offer[x][v]
    BY <2>1 DEF LInv, IInv, TypeOK, EndOffers
  <2>3. \A v \in User : EndOffers(p, r, "rejected")[v] \in {"rejected", offer[r][v]}
    BY DEF EndOffers
  <2>4. QED  BY <1>1, <2>2, <2>3 DEF PendingOf
<1>4. \A v \in User : /\ HeldBy(v)' \subseteq HeldBy(v) \cup {r}
                      /\ v # a => HeldBy(v)' \subseteq HeldBy(v)
                      /\ GivenBy(v)' \subseteq GivenBy(v) \cup {r}
                      /\ v # u => GivenBy(v)' \subseteq GivenBy(v)
                      /\ RequestsOf(v)' \subseteq RequestsOf(v)
                      /\ booked'[v] = booked[v] /\ offered'[v] = offered[v]
                      /\ booked'[v] <= booked[v] /\ offered'[v] <= offered[v]
  <2>1. \A v \in User : /\ HeldBy(v)' \subseteq HeldBy(v) \cup {r}
                        /\ v # a => HeldBy(v)' \subseteq HeldBy(v)
    BY <1>0, <1>2 DEF HeldBy
  <2>2. \A v \in User : /\ GivenBy(v)' \subseteq GivenBy(v) \cup {r}
                        /\ v # u => GivenBy(v)' \subseteq GivenBy(v)
    BY <1>2 DEF GivenBy
  <2>3. \A v \in User : RequestsOf(v)' \subseteq RequestsOf(v)
    BY <1>1, <1>2 DEF RequestsOf
  <2>4. \A v \in User : booked[v] \in Nat /\ offered[v] \in Nat  BY DEF LInv, IInv, TypeOK
  <2>5. QED  BY <1>2, <2>1, <2>2, <2>3, <2>4
<1>5. Bookings(a)' <= MaxBookings /\ Donations(u)' <= MaxActiveLevel2
  <2>1. Bookings(a)' <= Bookings(a) + 1 /\ Donations(u)' <= Donations(u) + 1
    BY <1>1, <1>4, CountsOfNext DEF LInv, IInv
  <2>2. Numbers(a) /\ Numbers(a)' /\ Numbers(u) /\ Numbers(u)'
    BY <1>1, NumbersNow, NumbersNext DEF LInv, IInv
  <2>3. QED  BY <1>1, <2>1, <2>2, RequestsAssumption DEF Numbers
<1>6. Within'  BY <1>3, <1>4, <1>5, WithinNext
<1>7. <<"user", a>> \in handler[p].docs /\ <<"user", u>> \in handler[p].docs
  BY <1>0, <1>1 DEF AcceptDocs
<1>8. Counted(handler[p].docs)  BY <1>3, <1>4, <1>7 DEF Counted, Quiet
<1>9. QED  BY <1>6, <1>8

\* The commits that take something away add to no count.
LEMMA OtherCommitRoom ==
    ASSUME LInv, TypeOK', NEW p \in Proc,
           AnswerCommit(p) \/ CloseCommit(p) \/ BanCommit(p) \/ DeactivateCommit(p)
    PROVE  Within' /\ Counted(handler[p].docs)
<1> DEFINE r == handler[p].call.request   u == handler[p].call.user
<1> SUFFICES \A v \in User : Quiet(v)
  BY WithinNext DEF Quiet, Counted
<1>1. CASE AnswerCommit(p)
  <2>1. PICK st \in {"rejected", "withdrawn"} : offer' = [offer EXCEPT ![r][u] = st]
    BY <1>1 DEF AnswerCommit
  <2>2. UNCHANGED <<request, item, booked, offered>>  BY <1>1 DEF AnswerCommit
  <2>3. \A v \in User : PendingOf(v)' \subseteq PendingOf(v)
    BY <2>1 DEF PendingOf, LInv, IInv, TypeOK
  <2>4. QED  BY <2>2, <2>3 DEF Quiet, HeldBy, GivenBy, RequestsOf, LInv, IInv, TypeOK
<1>2. CASE CloseCommit(p)
  <2>1. r \in Request /\ request[r] = "active"
    BY <1>2, CommitHasRoom, CallParts DEF CloseCommit, Current
  <2>2. PICK st \in {"cancelled_by_requester", "request_expired"} :
           offer' = [offer EXCEPT ![r] = EndOffers(p, r, st)]
    BY <1>2 DEF CloseCommit
  <2>3. \A v \in User : PendingOf(v)' \subseteq PendingOf(v)
    BY <2>1, <2>2, EndedOffers DEF LInv, IInv
  <2>4. /\ UNCHANGED <<item, booked, offered>>
        /\ \A x \in Request : x # r => request'[x] = request[x]
    BY <1>2, <2>1 DEF CloseCommit, LInv, IInv, TypeOK
  <2>5. \A v \in User : RequestsOf(v)' \subseteq RequestsOf(v)
    BY <2>1, <2>4 DEF RequestsOf
  <2>6. QED  BY <2>3, <2>4, <2>5 DEF Quiet, HeldBy, GivenBy, LInv, IInv, TypeOK
<1>3. CASE BanCommit(p)
  <2>1. u \in User /\ handler[p].docs = BanDocs(u)
    BY <1>3, CommitHasRoom, CallParts DEF BanCommit, Current
  <2>2. \A x \in Request : /\ x \notin UndoneBy(u) => request'[x] = request[x]
                           /\ item'[x] = item[x] \/ item'[x].status = "hidden"
    <3>1. \A x \in Request : <<"request", x>> \in handler[p].docs => x \in UndoneBy(u)
      BY <2>1, BanDocsMembers
    <3>2. \A x \in Request : item'[x] \in {item[x],
             [item[x] EXCEPT !.status = "hidden", !.recipientOk = FALSE]}
      BY <1>3 DEF BanCommit
    <3>3. \A x \in Request :
             [item[x] EXCEPT !.status = "hidden", !.recipientOk = FALSE].status = "hidden"
      BY DEF LInv, IInv, TypeOK, LinkedItem
    <3>4. QED  BY <1>3, <3>1, <3>2, <3>3 DEF BanCommit
  <2>3. \A x \in UndoneBy(u) : request[x] = "fulfilled"
    BY DEF UndoneBy, LInv, IInv, Agreement, OffersFollowRequest
  <2>4. \A v \in User : /\ HeldBy(v)' \subseteq HeldBy(v) /\ GivenBy(v)' \subseteq GivenBy(v)
                        /\ RequestsOf(v)' \subseteq RequestsOf(v)
    BY <2>2, <2>3 DEF HeldBy, GivenBy, RequestsOf
  <2>5. \A v \in User : PendingOf(v)' \subseteq PendingOf(v)
    BY <1>3 DEF BanCommit, PendingOf
  <2>6. \A v \in User : booked'[v] <= booked[v] /\ offered'[v] <= offered[v]
    <3>1. \A v \in User : /\ booked'[v] \in {0, booked[v]} /\ offered'[v] \in {0, offered[v]}
                          /\ booked[v] \in Nat /\ offered[v] \in Nat
      BY <1>3, <2>1 DEF BanCommit, LInv, IInv, TypeOK
    <3>2. QED  BY <3>1
  <2>7. QED  BY <2>4, <2>5, <2>6 DEF Quiet
<1>4. CASE DeactivateCommit(p)
  <2>1. UNCHANGED <<request, offer, item, booked, offered>>
    BY <1>4 DEF DeactivateCommit, documents
  <2>2. QED
    BY <2>1 DEF Quiet, HeldBy, GivenBy, PendingOf, RequestsOf, LInv, IInv, TypeOK
<1>5. QED  BY <1>1, <1>2, <1>3, <1>4

LEMMA CommitRoom ==
    ASSUME LInv, TypeOK', NEW p \in Proc,
           \/ CreateCommit(p) \/ SubmitCommit(p) \/ AnswerCommit(p) \/ AcceptCommit(p)
           \/ CloseCommit(p) \/ BanCommit(p) \/ DeactivateCommit(p)
    PROVE  Within' /\ RoomKept'
<1>1. Within' /\ Counted(handler[p].docs)
  BY CreateCommitRoom, SubmitCommitRoom, AcceptCommitRoom, OtherCommitRoom
<1>2. PICK op : Commits(p, op)
  BY DEF CreateCommit, SubmitCommit, AnswerCommit, AcceptCommit, CloseCommit, BanCommit,
         DeactivateCommit
<1>3. QED  BY <1>1, <1>2, CommitsRoom

-----------------------------------------------------------------------------
(* The steps that are one update *)

\* A public item more for u.
LEMMA PublicRoom ==
    ASSUME LInv, TypeOK', NEW u \in User, PublicBook(u) \/ PublicOffer(u)
    PROVE  Within' /\ RoomKept'
<1>1. UNCHANGED <<request, offer, item>> /\ Written({<<"user", u>>})
  BY DEF PublicBook, PublicOffer
<1>2. \A v \in User : /\ HeldBy(v)' = HeldBy(v) /\ GivenBy(v)' = GivenBy(v)
                      /\ PendingOf(v)' = PendingOf(v) /\ RequestsOf(v)' = RequestsOf(v)
                      /\ v # u => booked'[v] = booked[v] /\ offered'[v] = offered[v]
                      /\ booked[v] \in Nat /\ offered[v] \in Nat
  BY <1>1 DEF HeldBy, GivenBy, PendingOf, RequestsOf, PublicBook, PublicOffer, LInv, IInv, TypeOK
<1>3. \/ booked'[u] <= booked[u] \/ Bookings(u)' <= MaxBookings
  <2>1. CASE PublicBook(u)
    <3>1. Bookings(u) < MaxBookings /\ booked'[u] = booked[u] + 1
      BY <2>1 DEF PublicBook, LInv, IInv, TypeOK
    <3>2. Cardinality(HeldBy(u)) \in Nat  BY SmallerSet DEF HeldBy
    <3>3. /\ Bookings(u) = Cardinality(HeldBy(u)) + booked[u]
          /\ Bookings(u)' = Cardinality(HeldBy(u)) + booked'[u]
      BY <1>2 DEF Bookings
    <3>4. QED  BY <1>2, <3>1, <3>2, <3>3, RequestsAssumption
  <2>2. CASE PublicOffer(u)  BY <1>2, <2>2 DEF PublicOffer
  <2>3. QED  BY <2>1, <2>2
<1>4. \/ offered'[u] <= offered[u] \/ Donations(u)' <= MaxActiveLevel2
  <2>1. CASE PublicOffer(u)
    <3>1. /\ Donations(u) < MaxActiveLevel1 \/ Donations(u) < MaxActiveLevel2
          /\ offered'[u] = offered[u] + 1
      BY <2>1 DEF PublicOffer, LInv, IInv, TypeOK
    <3>2. Cardinality(GivenBy(u)) \in Nat  BY SmallerSet DEF GivenBy
    <3>3. /\ Donations(u) = Cardinality(GivenBy(u)) + offered[u]
          /\ Donations(u)' = Cardinality(GivenBy(u)) + offered'[u]
      BY <1>2 DEF Donations
    <3>4. QED  BY <1>2, <3>1, <3>2, <3>3, RequestsAssumption
  <2>2. CASE PublicBook(u)  BY <1>2, <2>2 DEF PublicBook
  <2>3. QED  BY <2>1, <2>2
<1>5. \A v \in User : v # u => Quiet(v)  BY <1>2 DEF Quiet
<1>6. Within'  BY <1>2, <1>3, <1>4, WithinNext
<1>7. Counted({<<"user", u>>})  BY <1>5 DEF Counted
<1>8. QED  BY <1>1, <1>6, <1>7, WrittenRoom

LEMMA AtOnceRoom == ASSUME LInv, TypeOK', AtOnce PROVE Within' /\ RoomKept'
<1>1. ASSUME NEW x \in Request, RecipientConfirm(x) \/ DonorConfirm(x) \/ AdminDelete(x)
      PROVE  Within' /\ RoomKept'
  <2>1. PICK d : /\ item' = [item EXCEPT ![x] = d] /\ d.donor = item[x].donor
                 /\ d.status = "booked" => item[x].status = "booked"
    <3> DEFINE d1 == [item[x] EXCEPT !.recipientOk = TRUE]
               d2 == [item[x] EXCEPT !.status = "delivered"]
               d3 == [item[x] EXCEPT !.status = "deleted"]
    <3>1. \E d \in {d1, d2, d3} : item' = [item EXCEPT ![x] = d]
      BY <1>1 DEF RecipientConfirm, DonorConfirm, AdminDelete, LInv, IInv, TypeOK
    <3>2. item[x] \in LinkedItem  BY DEF LInv, IInv, TypeOK
    <3>3. \A d \in {d1, d2, d3} : /\ d.donor = item[x].donor
                                  /\ d.status = "booked" => item[x].status = "booked"
      BY <3>2 DEF LinkedItem
    <3>4. QED  BY <3>1, <3>3
  <2>2. UNCHANGED <<request, offer, booked, offered>> /\ \E D : Written(D)
    BY <1>1 DEF RecipientConfirm, DonorConfirm, AdminDelete
  <2>3. \A y \in Request : item'[y] = IF y = x THEN d ELSE item[y]
    BY <2>1 DEF LInv, IInv, TypeOK
  <2>4. \A v \in User : Quiet(v)
    BY <2>1, <2>2, <2>3 DEF Quiet, HeldBy, GivenBy, PendingOf, RequestsOf, LInv, IInv, TypeOK
  <2>5. QED  BY <2>2, <2>4, QuietStepRoom
<1>2. ASSUME NEW u \in User, PublicBookEnds(u) \/ PublicOfferEnds(u)
      PROVE  Within' /\ RoomKept'
  <2>1. UNCHANGED <<request, offer, item, handler>>
    BY <1>2 DEF PublicBookEnds, PublicOfferEnds
  <2>2. \A v \in User : booked'[v] <= booked[v] /\ offered'[v] <= offered[v]
    BY <1>2 DEF PublicBookEnds, PublicOfferEnds, LInv, IInv, TypeOK
  <2>3. \A v \in User : Quiet(v)
    BY <2>1, <2>2 DEF Quiet, HeldBy, GivenBy, PendingOf, RequestsOf
  <2>4. QED  BY <2>1, <2>3, QuietStepRoom
<1>3. ASSUME UNCHANGED <<request, offer, item, booked, offered>>,
             handler' = handler \/ \E D : Written(D)
      PROVE  Within' /\ RoomKept'
  <2>1. \A v \in User : Quiet(v)
    BY <1>3 DEF Quiet, HeldBy, GivenBy, PendingOf, RequestsOf, LInv, IInv, TypeOK
  <2>2. QED  BY <1>3, <2>1, QuietStepRoom
<1>4. ASSUME NEW r \in Request, RequestAges(r) PROVE Within' /\ RoomKept'
  BY <1>3, <1>4 DEF RequestAges
<1>5. ASSUME NEW u \in User, Unban(u) \/ Demote(u) \/ Promote(u) PROVE Within' /\ RoomKept'
  BY <1>3, <1>5 DEF Unban, Demote, Promote
<1>6. ASSUME NEW h \in Hub, Reactivate(h) PROVE Within' /\ RoomKept'
  BY <1>3, <1>6 DEF Reactivate
<1>7. QED  BY <1>1, <1>2, <1>4, <1>5, <1>6, PublicRoom, RequestsAssumption DEF AtOnce

-----------------------------------------------------------------------------
LEMMA LimitInit == Init => LInv
<1> SUFFICES ASSUME Init PROVE LInv
  OBVIOUS
<1>1. \A v \in User : /\ HeldBy(v) = {} /\ GivenBy(v) = {} /\ PendingOf(v) = {}
                      /\ RequestsOf(v) = {} /\ booked[v] = 0 /\ offered[v] = 0
  BY DEF Init, NoLink, HeldBy, GivenBy, PendingOf, RequestsOf
<1>2. Cardinality({}) = 0  BY FS_EmptySet
<1>3. Within
  <2>1. \A v \in User : /\ Bookings(v) = 0 /\ Donations(v) = 0
                        /\ Cardinality(PendingOf(v)) = 0 /\ Cardinality(RequestsOf(v)) = 0
    <3> SUFFICES ASSUME NEW v \in User
                 PROVE  /\ Bookings(v) = 0 /\ Donations(v) = 0
                        /\ Cardinality(PendingOf(v)) = 0 /\ Cardinality(RequestsOf(v)) = 0
      OBVIOUS
    <3>1. /\ Cardinality(HeldBy(v)) = 0 /\ Cardinality(GivenBy(v)) = 0
          /\ Cardinality(PendingOf(v)) = 0 /\ Cardinality(RequestsOf(v)) = 0
      BY <1>1, <1>2
    <3>2. QED  BY <1>1, <3>1 DEF Bookings, Donations
  <2>2. 0 <= MaxBookings /\ 0 <= MaxActiveLevel2 /\ 0 <= MaxPending /\ 0 <= MaxRequests
    BY RequestsAssumption
  <2>3. QED
    BY <2>1, <2>2
    DEF Within, BookingsWithinLimit, DonationsWithinLimit, PendingWithinLimit,
        RequestsWithinLimit
<1>4. RoomKept  BY DEF Init, Idle, RoomKept
<1>5. QED  BY <1>3, <1>4, InvInit DEF LInv

LEMMA LimitStep == LInv /\ [Next]_vars => LInv'
<1> SUFFICES ASSUME LInv, [Next]_vars PROVE LInv'
  OBVIOUS
<1>1. IInv'  BY InvStep DEF LInv
<1>2. TypeOK'  BY <1>1 DEF IInv
<1>3. CASE UNCHANGED vars
  <2>1. \A v \in User : Quiet(v)
    BY <1>3 DEF vars, documents, Quiet, HeldBy, GivenBy, PendingOf, RequestsOf, LInv, IInv, TypeOK
  <2>2. QED  BY <1>1, <1>2, <1>3, <2>1, QuietStepRoom DEF vars, LInv
<1>4. ASSUME NEW p \in Proc, ProcStep(p) \/ Arrival(p) PROVE Within' /\ RoomKept'
  BY <1>2, <1>4, BeginRoom, OtherOwnRoom, CommitRoom DEF ProcStep
<1>5. QED  BY <1>1, <1>2, <1>3, <1>4, AtOnceRoom DEF Next, LInv

LEMMA LimitAlways == Spec => []LInv
BY LimitInit, LimitStep, PTL DEF Spec

-----------------------------------------------------------------------------
(* The theorems *)

\* acceptOfferLogic and bookItemLogic count a student's bookings in transactions of
\* their own; both lock the student, so public and linked items together stay within
\* maxBookingsPerUser.
THEOREM BookingsLimited == Spec => []BookingsWithinLimit
<1>1. LInv => BookingsWithinLimit  BY DEF LInv, Within
<1>2. QED  BY <1>1, LimitAlways, PTL

\* The items a donor gives through accepted offers and through createItemLogic are
\* together no more than the larger limit of active donations.
THEOREM DonationsLimited == Spec => []DonationsWithinLimit
<1>1. LInv => DonationsWithinLimit  BY DEF LInv, Within
<1>2. QED  BY <1>1, LimitAlways, PTL

\* Concurrent calls of submitOfferLogic leave no donor with more than
\* maxPendingOffersPerDonor pending offers.
THEOREM PendingLimited == Spec => []PendingWithinLimit
<1>1. LInv => PendingWithinLimit  BY DEF LInv, Within
<1>2. QED  BY <1>1, LimitAlways, PTL

\* Concurrent calls of createRequestLogic leave nobody with more requests in a month
\* than maxActiveRequestsPerMonth.
THEOREM RequestsLimited == Spec => []RequestsWithinLimit
<1>1. LInv => RequestsWithinLimit  BY DEF LInv, Within
<1>2. QED  BY <1>1, LimitAlways, PTL

\* The four together, as one limit check over public and linked items, offers and
\* requests (acceptOfferLogic, bookItemLogic, submitOfferLogic, createRequestLogic).
THEOREM LimitsHold == Spec => []WithinLimits
<1>1. LInv => WithinLimits
  BY DEF LInv, Within, WithinLimits, BookingsWithinLimit, DonationsWithinLimit,
         PendingWithinLimit, RequestsWithinLimit
<1>2. QED  BY <1>1, LimitAlways, PTL
=============================================================================
