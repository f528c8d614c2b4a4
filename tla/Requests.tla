------------------------------- MODULE Requests -------------------------------
(***************************************************************************)
(* Donation requests, the offers they receive, and the item that answers    *)
(* one (services/donationRequestService.ts, services/hubService.ts, and     *)
(* what services/banConsequencesService.ts, services/itemService.ts and     *)
(* services/adminService.ts do to an item with linkedRequestId).            *)
(*                                                                          *)
(* Every handler below is one transaction.  At its begin it takes a         *)
(* snapshot and decides on it what it will write; it commits if none of     *)
(* those documents was written by anybody else since, and then finds them   *)
(* as the snapshot had them.  What it only read may have changed.           *)
(***************************************************************************)
EXTENDS Naturals, FiniteSets

CONSTANTS
    User, Request, Hub,
    Requester,       \* Requester[r] posts request r
    Proc,            \* requests and jobs being served at the same time
    NoUser, NoRequest, NoHub,
    MaxRequests,     \* settings.maxActiveRequestsPerMonth; the model is one month
    MaxPending,      \* settings.maxPendingOffersPerDonor
    MaxBookings,     \* settings.maxBookingsPerUser
    MaxActiveLevel1, \* settings.maxActiveDonationsPerUser
    MaxActiveLevel2, \* settings.maxActiveDonationsLevel2Plus
    Moderated,       \* the users moderators act on
    Ops              \* the operations a run lets happen

AllOps == {"create", "submit", "accept", "reject", "withdraw", "cancel", "expire",
           "confirm", "public", "ban", "trust", "delete", "hub"}

ASSUME RequestsAssumption ==
    /\ IsFiniteSet(User) /\ IsFiniteSet(Request)
    /\ Requester \in [Request -> User]
    /\ NoUser \notin User /\ NoRequest \notin Request /\ NoHub \notin Hub
    /\ Moderated \subseteq User
    /\ {MaxRequests, MaxPending, MaxBookings, MaxActiveLevel1, MaxActiveLevel2} \subseteq Nat
    /\ MaxActiveLevel1 <= MaxActiveLevel2
    /\ Ops \subseteq AllOps

VARIABLES
    request,         \* the status of every request
    past,            \* requests whose expiresAt has passed
    offer, hubOf,    \* offer[r][u], hubOf[r][u]: status and safeHub of u's offer for r
    item,            \* item[r]: the item linked to r
    banned, demoted, \* users with isBanned; users whose trustLevel is below 2
    inactive,        \* hubs that are not active
    booked, offered, \* public items each user holds, and has on offer
    handler          \* the handler of each process and its open transaction

documents == <<request, past, offer, hubOf, item, banned, demoted, inactive, booked, offered>>
vars == <<documents, handler>>

-----------------------------------------------------------------------------
(* Documents *)

RequestStatus == {"absent", "active", "fulfilled", "expired", "cancelled"}

OfferStatus == {"none", "pending", "accepted", "rejected", "withdrawn",
                "cancelled_by_requester", "cancelled_by_admin", "request_expired"}

LinkedItem == [status: {"absent", "booked", "delivered", "hidden", "deleted"},
               donor: User \cup {NoUser}, recipientOk: BOOLEAN]

NoLink == [status |-> "absent", donor |-> NoUser, recipientOk |-> FALSE]

Document == ({"request", "item"} \X Request) \cup ({"offer"} \X Request \X User)
            \cup ({"user"} \X User) \cup ({"hub"} \X Hub)

Pending(r) == {u \in User : offer[r][u] = "pending"}

Accepted(r) == {u \in User : offer[r][u] = "accepted"}

PendingOf(u) == {r \in Request : offer[r][u] = "pending"}

RequestsOf(u) == {r \in Request : Requester[r] = u /\ request[r] # "absent"}

\* Linked items u has booked, and linked items u gives.
HeldBy(u) == {r \in Request : item[r].status = "booked" /\ Requester[r] = u}
GivenBy(u) == {r \in Request : item[r].status = "booked" /\ item[r].donor = u}

Bookings(u) == Cardinality(HeldBy(u)) + booked[u]
Donations(u) == Cardinality(GivenBy(u)) + offered[u]

\* Requests with an active item, and with a pending offer, that names hub h.
ItemsAt(h) == {r \in Request : item[r].status = "booked" /\ hubOf[r][item[r].donor] = h}
OffersAt(h) == {r \in Request : \E u \in User : offer[r][u] = "pending" /\ hubOf[r][u] = h}

Open(r) == request[r] = "active" /\ r \notin past

DonationLimit(u) == IF u \in demoted THEN MaxActiveLevel1 ELSE MaxActiveLevel2

-----------------------------------------------------------------------------
(* Handlers *)

NoCall == [op |-> "none", request |-> NoRequest, user |-> NoUser, hub |-> NoHub]

\* An operation and the documents it names.
Call ==
    {NoCall}
    \cup [op: {"create", "cancel", "expire"}, request: Request, user: {NoUser}, hub: {NoHub}]
    \cup [op: {"submit"}, request: Request, user: User, hub: Hub \cup {NoHub}]
    \cup [op: {"accept", "reject", "withdraw"}, request: Request, user: User, hub: {NoHub}]
    \cup [op: {"ban"}, request: {NoRequest}, user: User, hub: {NoHub}]
    \cup [op: {"deactivate", "restore"}, request: {NoRequest}, user: {NoUser}, hub: Hub]

Idle == [pc |-> "idle", call |-> NoCall, docs |-> {}, stale |-> FALSE]

Handler == [pc: {"idle", "begin", "commit"}, call: Call, docs: SUBSET Document,
            stale: BOOLEAN]

Become(p, h) == handler' = [handler EXCEPT ![p] = h] /\ UNCHANGED documents

Arrives(p, c) ==
    /\ handler[p] = Idle
    /\ Become(p, [Idle EXCEPT !.pc = "begin", !.call = c])

\* At the start of p's transaction the checks of the callback give ok; if they
\* pass, it will write docs.
Begins(p, op, ok, docs) ==
    /\ handler[p].pc = "begin" /\ handler[p].call.op = op
    /\ Become(p, IF ok THEN [handler[p] EXCEPT !.pc = "commit", !.docs = docs] ELSE Idle)

\* D is written by somebody else than q.
Seen(q, D) == [handler[q] EXCEPT !.stale = @ \/ (handler[q].docs \cap D # {})]

Written(D) == handler' = [q \in Proc |-> Seen(q, D)]

Commits(p, op) ==
    /\ handler[p].pc = "commit" /\ handler[p].call.op = op
    /\ ~handler[p].stale
    /\ handler' = [q \in Proc |-> IF q = p THEN Idle ELSE Seen(q, handler[p].docs)]

\* A write conflict.  runMongoTransaction runs the callback again; the handlers
\* that manage their own session answer with an error.
Conflict(p) ==
    LET h == handler[p] IN
    /\ h.pc = "commit" /\ h.stale
    /\ Become(p, CASE h.call.op \in {"create", "submit", "accept", "ban", "deactivate"} ->
                        [Idle EXCEPT !.pc = "begin", !.call = h.call]
                   [] h.call.op = "restore" ->
                        [Idle EXCEPT !.pc = "begin", !.call = [h.call EXCEPT !.op = "deactivate"]]
                   [] OTHER -> Idle)

HubDoc(h) == {"hub"} \X ({h} \ {NoHub})

Init ==
    /\ request = [r \in Request |-> "absent"]
    /\ past = {}
    /\ offer = [r \in Request |-> [u \in User |-> "none"]]
    /\ hubOf = [r \in Request |-> [u \in User |-> NoHub]]
    /\ item = [r \in Request |-> NoLink]
    /\ banned = {} /\ demoted = {} /\ inactive = {}
    /\ booked = [u \in User |-> 0]
    /\ offered = [u \in User |-> 0]
    /\ handler = [p \in Proc |-> Idle]

-----------------------------------------------------------------------------
(* Posting a request: createRequestLogic *)

\* The middleware checks the ban and the handler the level; neither again later.
CreateRead(p, r) ==
    /\ "create" \in Ops
    /\ request[r] = "absent"
    /\ \A q \in Proc : handler[q].call.op = "create" => handler[q].call.request # r
    /\ Requester[r] \notin banned \cup demoted
    /\ Arrives(p, [NoCall EXCEPT !.op = "create", !.request = r])

CreateDocs(r) == {<<"user", Requester[r]>>, <<"request", r>>}

CreateBegin(p) ==
    LET r == handler[p].call.request IN
    Begins(p, "create", Cardinality(RequestsOf(Requester[r])) < MaxRequests, CreateDocs(r))

CreateCommit(p) ==
    LET r == handler[p].call.request IN
    /\ Commits(p, "create")
    /\ request' = [request EXCEPT ![r] = "active"]
    /\ UNCHANGED <<past, offer, hubOf, item, banned, demoted, inactive, booked, offered>>

-----------------------------------------------------------------------------
(* Offers: submitOfferLogic, rejectOfferLogic, withdrawOfferLogic *)

CanSubmit(r, u, h) == Open(r) /\ offer[r][u] = "none" /\ h \notin inactive

SubmitRead(p, r, u, h) ==
    /\ "submit" \in Ops
    /\ CanSubmit(r, u, h)
    /\ u # Requester[r] /\ u \notin banned
    /\ Arrives(p, [op |-> "submit", request |-> r, user |-> u, hub |-> h])

\* Mutant: the request is not touched.
SubmitDocsNoRequest(r, u, h) == {<<"user", u>>, <<"offer", r, u>>} \cup HubDoc(h)

\* The request is touched, the hub acquired and the donor locked, for the sake
\* of conflicts.
SubmitDocs(r, u, h) ==
    {<<"user", u>>, <<"request", r>>, <<"offer", r, u>>} \cup HubDoc(h)

SubmitBegin(p) ==
    LET c == handler[p].call IN
    Begins(p, "submit",
           /\ CanSubmit(c.request, c.user, c.hub)
           /\ Cardinality(PendingOf(c.user)) < MaxPending,
           SubmitDocs(c.request, c.user, c.hub))

SubmitCommit(p) ==
    LET c == handler[p].call IN
    /\ Commits(p, "submit")
    /\ offer' = [offer EXCEPT ![c.request][c.user] = "pending"]
    /\ hubOf' = [hubOf EXCEPT ![c.request][c.user] = c.hub]
    /\ UNCHANGED <<request, past, item, banned, demoted, inactive, booked, offered>>

\* The requester declines an offer, or its donor takes it back.
Answer(p, op, caller, r, u) ==
    /\ op \in Ops
    /\ offer[r][u] # "none"
    /\ caller \notin banned
    /\ Arrives(p, [NoCall EXCEPT !.op = op, !.request = r, !.user = u])

RejectRead(p, r, u) == Answer(p, "reject", Requester[r], r, u)
WithdrawRead(p, r, u) == Answer(p, "withdraw", u, r, u)

AnswerBegin(p) ==
    LET c == handler[p].call IN
    \E op \in {"reject", "withdraw"} :
        Begins(p, op, Open(c.request) /\ offer[c.request][c.user] = "pending",
               {<<"offer", c.request, c.user>>})

AnswerCommit(p) ==
    LET c == handler[p].call IN
    \E op \in {"reject", "withdraw"} :
        /\ Commits(p, op)
        /\ offer' = [offer EXCEPT ![c.request][c.user] =
                         IF op = "reject" THEN "rejected" ELSE "withdrawn"]
        /\ UNCHANGED <<request, past, hubOf, item, banned, demoted, inactive, booked, offered>>

-----------------------------------------------------------------------------
(* Accepting an offer: acceptOfferLogic *)

AcceptRead(p, r, u) == Answer(p, "accept", Requester[r], r, u)

CanAccept(r, u) ==
    /\ Open(r) /\ offer[r][u] = "pending"
    /\ Requester[r] \notin banned \cup demoted
    /\ u \notin banned
    /\ hubOf[r][u] \notin inactive
    /\ Bookings(Requester[r]) < MaxBookings
    /\ Donations(u) < DonationLimit(u)

\* Mutant: the requester is not locked.
AcceptDocsNoRequester(r, u) ==
    {<<"request", r>>, <<"item", r>>, <<"user", u>>} \cup HubDoc(hubOf[r][u])
    \cup {<<"offer", r, v>> : v \in Pending(r)}

AcceptDocs(r, u) ==
    {<<"request", r>>, <<"item", r>>, <<"user", Requester[r]>>, <<"user", u>>}
    \cup HubDoc(hubOf[r][u]) \cup {<<"offer", r, v>> : v \in Pending(r)}

AcceptBegin(p) ==
    LET c == handler[p].call IN
    Begins(p, "accept", CanAccept(c.request, c.user), AcceptDocs(c.request, c.user))

\* The offers p's transaction writes are given the status st.
EndOffers(p, r, st) ==
    [u \in User |-> IF <<"offer", r, u>> \in handler[p].docs THEN st ELSE offer[r][u]]

AcceptCommit(p) ==
    LET r == handler[p].call.request   u == handler[p].call.user IN
    /\ Commits(p, "accept")
    /\ request' = [request EXCEPT ![r] = "fulfilled"]
    /\ offer' = [offer EXCEPT ![r] = [EndOffers(p, r, "rejected") EXCEPT ![u] = "accepted"]]
    /\ item' = [item EXCEPT ![r] = [status |-> "booked", donor |-> u, recipientOk |-> FALSE]]
    /\ UNCHANGED <<past, hubOf, banned, demoted, inactive, booked, offered>>

-----------------------------------------------------------------------------
(* The request ends without an item: cancelRequestLogic, expireSingleRequest *)

CancelRead(p, r) ==
    /\ "cancel" \in Ops
    /\ request[r] # "absent"
    /\ Requester[r] \notin banned
    /\ Arrives(p, [NoCall EXCEPT !.op = "cancel", !.request = r])

\* expiresAt passes.
RequestAges(r) ==
    /\ "expire" \in Ops
    /\ Open(r)
    /\ past' = past \cup {r}
    /\ UNCHANGED <<request, offer, hubOf, item, banned, demoted, inactive, booked,
                   offered, handler>>

\* Mutant: a request with offers waits for its requester.
ExpirableUnanswered(r) == request[r] = "active" /\ r \in past /\ Pending(r) = {}

Expirable(r) == request[r] = "active" /\ r \in past

ExpireScan(p, r) ==
    /\ "expire" \in Ops
    /\ Expirable(r)
    /\ Arrives(p, [NoCall EXCEPT !.op = "expire", !.request = r])

CloseDocs(r) == {<<"request", r>>} \cup {<<"offer", r, u>> : u \in Pending(r)}

CloseBegin(p) ==
    LET r == handler[p].call.request IN
    \/ Begins(p, "cancel", Open(r), CloseDocs(r))
    \/ Begins(p, "expire", Expirable(r), CloseDocs(r))

CloseCommit(p) ==
    LET r == handler[p].call.request IN
    \/ /\ Commits(p, "cancel")
       /\ request' = [request EXCEPT ![r] = "cancelled"]
       /\ offer' = [offer EXCEPT ![r] = EndOffers(p, r, "cancelled_by_requester")]
       /\ UNCHANGED <<past, hubOf, item, banned, demoted, inactive, booked, offered>>
    \/ /\ Commits(p, "expire")
       /\ request' = [request EXCEPT ![r] = "expired"]
       /\ offer' = [offer EXCEPT ![r] = EndOffers(p, r, "request_expired")]
       /\ UNCHANGED <<past, hubOf, item, banned, demoted, inactive, booked, offered>>

-----------------------------------------------------------------------------
(* The linked item: completeDeliveryLogic, the moderator's deleteItem *)

\* Linked items have no deadline and no other way out: assertGenericLifecycleAllowed.
RecipientConfirm(r) ==
    /\ "confirm" \in Ops
    /\ Requester[r] \notin banned
    /\ item[r].status = "booked" /\ ~item[r].recipientOk
    /\ item' = [item EXCEPT ![r].recipientOk = TRUE]
    /\ Written({<<"item", r>>})
    /\ UNCHANGED <<request, past, offer, hubOf, banned, demoted, inactive, booked, offered>>

DonorConfirm(r) ==
    /\ "confirm" \in Ops
    /\ item[r].status = "booked" /\ item[r].recipientOk
    /\ item[r].donor \notin banned
    /\ item' = [item EXCEPT ![r].status = "delivered"]
    /\ Written({<<"item", r>>, <<"user", item[r].donor>>})
    /\ UNCHANGED <<request, past, offer, hubOf, banned, demoted, inactive, booked, offered>>

AdminDelete(r) ==
    /\ "delete" \in Ops
    /\ item[r].status \notin {"absent", "deleted"}
    /\ item' = [item EXCEPT ![r].status = "deleted"]
    /\ Written({<<"item", r>>})
    /\ UNCHANGED <<request, past, offer, hubOf, banned, demoted, inactive, booked, offered>>

-----------------------------------------------------------------------------
(* Public items, as far as the limits they share with linked ones go: a booking *)
(* or a publication locks the user and counts both kinds; module Booking has    *)
(* the rest.                                                                    *)

PublicBook(u) ==
    /\ "public" \in Ops
    /\ Bookings(u) < MaxBookings
    /\ booked' = [booked EXCEPT ![u] = @ + 1]
    /\ Written({<<"user", u>>})
    /\ UNCHANGED <<request, past, offer, hubOf, item, banned, demoted, inactive, offered>>

PublicBookEnds(u) ==
    /\ booked[u] > 0
    /\ booked' = [booked EXCEPT ![u] = @ - 1]
    /\ UNCHANGED <<request, past, offer, hubOf, item, banned, demoted, inactive, offered, handler>>

\* createItemLogic reads the level before its transaction: the limit is either.
PublicOffer(u) ==
    /\ "public" \in Ops
    /\ \E limit \in {MaxActiveLevel1, MaxActiveLevel2} : Donations(u) < limit
    /\ offered' = [offered EXCEPT ![u] = @ + 1]
    /\ Written({<<"user", u>>})
    /\ UNCHANGED <<request, past, offer, hubOf, item, banned, demoted, inactive, booked>>

PublicOfferEnds(u) ==
    /\ offered[u] > 0
    /\ offered' = [offered EXCEPT ![u] = @ - 1]
    /\ UNCHANGED <<request, past, offer, hubOf, item, banned, demoted, inactive, booked, handler>>

-----------------------------------------------------------------------------
(* Moderation *)

BanStart(p, u) ==
    /\ "ban" \in Ops
    /\ Arrives(p, [NoCall EXCEPT !.op = "ban", !.user = u])

\* Mutant: delivered exchanges are undone too.
UndoneByDelivered(u) ==
    {r \in Request : /\ item[r].status \in {"booked", "delivered"}
                    /\ u \in {Requester[r], item[r].donor}}

\* The exchanges a ban of u undoes.
UndoneBy(u) ==
    {r \in Request : item[r].status = "booked" /\ u \in {Requester[r], item[r].donor}}

BanDocs(u) ==
    {<<"user", u>>} \cup ({"item", "request"} \X UndoneBy(u))
    \cup UNION {{"offer"} \X {r} \X Accepted(r) : r \in UndoneBy(u)}

BanBegin(p) ==
    Begins(p, "ban", TRUE, BanDocs(handler[p].call.user))

BanCommit(p) ==
    LET u == handler[p].call.user   D == handler[p].docs IN
    /\ Commits(p, "ban")
    /\ banned' = banned \cup {u}
    /\ request' = [r \in Request |-> IF <<"request", r>> \in D THEN "cancelled" ELSE request[r]]
    /\ offer' = [r \in Request |-> [v \in User |->
                    IF <<"offer", r, v>> \in D THEN "cancelled_by_admin" ELSE offer[r][v]]]
    /\ item' = [r \in Request |->
                   IF <<"item", r>> \in D
                   THEN [item[r] EXCEPT !.status = "hidden", !.recipientOk = FALSE] ELSE item[r]]
    /\ booked' = [booked EXCEPT ![u] = 0]
    /\ offered' = [offered EXCEPT ![u] = 0]
    /\ UNCHANGED <<past, hubOf, demoted, inactive>>

Unban(u) ==
    /\ u \in banned
    /\ banned' = banned \ {u}
    /\ Written({<<"user", u>>})
    /\ UNCHANGED <<request, past, offer, hubOf, item, demoted, inactive, booked, offered>>

\* demoteToLevel1
Demote(u) ==
    /\ "trust" \in Ops
    /\ u \notin demoted
    /\ demoted' = demoted \cup {u}
    /\ Written({<<"user", u>>})
    /\ UNCHANGED <<request, past, offer, hubOf, item, banned, inactive, booked, offered>>

\* promoteToLevel2
Promote(u) ==
    /\ u \in demoted /\ u \notin banned
    /\ demoted' = demoted \ {u}
    /\ Written({<<"user", u>>})
    /\ UNCHANGED <<request, past, offer, hubOf, item, banned, inactive, booked, offered>>

-----------------------------------------------------------------------------
(* Hubs: deactivateHub, reactivateHub *)

DeactivateStart(p, h) ==
    /\ "hub" \in Ops
    /\ h \notin inactive
    /\ Arrives(p, [NoCall EXCEPT !.op = "deactivate", !.hub = h])

\* beginDeactivation and restoreActive write the hub although nothing changes.
DeactivateBegin(p) ==
    LET h == handler[p].call.hub IN
    /\ handler[p].pc = "begin" /\ handler[p].call.op = "deactivate"
    /\ Become(p, CASE h \in inactive -> Idle
                   [] h \notin inactive /\ ItemsAt(h) = {} /\ OffersAt(h) = {} ->
                        [handler[p] EXCEPT !.pc = "commit", !.docs = HubDoc(h)]
                   [] OTHER ->
                        [handler[p] EXCEPT !.pc = "commit", !.docs = HubDoc(h),
                                           !.call.op = "restore"])

DeactivateCommit(p) ==
    \/ /\ Commits(p, "deactivate")
       /\ inactive' = inactive \cup {handler[p].call.hub}
       /\ UNCHANGED <<request, past, offer, hubOf, item, banned, demoted, booked, offered>>
    \/ /\ Commits(p, "restore")
       /\ UNCHANGED documents

Reactivate(h) ==
    /\ h \in inactive
    /\ inactive' = inactive \ {h}
    /\ Written(HubDoc(h))
    /\ UNCHANGED <<request, past, offer, hubOf, item, banned, demoted, booked, offered>>

-----------------------------------------------------------------------------
ProcStep(p) ==
    \/ CreateBegin(p) \/ CreateCommit(p) \/ SubmitBegin(p) \/ SubmitCommit(p)
    \/ AnswerBegin(p) \/ AnswerCommit(p) \/ AcceptBegin(p) \/ AcceptCommit(p)
    \/ CloseBegin(p) \/ CloseCommit(p) \/ BanBegin(p) \/ BanCommit(p)
    \/ DeactivateBegin(p) \/ DeactivateCommit(p) \/ Conflict(p)

Arrival(p) ==
    \/ \E r \in Request : CreateRead(p, r) \/ CancelRead(p, r) \/ ExpireScan(p, r)
    \/ \E r \in Request, u \in User :
          \/ RejectRead(p, r, u) \/ WithdrawRead(p, r, u) \/ AcceptRead(p, r, u)
          \/ \E h \in Hub \cup {NoHub} : SubmitRead(p, r, u, h)
    \/ \E u \in Moderated : BanStart(p, u)
    \/ \E h \in Hub : DeactivateStart(p, h)

AtOnce ==
    \/ \E r \in Request :
          RequestAges(r) \/ RecipientConfirm(r) \/ DonorConfirm(r) \/ AdminDelete(r)
    \/ \E u \in User :
          PublicBook(u) \/ PublicBookEnds(u) \/ PublicOffer(u) \/ PublicOfferEnds(u)
    \/ \E u \in Moderated : Unban(u) \/ Demote(u) \/ Promote(u)
    \/ \E h \in Hub : Reactivate(h)

Next == (\E p \in Proc : ProcStep(p) \/ Arrival(p)) \/ AtOnce

Spec == Init /\ [][Next]_vars

-----------------------------------------------------------------------------
(* What the code promises *)

\* Every document and handler is well formed.
TypeOK ==
    /\ request \in [Request -> RequestStatus]
    /\ past \subseteq Request
    /\ offer \in [Request -> [User -> OfferStatus]]
    /\ hubOf \in [Request -> [User -> Hub \cup {NoHub}]]
    /\ item \in [Request -> LinkedItem]
    /\ banned \subseteq User
    /\ demoted \subseteq User
    /\ inactive \subseteq Hub
    /\ booked \in [User -> Nat]
    /\ offered \in [User -> Nat]
    /\ handler \in [Proc -> Handler]

\* Request, offers and item tell one story.  Only an active request has pending
\* offers, whatever was being submitted when it closed; a request is fulfilled
\* exactly when one offer is accepted, and its item is that donor's; no two
\* acceptances both go through.
OffersFollowRequest == \A r \in Request :
    /\ Pending(r) # {} => request[r] = "active"
    /\ request[r] = "fulfilled" =>
          item[r].status \in {"booked", "delivered", "deleted"} /\ Accepted(r) = {item[r].donor}
    /\ request[r] # "fulfilled" =>
          item[r].status \in {"absent", "hidden", "deleted"} /\ Accepted(r) = {}

\* An exchange that is under way is between two users who are not banned: no
\* acceptance slips past a ban, and a ban undoes what was accepted before.
ExchangesAmongAllowed == \A r \in Request :
    item[r].status = "booked" => banned \cap {Requester[r], item[r].donor} = {}

\* A hub that is not active is named by no pending offer and by no linked item
\* still to be handed over.
HubsInUseStayOpen == \A h \in inactive : ItemsAt(h) = {} /\ OffersAt(h) = {}

\* The three together: what an exchange promises both parties and the hub.
ExchangeSound == OffersFollowRequest /\ ExchangesAmongAllowed /\ HubsInUseStayOpen

\* What a transaction that can still commit saw and would write is what it
\* finds: nobody changed the request, the offers, the users or the hub it decided
\* on, and it ends every offer that is pending now.
Current(h) ==
    LET r == h.call.request   u == h.call.user   op == h.call.op IN
    /\ op = "create" => request[r] = "absent" /\ h.docs = CreateDocs(r)
    /\ op = "submit" => /\ request[r] = "active" /\ offer[r][u] = "none"
                        /\ h.call.hub \notin inactive
                        /\ h.docs = SubmitDocs(r, u, h.call.hub)
    /\ op \in {"reject", "withdraw"} => /\ offer[r][u] = "pending"
                                       /\ h.docs = {<<"offer", r, u>>}
    /\ op = "accept" => /\ request[r] = "active" /\ offer[r][u] = "pending"
                        /\ {Requester[r], u} \cap banned = {} /\ hubOf[r][u] \notin inactive
                        /\ h.docs = AcceptDocs(r, u)
    /\ op \in {"cancel", "expire"} => request[r] = "active" /\ h.docs = CloseDocs(r)
    /\ op = "ban" => h.docs = BanDocs(u)
    /\ op = "deactivate" => /\ ItemsAt(h.call.hub) = {} /\ OffersAt(h.call.hub) = {}
                            /\ h.docs = HubDoc(h.call.hub)
    /\ op = "restore" => h.docs = HubDoc(h.call.hub)

SnapshotsCurrent == \A p \in Proc :
    handler[p].pc = "commit" /\ ~handler[p].stale => Current(handler[p])

\* The limits count public and linked items together, and hold over all the
\* transactions that counted on a snapshot.
BookingsWithinLimit == \A u \in User : Bookings(u) <= MaxBookings
DonationsWithinLimit == \A u \in User : Donations(u) <= MaxActiveLevel2

\* A student has no more pending offers, and posts no more requests in a month,
\* than the settings allow.
PendingWithinLimit == \A u \in User : Cardinality(PendingOf(u)) <= MaxPending
RequestsWithinLimit == \A u \in User : Cardinality(RequestsOf(u)) <= MaxRequests

\* The four limits together.
WithinLimits == \A u \in User :
    /\ Bookings(u) <= MaxBookings /\ Donations(u) <= MaxActiveLevel2
    /\ Cardinality(PendingOf(u)) <= MaxPending /\ Cardinality(RequestsOf(u)) <= MaxRequests

\* A delivered exchange keeps its history: no ban and no late handler changes
\* the request, its offers or its item; a moderator may delete the item.
DeliveredKeepsHistory ==
    [][\A r \in Request : item[r].status = "delivered" =>
          /\ request'[r] = request[r] /\ offer'[r] = offer[r]
          /\ item'[r].donor = item[r].donor /\ item'[r].recipientOk
          /\ item'[r].status \in {"delivered", "deleted"}]_vars

\* FULL-REVIEW-FIXES.md:21 ("For request-linked moderation, an unfinished exchange
\* is cancelled and archived"): an exchange a moderator ends is not left fulfilled.
ModeratedIsCancelled ==
    [][\A r \in Request : AdminDelete(r) /\ item[r].status = "booked" =>
          request'[r] = "cancelled"]_vars

\* The job looks at every overdue request again and again, whatever handlers are
\* being served, and handlers run on.
Fairness ==
    /\ \A p \in Proc : WF_vars(ProcStep(p))
    /\ \A r \in Request : SF_vars(\E p \in Proc : ExpireScan(p, r))

FairSpec == Spec /\ Fairness

\* A request past its date is closed in the end, even when offers keep coming
\* and transactions keep conflicting, and so are the offers it received.
OverdueRequestsClose == \A r \in Request :
    r \in past ~> request[r] # "active" /\ Pending(r) = {}
=============================================================================
