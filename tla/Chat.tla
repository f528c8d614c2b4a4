-------------------------------- MODULE Chat --------------------------------
(***************************************************************************)
(* One conversation: between the two parties of a booking, or a support     *)
(* thread that a member of staff takes on (services/conversationService.ts, *)
(* services/supportService.ts).  Its messages are sent, broadcast to the    *)
(* sockets in the conversation's room, and marked read by                   *)
(* socket/chatHandlers.ts over repositories/conversationRepository.ts.      *)
(*                                                                          *)
(* A message is its clientMessageId; an attempt is one send_message event,  *)
(* and a client that got no answer sends the same message again.  Every     *)
(* user has one socket, with one join_room and one mark_read under way.     *)
(***************************************************************************)
EXTENDS Naturals, FiniteSets

CONSTANTS
    Staff,      \* administrators; one of them is the donor of the booking
    Requester,  \* who booked, or asks for support
    Message,
    Attempt,    \* send_message events
    NoUser,
    MaxAway,    \* bound of the model only: staff that leave
    Joiner,     \* bound of the model only: who joins the room
    MaxFaults   \* bound of the model only: failures

User == Staff \cup {Requester}

ASSUME ChatAssumption == Requester \notin Staff /\ NoUser \notin User /\ {MaxAway, MaxFaults} \subseteq Nat

VARIABLES
    conv,    \* the conversation document, its item and ticket
    away,    \* staff banned, frozen or no longer staff
    room,    \* users whose socket is in the conversation's room
    join,    \* join_room under way for each user
    page,    \* the messages of others it read, to be answered with
    marking, \* mark_read under way for each user; stray: his socket left since
    claim,   \* claimSupport under way for each member of staff
    send,    \* the attempts
    author,  \* who sends each message
    stored,  \* messages stored
    casts,   \* broadcasts of each message
    saw,     \* which messages were sent to whose socket, in a page or live
    lost,    \* history: which never reached whom, as a handler of his failed or
             \* his socket left the room during one
    noted,   \* who was notified of which message
    read,    \* messages marked read
    late,    \* users whose join overlapped the hand-over of the thread, or whose
             \* eviction was lost
    cut,     \* messages whose sending stopped after they were stored
    faults

joining  == <<join, page, marking>>
sending  == <<send, author, stored, casts>>
reading  == <<saw, lost, noted, read>>
chatVars == <<conv, away, room, joining, claim, sending, reading, late, cut, faults>>

NoClaim == [pc |-> "idle", owner |-> NoUser, status |-> "open", back |-> FALSE]
NoSend  == [pc |-> "new", by |-> NoUser, msg |-> {}, parts |-> {}]

ChatInit ==
    /\ conv \in [kind : {"booking", "support"}, exists : {FALSE}, owner : {NoUser},
                 status : {"open"}, open : {TRUE}]
    /\ away = {} /\ room = {} /\ late = {} /\ cut = {}
    /\ join = [u \in User |-> "idle"]
    /\ page = [u \in User |-> {}]
    /\ marking = [u \in User |-> "idle"]
    /\ claim = [s \in Staff |-> NoClaim]
    /\ send = [x \in Attempt |-> NoSend]
    /\ author = [m \in Message |-> NoUser]
    /\ stored = {} /\ saw = {} /\ lost = {} /\ noted = {} /\ read = {}
    /\ casts = [m \in Message |-> 0]
    /\ faults = 0

Fault == faults < MaxFaults /\ faults' = faults + 1

Parts == IF conv.owner = NoUser THEN {Requester} ELSE {conv.owner, Requester}

CanSend == conv.open /\ conv.status # "resolved"

-----------------------------------------------------------------------------
(* The thread *)

\* openConversation between the parties of the booking, or openSupport, which
\* reopens a resolved thread.  Both upsert under a unique key.
Open(donor) ==
    /\ IF conv.kind = "booking"
       THEN /\ conv.open /\ ~conv.exists /\ donor \in Staff
            /\ conv' = [conv EXCEPT !.exists = TRUE, !.owner = donor]
       ELSE /\ donor = NoUser /\ (conv.exists => conv.status = "resolved")
            /\ conv' = [conv EXCEPT !.exists = TRUE, !.status = IF conv.exists THEN "open" ELSE @]
    /\ UNCHANGED <<away, room, joining, claim, sending, reading, late, cut, faults>>

\* The booking ends, or the thread is archived with its item or a banned party.
EndBooking ==
    /\ conv.kind = "booking" /\ conv.open
    /\ conv' = [conv EXCEPT !.open = FALSE]
    /\ UNCHANGED <<away, room, joining, claim, sending, reading, late, cut, faults>>

Retire(s) ==
    /\ conv.kind = "support" /\ s \notin away /\ Cardinality(away) < MaxAway
    /\ away' = away \cup {s}
    /\ UNCHANGED <<conv, room, joining, claim, sending, reading, late, cut, faults>>

\* unbanUser, and whatever else makes him staff again; a claim that saw him away
\* goes on.
Return(s) ==
    /\ s \in away
    /\ away' = away \ {s}
    /\ claim' = [t \in Staff |-> IF claim[t].pc = "commit" /\ claim[t].owner = s
                                  THEN [claim[t] EXCEPT !.back = TRUE] ELSE claim[t]]
    /\ UNCHANGED <<conv, room, joining, sending, reading, late, cut, faults>>

\* claimSupport reads the ticket, then its owner: another's is only taken over if
\* he is away.
ClaimRead(s) ==
    /\ conv.kind = "support" /\ conv.exists /\ claim[s].pc = "idle"
    /\ claim' = [claim EXCEPT ![s] = [pc |-> "look", owner |-> conv.owner, status |-> conv.status,
                                      back |-> FALSE]]
    /\ UNCHANGED <<conv, away, room, joining, sending, reading, late, cut, faults>>

ClaimLook(s) ==
    /\ claim[s].pc = "look"
    /\ claim' = [claim EXCEPT ![s] = IF claim[s].owner \in {NoUser, s} \cup away
                                     THEN [claim[s] EXCEPT !.pc = "commit"] ELSE NoClaim]
    /\ UNCHANGED <<conv, away, room, joining, sending, reading, late, cut, faults>>

\* Mutant: the filter compares the status but not the owner.
SameStatus(s) == conv.status = claim[s].status

SameTicket(s) == conv.status = claim[s].status /\ conv.owner = claim[s].owner

ClaimCommit(s) ==
    /\ claim[s].pc = "commit"
    /\ IF SameTicket(s)
       THEN /\ conv' = [conv EXCEPT !.owner = s, !.status = "in_progress"]
            /\ claim' = [claim EXCEPT ![s].pc = IF claim[s].owner \in {NoUser, s} THEN "idle" ELSE "evict"]
            /\ late' = late \cup {u \in {claim[s].owner} \ {NoUser, s} : join[u] = "join"}
       ELSE claim' = [claim EXCEPT ![s] = NoClaim] /\ UNCHANGED <<conv, late>>
    /\ UNCHANGED <<away, room, joining, sending, reading, cut, faults>>

\* What users whose sockets leave now lose: what was marked read before it reached
\* them.  Their mark_read, if it is under way, goes on.
Unheard(us) == {p \in (us \X read) \ saw : author[p[2]] # p[1]}

Depart(us) ==
    /\ room' = room \ us
    /\ lost' = lost \cup Unheard(us \cap room)
    /\ marking' = [u \in User |-> IF u \in us /\ marking[u] = "checked" THEN "stray" ELSE marking[u]]

\* Mutant: the previous owner's socket stays.
Stays(s) == {}

Evicted(s) == {claim[s].owner}

\* socketsLeave of the previous owner, unless the process dies first.
ClaimEvict(s) ==
    /\ claim[s].pc = "evict"
    /\ \/ Depart(Evicted(s)) /\ UNCHANGED <<late, faults>>
       \/ Fault /\ late' = late \cup {claim[s].owner} /\ UNCHANGED <<room, lost, marking>>
    /\ claim' = [claim EXCEPT ![s] = NoClaim]
    /\ UNCHANGED <<conv, away, join, page, sending, saw, noted, read, cut>>

Resolve(s) ==
    /\ conv.kind = "support" /\ conv.owner = s /\ conv.status # "resolved"
    /\ conv' = [conv EXCEPT !.status = "resolved"]
    /\ UNCHANGED <<away, room, joining, claim, sending, reading, late, cut, faults>>

-----------------------------------------------------------------------------
(* join_room, leave_room, mark_read *)

JoinCheck(u) ==
    /\ conv.exists /\ u \in Parts \cap Joiner /\ join[u] = "idle"
    /\ join' = [join EXCEPT ![u] = "join"]
    /\ late' = late \ {u}
    /\ UNCHANGED <<conv, away, room, page, marking, claim, sending, reading, cut, faults>>

Enter(u) ==
    /\ join[u] = "join"
    /\ room' = room \cup {u}
    /\ join' = [join EXCEPT ![u] = "page"]
    /\ UNCHANGED <<conv, away, page, marking, claim, sending, reading, late, cut, faults>>

Others(u) == {m \in stored : author[m] # u}

\* What did not reach the socket and will not.
Unseen(u) == ({u} \X Others(u)) \ saw

\* The page of messages is read when the socket is in the room already.
Page(u) ==
    /\ join[u] = "page"
    /\ page' = [page EXCEPT ![u] = Others(u)]
    /\ join' = [join EXCEPT ![u] = "mark"]
    /\ UNCHANGED <<conv, away, room, marking, claim, sending, reading, late, cut, faults>>

Joined(u) ==
    /\ join' = [join EXCEPT ![u] = "idle"]
    /\ page' = [page EXCEPT ![u] = {}]
    /\ late' = IF u \in room THEN late ELSE late \ {u}
    /\ UNCHANGED <<conv, away, room, marking, claim, sending, noted, cut>>

\* markMessagesRead marks whatever is stored by now, and the answer brings the page,
\* unless the socket left the room with its connection.
MarkJoined(u) ==
    /\ join[u] = "mark" /\ Joined(u)
    /\ read' = read \cup Others(u)
    /\ \/ u \in room /\ saw' = saw \cup ({u} \X page[u]) /\ UNCHANGED lost
       \/ /\ u \notin room
          /\ \E got \in {{}, page[u]} : saw' = saw \cup ({u} \X got)
          /\ lost' = lost \cup Unseen(u)
    /\ UNCHANGED faults

\* The page cannot be read, or the update reports an error, applied or not: the
\* answer is an error, and the socket is in the room.
JoinFails(u) ==
    /\ join[u] \in {"page", "mark"} /\ Fault /\ Joined(u)
    /\ read' \in {read, IF join[u] = "mark" THEN read \cup Others(u) ELSE read}
    /\ lost' = lost \cup Unseen(u)
    /\ UNCHANGED saw

\* Mutant: mark_read does not look whether the socket is in the room.
MayMarkAlways(u) == TRUE

MayMark(u) == u \in room

MarkCheck(u) ==
    /\ conv.exists /\ u \in Parts /\ marking[u] = "idle" /\ MayMark(u)
    /\ marking' = [marking EXCEPT ![u] = "checked"]
    /\ UNCHANGED <<conv, away, room, join, page, claim, sending, reading, late, cut, faults>>

\* The update may fail; when it was applied nevertheless that is no different here.
MarkRead(u) ==
    /\ marking[u] # "idle"
    /\ \/ /\ read' = read \cup Others(u)
          /\ lost' = IF marking[u] = "stray" THEN lost \cup Unseen(u) ELSE lost
          /\ UNCHANGED faults
       \/ Fault /\ UNCHANGED <<read, lost>>
    /\ marking' = [marking EXCEPT ![u] = "idle"]
    /\ UNCHANGED <<conv, away, room, join, page, claim, sending, saw, noted, late, cut>>

\* leave_room, or the connection is lost; a join under way goes on.
Leave(u) ==
    /\ u \in room /\ Depart({u})
    /\ late' = IF join[u] = "join" THEN late ELSE late \ {u}
    /\ UNCHANGED <<conv, away, join, page, claim, sending, saw, noted, read, cut, faults>>

-----------------------------------------------------------------------------
(* send_message *)

Goes(x, pc) == [send EXCEPT ![x].pc = pc]

\* assertParticipant, canSendInConversation and the room; the quota is awaited
\* after them, and may refuse.
Send(x, u, m) ==
    /\ send[x].pc = "new"
    /\ conv.exists /\ u \in Parts /\ CanSend /\ u \in room
    /\ author[m] \in {NoUser, u}
    /\ author' = [author EXCEPT ![m] = u]
    /\ send' = [send EXCEPT ![x] = [pc |-> "create", by |-> u, msg |-> {m}, parts |-> Parts]]
    /\ UNCHANGED <<conv, away, room, joining, claim, stored, casts, reading, late, cut, faults>>

Refuse(x) ==
    /\ send[x].pc = "create"
    /\ send' = Goes(x, "over")
    /\ UNCHANGED <<conv, away, room, joining, claim, author, stored, casts, reading, late, cut, faults>>

\* Mutant: the duplicate is broadcast like a new message.
AfterDuplicate(x) == "touch"

\* createMessage finds the message, or the unique index refuses it: it is there,
\* and the attempt that stored it broadcasts it.  An insert that reports an error
\* although it was applied leaves a message that nobody broadcasts.
AfterCreate(x) == IF send[x].msg \subseteq stored THEN "over" ELSE "touch"

Create(x) ==
    /\ send[x].pc = "create"
    /\ stored' = stored \cup send[x].msg
    /\ \/ send' = Goes(x, AfterCreate(x)) /\ UNCHANGED <<cut, faults>>
       \/ /\ Fault /\ send' = Goes(x, "over")
          /\ cut' = IF send[x].msg \subseteq stored THEN cut ELSE cut \cup send[x].msg
    /\ UNCHANGED <<conv, away, room, joining, claim, author, casts, reading, late>>

\* lastMessage is set and the message read back, then broadcast; when that fails
\* the client is told so and nobody hears of the message.
Broadcast(x) ==
    /\ send[x].pc = "touch"
    /\ \/ /\ casts' = [m \in Message |-> IF m \in send[x].msg THEN casts[m] + 1 ELSE casts[m]]
          /\ saw' = saw \cup ((room \ {send[x].by}) \X send[x].msg)
          /\ send' = Goes(x, "present")
          /\ UNCHANGED <<cut, faults>>
       \/ /\ Fault /\ send' = Goes(x, "done") /\ cut' = cut \cup send[x].msg
          /\ UNCHANGED <<casts, saw>>
    /\ UNCHANGED <<conv, away, room, joining, claim, author, stored, lost, noted, read, late>>

Present(x) == room

\* fetchSockets, whose failure counts as nobody present, then a notification to
\* every participant who is not there; one that fails is only logged.
Announce(x) ==
    /\ send[x].pc = "present"
    /\ \E present \in {Present(x), {}} :
         noted' = noted \cup ((send[x].parts \ ({send[x].by} \cup present)) \X send[x].msg)
    /\ \/ UNCHANGED <<cut, faults>>
       \/ Fault /\ cut' = cut \cup send[x].msg
    /\ send' = Goes(x, "done")
    /\ UNCHANGED <<conv, away, room, joining, claim, author, stored, casts, saw, lost, read, late>>

ChatNext ==
    \/ EndBooking \/ \E d \in Staff \cup {NoUser} : Open(d)
    \/ \E s \in Staff :
         \/ Retire(s) \/ Return(s) \/ Resolve(s)
         \/ ClaimRead(s) \/ ClaimLook(s) \/ ClaimCommit(s) \/ ClaimEvict(s)
    \/ \E u \in User :
         \/ JoinCheck(u) \/ Enter(u) \/ Page(u) \/ MarkJoined(u) \/ JoinFails(u)
         \/ MarkCheck(u) \/ MarkRead(u) \/ Leave(u)
    \/ \E x \in Attempt :
         \/ \E u \in User, m \in Message : Send(x, u, m)
         \/ Refuse(x) \/ Create(x) \/ Broadcast(x) \/ Announce(x)

ChatSpec == ChatInit /\ [][ChatNext]_chatVars

-----------------------------------------------------------------------------
(* Properties *)

ChatTypeOK ==
    /\ conv.owner \in Staff \cup {NoUser} /\ conv.status \in {"open", "in_progress", "resolved"}
    /\ away \subseteq Staff /\ room \subseteq User /\ late \subseteq User
    /\ \A u \in User : /\ join[u] \in {"idle", "join", "page", "mark"} /\ page[u] \subseteq Message
                        /\ marking[u] \in {"idle", "checked", "stray"}
    /\ stored \cup read \cup cut \subseteq Message
    /\ saw \cup lost \cup noted \subseteq User \X Message
    /\ casts \in [Message -> Nat]

\* A join has yet to answer, with a page that will hold the message or does.
Due(u, m) == join[u] = "page" \/ m \in page[u]

\* The message is stored and its broadcast is still to come.
Touching(m) == \E x \in Attempt : m \in send[x].msg /\ send[x].pc = "touch"

\* However often a client sends a message again, those in the room hear of it at
\* most once (createMessage's clientMessageId).
HeardOnce == \A m \in Message : casts[m] <= 1

\* A stored message reaches the other party: on the page or live if its socket is in
\* the room, else by a notification; a join that overlaps the sending has a page
\* that holds it.  Lost to him is only what `lost' names.
NobodyMissesIt ==
    \A x \in Attempt : send[x].pc = "done" =>
        \A m \in send[x].msg \ cut, u \in send[x].parts \ {send[x].by} :
            <<u, m>> \in saw \cup noted \cup lost \/ Due(u, m)

\* A message is marked read over a socket only when it was sent to a reader, is in
\* the page he is about to get, or is about to be broadcast to the room he is in;
\* but for one that was lost to him as his join failed, or as his socket left the
\* room before it came or while join_room or mark_read was at work for it.
ReadWasSeen ==
    \A m \in read \ cut :
        \E u \in User \ {author[m]} :
            <<u, m>> \in saw \cup lost \/ (u \in room /\ Touching(m)) \/ Due(u, m)

\* What is promised of a message, in well-formed documents: it is heard once, it
\* reaches the other party, and it is read only by who got it.
MessagesArrive == ChatTypeOK /\ HeardOnce /\ NobodyMissesIt /\ ReadWasSeen

\* The room holds sockets of the participants only, but for a hand-over that has yet
\* to evict the previous owner, or whose eviction was lost or a join of his
\* overlapped (claimSupport).
RoomIsForParticipants ==
    \A u \in room \ (Parts \cup late) : \E s \in Staff : claim[s].pc = "evict" /\ claim[s].owner = u

\* A thread is never taken from a member of staff who can still handle it, unless
\* he was away when the claim looked and came back before its transaction, which
\* compares the owner but does not look at him again (claimSupport).
NobodyIsRobbed ==
    [][conv.owner \in Staff /\ conv'.owner # conv.owner =>
          \/ conv.owner \in away
          \/ claim[conv'.owner].owner = conv.owner /\ claim[conv'.owner].back]_chatVars
=============================================================================
