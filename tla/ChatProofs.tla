----------------------------- MODULE ChatProofs ------------------------------
(***************************************************************************)
(* For any number of staff, messages and attempts: a support thread is never *)
(* taken from somebody who was there when the claim looked, the room of a    *)
(* conversation is for its participants, and a message is heard once,        *)
(* reaches the other party and is marked read only by who got it.            *)
(***************************************************************************)
EXTENDS Chat, TLAPS

-----------------------------------------------------------------------------
(* The thread *)

Conversation ==
    [kind: {"booking", "support"}, exists: BOOLEAN, owner: Staff \cup {NoUser},
     status: {"open", "in_progress", "resolved"}, open: BOOLEAN]

Claim ==
    [pc: {"idle", "look", "commit", "evict"}, owner: Staff \cup {NoUser},
     status: {"open", "in_progress", "resolved"}, back: BOOLEAN]

ThreadTyped ==
    /\ conv \in Conversation /\ claim \in [Staff -> Claim]
    /\ join \in [User -> {"idle", "join", "page", "mark"}]
    /\ away \subseteq Staff /\ room \subseteq User /\ late \subseteq User

\* Only a thread has an owner, and only a support thread is claimed.
Owned ==
    /\ ~conv.exists => conv.owner = NoUser
    /\ \A s \in Staff : claim[s].pc # "idle" => conv.kind = "support" /\ conv.exists
    /\ \A s \in Staff : claim[s].pc = "evict" => claim[s].owner # NoUser

\* The ticket that is to be committed was free, his own, or of somebody away, who may
\* be back by now.
Takeable(s) ==
    claim[s].pc = "commit" => claim[s].owner \in {NoUser, s} \cup away \/ claim[s].back

\* Who is about to join is a participant, or was one when he asked.
MayJoin(u) == join[u] = "join" => u \in Parts \cup late

ThreadInv ==
    /\ ThreadTyped /\ Owned /\ RoomIsForParticipants
    /\ \A s \in Staff : Takeable(s)
    /\ \A u \in User : MayJoin(u)

LEMMA ThreadInit == ChatInit => ThreadInv
<1> SUFFICES ASSUME ChatInit PROVE ThreadInv
  OBVIOUS
<1>1. conv \in Conversation /\ conv.owner = NoUser  BY DEF ChatInit, Conversation
<1>2. /\ claim \in [Staff -> Claim] /\ \A s \in Staff : claim[s].pc = "idle"
      /\ join \in [User -> {"idle", "join", "page", "mark"}] /\ \A u \in User : join[u] = "idle"
      /\ away = {} /\ room = {} /\ late = {}
  BY DEF ChatInit, NoClaim, Claim
<1>3. QED
  BY <1>1, <1>2 DEF ThreadInv, ThreadTyped, Owned, RoomIsForParticipants, Takeable, MayJoin

\* What the steps of a conversation may change of it.
LEMMA NoThreadStep ==
    ASSUME ThreadInv, UNCHANGED <<conv, away, room, join, claim, late>> PROVE ThreadInv'
BY DEF ThreadInv, ThreadTyped, Owned, RoomIsForParticipants, Takeable, MayJoin, Parts

\* An owner who was there stays: everybody in the room may be there still.
LEMMA SameParts ==
    ASSUME ThreadInv, Parts \subseteq Parts', room' \subseteq room, late \subseteq late',
           \A s \in Staff : claim[s].pc = "evict" => claim'[s] = claim[s]
    PROVE  RoomIsForParticipants'
BY DEF ThreadInv, RoomIsForParticipants

LEMMA OpenStep == ASSUME ThreadInv, NEW d, Open(d) PROVE ThreadInv'
<1>1. UNCHANGED <<away, room, join, claim, late>>  BY DEF Open, joining
<1>2. conv \in Conversation  BY DEF ThreadInv, ThreadTyped
<1>3. CASE conv.kind = "booking"
  <2>1. /\ conv' = [conv EXCEPT !.exists = TRUE, !.owner = d] /\ d \in Staff /\ conv.owner = NoUser
    BY <1>3 DEF Open, ThreadInv, Owned
  <2>2. /\ conv' \in Conversation /\ conv'.owner = d /\ conv'.kind = conv.kind /\ conv'.exists
    BY <1>2, <2>1 DEF Conversation
  <2>3. Parts \subseteq Parts'  BY <2>1, <2>2 DEF Parts
  <2>4. Owned'  BY <1>1, <1>3, <2>2 DEF ThreadInv, Owned
  <2>5. RoomIsForParticipants'  BY <1>1, <2>3, SameParts
  <2>6. QED
    BY <1>1, <2>2, <2>3, <2>4, <2>5 DEF ThreadInv, ThreadTyped, Takeable, MayJoin
<1>4. CASE conv.kind # "booking"
  <2>1. conv' = [conv EXCEPT !.exists = TRUE, !.status = IF conv.exists THEN "open" ELSE conv.status]
    BY <1>2, <1>4 DEF Open, Conversation
  <2>2. PICK st \in {"open", "in_progress", "resolved"} :
           conv' = [conv EXCEPT !.exists = TRUE, !.status = st]
    BY <1>2, <2>1 DEF Conversation
  <2>3. /\ conv' \in Conversation /\ conv'.owner = conv.owner /\ conv'.kind = conv.kind
        /\ conv'.exists
    BY <1>2, <2>2 DEF Conversation
  <2>4. Parts' = Parts  BY <2>3 DEF Parts
  <2>5. Owned'  BY <1>1, <2>3 DEF ThreadInv, Owned
  <2>6. RoomIsForParticipants'  BY <1>1, <2>4, SameParts
  <2>7. QED
    BY <1>1, <2>3, <2>4, <2>5, <2>6 DEF ThreadInv, ThreadTyped, Takeable, MayJoin
<1>5. QED  BY <1>3, <1>4

LEMMA FieldSteps ==
    ASSUME ThreadInv, EndBooking \/ \E s \in Staff : Resolve(s) PROVE ThreadInv'
<1>1. UNCHANGED <<away, room, join, claim, late>>  BY DEF EndBooking, Resolve, joining
<1>2. conv \in Conversation  BY DEF ThreadInv, ThreadTyped
<1>3. /\ conv' \in Conversation /\ conv'.owner = conv.owner /\ conv'.kind = conv.kind
      /\ conv'.exists = conv.exists
  <2>1. CASE EndBooking  BY <1>2, <2>1 DEF EndBooking, Conversation
  <2>2. CASE \E s \in Staff : Resolve(s)  BY <1>2, <2>2 DEF Resolve, Conversation
  <2>3. QED  BY <2>1, <2>2
<1>4. Parts' = Parts  BY <1>3 DEF Parts
<1>5. RoomIsForParticipants'  BY <1>1, <1>4, SameParts
<1>6. QED
  BY <1>1, <1>3, <1>4, <1>5 DEF ThreadInv, ThreadTyped, Owned, Takeable, MayJoin

LEMMA RetireStep == ASSUME ThreadInv, NEW s \in Staff, Retire(s) PROVE ThreadInv'
<1>1. UNCHANGED <<conv, room, join, claim, late>> /\ away' = away \cup {s}  BY DEF Retire, joining
<1>2. Parts' = Parts  BY <1>1 DEF Parts
<1>3. RoomIsForParticipants'  BY <1>1, <1>2, SameParts
<1>4. QED
  BY <1>1, <1>2, <1>3 DEF ThreadInv, ThreadTyped, Owned, Takeable, MayJoin

\* A claim that saw him away notes that he is back.
LEMMA ReturnStep == ASSUME ThreadInv, NEW s \in Staff, Return(s) PROVE ThreadInv'
<1>1. /\ UNCHANGED <<conv, room, join, late>> /\ away' = away \ {s}
      /\ claim' = [t \in Staff |-> IF claim[t].pc = "commit" /\ claim[t].owner = s
                                    THEN [claim[t] EXCEPT !.back = TRUE] ELSE claim[t]]
  BY DEF Return, joining
<1>2. claim \in [Staff -> Claim]  BY DEF ThreadInv, ThreadTyped
<1>3. ASSUME NEW t \in Staff
      PROVE  /\ claim'[t] \in Claim
             /\ claim'[t].pc = claim[t].pc /\ claim'[t].owner = claim[t].owner
             /\ claim[t].pc # "commit" => claim'[t] = claim[t]
             /\ claim[t].pc = "commit" => claim'[t].back \/ (claim'[t].back = claim[t].back /\ claim[t].owner # s)
  <2>1. claim[t] \in Claim  BY <1>2
  <2>2. CASE claim[t].pc = "commit" /\ claim[t].owner = s
    <3>1. claim'[t] = [claim[t] EXCEPT !.back = TRUE]  BY <1>1, <2>2
    <3>2. QED  BY <2>1, <2>2, <3>1 DEF Claim
  <2>3. CASE ~(claim[t].pc = "commit" /\ claim[t].owner = s)
    <3>1. claim'[t] = claim[t]  BY <1>1, <2>3
    <3>2. QED  BY <2>1, <2>3, <3>1
  <2>4. QED  BY <2>2, <2>3
<1>4. claim' \in [Staff -> Claim]  BY <1>1, <1>3
<1>5. Parts' = Parts  BY <1>1 DEF Parts
<1>6. RoomIsForParticipants'  BY <1>1, <1>3, <1>5, SameParts
<1>7. ASSUME NEW t \in Staff PROVE Takeable(t)'
  <2>1. SUFFICES ASSUME claim'[t].pc = "commit"
                 PROVE  claim'[t].owner \in {NoUser, t} \cup away' \/ claim'[t].back
    BY DEF Takeable
  <2>2. claim[t].owner \in {NoUser, t} \cup away \/ claim[t].back
    BY <1>3, <2>1 DEF ThreadInv, Takeable
  <2>3. QED  BY <1>1, <1>3, <2>1, <2>2
<1>8. Owned'  BY <1>1, <1>3 DEF ThreadInv, Owned
<1>9. QED
  BY <1>1, <1>4, <1>5, <1>6, <1>7, <1>8 DEF ThreadInv, ThreadTyped, MayJoin

LEMMA ClaimReadStep == ASSUME ThreadInv, NEW s \in Staff, ClaimRead(s) PROVE ThreadInv'
<1>1. /\ UNCHANGED <<conv, away, room, join, late>> /\ claim[s].pc = "idle"
      /\ conv.kind = "support" /\ conv.exists
  BY DEF ClaimRead, joining
<1>2. PICK c : /\ c = [pc |-> "look", owner |-> conv.owner, status |-> conv.status, back |-> FALSE]
               /\ claim' = [claim EXCEPT ![s] = c]
  BY DEF ClaimRead
<1>3. c \in Claim /\ c.pc = "look"
  BY <1>2 DEF ThreadInv, ThreadTyped, Conversation, Claim
<1>4. /\ claim' \in [Staff -> Claim] /\ claim'[s] = c
      /\ \A t \in Staff \ {s} : claim'[t] = claim[t]
  BY <1>2, <1>3 DEF ThreadInv, ThreadTyped
<1>5. Parts' = Parts  BY <1>1 DEF Parts
<1>6. RoomIsForParticipants'  BY <1>1, <1>4, <1>5, SameParts
<1>7. \A t \in Staff : Takeable(t)'  BY <1>1, <1>3, <1>4 DEF ThreadInv, Takeable
<1>8. QED
  BY <1>1, <1>3, <1>4, <1>5, <1>6, <1>7 DEF ThreadInv, ThreadTyped, Owned, MayJoin

LEMMA ClaimLookStep == ASSUME ThreadInv, NEW s \in Staff, ClaimLook(s) PROVE ThreadInv'
<1>1. /\ UNCHANGED <<conv, away, room, join, late>> /\ claim[s].pc = "look"
      /\ claim \in [Staff -> Claim] /\ claim[s] \in Claim
  BY DEF ClaimLook, joining, ThreadInv, ThreadTyped
<1>2. PICK c : /\ c = IF claim[s].owner \in {NoUser, s} \cup away
                      THEN [claim[s] EXCEPT !.pc = "commit"] ELSE NoClaim
               /\ claim' = [claim EXCEPT ![s] = c]
  BY DEF ClaimLook
<1>3. /\ c \in Claim /\ c.pc \in {"idle", "commit"}
      /\ c.pc = "commit" => c.owner \in {NoUser, s} \cup away
  <2>1. CASE claim[s].owner \in {NoUser, s} \cup away
    <3>1. c = [claim[s] EXCEPT !.pc = "commit"]  BY <1>2, <2>1
    <3>2. QED  BY <1>1, <2>1, <3>1 DEF Claim
  <2>2. CASE claim[s].owner \notin {NoUser, s} \cup away
    <3>1. c = NoClaim  BY <1>2, <2>2
    <3>2. QED  BY <3>1 DEF NoClaim, Claim
  <2>3. QED  BY <2>1, <2>2
<1>4. /\ claim' \in [Staff -> Claim] /\ claim'[s] = c
      /\ \A t \in Staff \ {s} : claim'[t] = claim[t]
  BY <1>1, <1>2, <1>3
<1>5. Parts' = Parts  BY <1>1 DEF Parts
<1>6. RoomIsForParticipants'  BY <1>1, <1>4, <1>5, SameParts
<1>7. \A t \in Staff : Takeable(t)'  BY <1>1, <1>3, <1>4 DEF ThreadInv, Takeable
<1>8. Owned'  BY <1>1, <1>3, <1>4 DEF ThreadInv, Owned
<1>9. QED
  BY <1>1, <1>4, <1>5, <1>6, <1>7, <1>8 DEF ThreadInv, ThreadTyped, MayJoin

\* The thread changes hands: the one before is evicted next, and if he is joining
\* he is late.
LEMMA ClaimCommitStep == ASSUME ThreadInv, NEW s \in Staff, ClaimCommit(s) PROVE ThreadInv'
<1>1. /\ UNCHANGED <<away, room, join>> /\ claim[s].pc = "commit"
      /\ conv \in Conversation /\ claim \in [Staff -> Claim] /\ claim[s] \in Claim
      /\ Owned /\ late \subseteq User
  BY DEF ClaimCommit, ThreadInv, ThreadTyped, joining
<1>2. CASE SameTicket(s)
  <2>1. /\ conv' = [conv EXCEPT !.owner = s, !.status = "in_progress"]
        /\ late' = late \cup {u \in {claim[s].owner} \ {NoUser, s} : join[u] = "join"}
        /\ conv.owner = claim[s].owner
    BY <1>2 DEF ClaimCommit, SameTicket
  <2>2. PICK pc \in {"idle", "evict"} :
           /\ claim' = [claim EXCEPT ![s] = [claim[s] EXCEPT !.pc = pc]]
           /\ claim[s].owner \notin {NoUser, s} => pc = "evict"
           /\ pc = "evict" => claim[s].owner # NoUser
    BY <1>2 DEF ClaimCommit
  <2>3. PICK c : c = [claim[s] EXCEPT !.pc = pc]  OBVIOUS
  <2>4. c \in Claim /\ c.pc = pc /\ c.owner = claim[s].owner  BY <1>1, <2>3 DEF Claim
  <2>5. /\ claim' \in [Staff -> Claim] /\ claim'[s] = c
        /\ \A t \in Staff \ {s} : claim'[t] = claim[t]
    BY <1>1, <2>2, <2>3, <2>4
  <2>6. /\ conv' \in Conversation /\ conv'.owner = s /\ conv'.kind = conv.kind
        /\ conv'.exists = conv.exists
    BY <1>1, <2>1 DEF Conversation
  <2>7. s # NoUser  BY ChatAssumption DEF User
  <2>8. Parts \subseteq Parts' \cup ({claim[s].owner} \ {NoUser, s})  BY <2>1, <2>6, <2>7 DEF Parts
  <2>9. late' \subseteq User  BY <1>1, <2>1 DEF Claim, User
  <2>10. RoomIsForParticipants'
    <3>1. ASSUME NEW u \in room, u \notin Parts' \cup late'
          PROVE  \E t \in Staff : claim'[t].pc = "evict" /\ claim'[t].owner = u
      <4>1. CASE u \in Parts  BY <2>2, <2>4, <2>5, <2>8, <3>1, <4>1
      <4>2. CASE u \notin Parts
        <5>1. PICK t \in Staff : claim[t].pc = "evict" /\ claim[t].owner = u
          BY <2>1, <3>1, <4>2 DEF ThreadInv, RoomIsForParticipants
        <5>2. t # s  BY <1>1, <5>1
        <5>3. QED  BY <2>5, <5>1, <5>2
      <4>3. QED  BY <4>1, <4>2
    <3>2. QED  BY <1>1, <3>1 DEF RoomIsForParticipants
  <2>11. ASSUME NEW u \in User PROVE MayJoin(u)'
    <3>1. SUFFICES ASSUME join[u] = "join" PROVE u \in Parts' \cup late'
      BY <1>1 DEF MayJoin
    <3>2. u \in Parts \cup late  BY <3>1 DEF ThreadInv, MayJoin
    <3>3. QED  BY <2>1, <2>8, <3>1, <3>2
  <2>12. \A t \in Staff : Takeable(t)'  BY <1>1, <2>2, <2>4, <2>5 DEF ThreadInv, Takeable
  <2>13. Owned'
    <3>1. conv.kind = "support" /\ conv.exists  BY <1>1 DEF Owned
    <3>2. QED  BY <1>1, <2>2, <2>4, <2>5, <2>6, <3>1 DEF Owned
  <2>14. QED
    BY <1>1, <2>5, <2>6, <2>9, <2>10, <2>11, <2>12, <2>13 DEF ThreadInv, ThreadTyped
<1>3. CASE ~SameTicket(s)
  <2>1. claim' = [claim EXCEPT ![s] = NoClaim] /\ UNCHANGED <<conv, late>>
    BY <1>3 DEF ClaimCommit
  <2>2. NoClaim \in Claim /\ NoClaim.pc = "idle"  BY DEF NoClaim, Claim
  <2>3. /\ claim' \in [Staff -> Claim] /\ claim'[s] = NoClaim
        /\ \A t \in Staff \ {s} : claim'[t] = claim[t]
    BY <1>1, <2>1, <2>2
  <2>4. Parts' = Parts  BY <2>1 DEF Parts
  <2>5. RoomIsForParticipants'  BY <1>1, <2>1, <2>3, <2>4, SameParts
  <2>6. \A t \in Staff : Takeable(t)'  BY <1>1, <2>2, <2>3 DEF ThreadInv, Takeable
  <2>7. Owned'  BY <1>1, <2>1, <2>2, <2>3 DEF Owned
  <2>8. QED
    BY <1>1, <2>1, <2>3, <2>4, <2>5, <2>6, <2>7 DEF ThreadInv, ThreadTyped, MayJoin
<1>4. QED  BY <1>2, <1>3

LEMMA ClaimEvictStep == ASSUME ThreadInv, NEW s \in Staff, ClaimEvict(s) PROVE ThreadInv'
<1>1. /\ UNCHANGED <<conv, away, join>> /\ claim' = [claim EXCEPT ![s] = NoClaim]
      /\ \/ room' = room \ {claim[s].owner} /\ late' = late
         \/ room' = room /\ late' = late \cup {claim[s].owner}
      /\ claim[s].pc = "evict" /\ claim[s] \in Claim /\ claim[s].owner # NoUser
  BY DEF ClaimEvict, Evicted, Depart, ThreadInv, ThreadTyped, Owned
<1>2. NoClaim \in Claim /\ NoClaim.pc = "idle"  BY DEF NoClaim, Claim
<1>3. /\ claim' \in [Staff -> Claim] /\ claim'[s] = NoClaim
      /\ \A t \in Staff \ {s} : claim'[t] = claim[t]
  BY <1>1, <1>2 DEF ThreadInv, ThreadTyped
<1>4. Parts' = Parts  BY <1>1 DEF Parts
<1>5. RoomIsForParticipants'
  <2>1. ASSUME NEW u \in room', u \notin Parts' \cup late'
        PROVE  \E t \in Staff : claim'[t].pc = "evict" /\ claim'[t].owner = u
    <3>1. PICK t \in Staff : claim[t].pc = "evict" /\ claim[t].owner = u
      BY <1>1, <1>4, <2>1 DEF ThreadInv, RoomIsForParticipants
    <3>2. u # claim[s].owner  BY <1>1, <2>1
    <3>3. t # s  BY <3>1, <3>2
    <3>4. QED  BY <1>3, <3>1, <3>3
  <2>2. QED  BY <2>1 DEF RoomIsForParticipants
<1>6. \A t \in Staff : Takeable(t)'  BY <1>1, <1>2, <1>3 DEF ThreadInv, Takeable
<1>7. Owned'  BY <1>1, <1>2, <1>3 DEF ThreadInv, Owned
<1>8. late' \subseteq User  BY <1>1 DEF ThreadInv, ThreadTyped, Claim, User
<1>9. QED
  BY <1>1, <1>3, <1>4, <1>5, <1>6, <1>7, <1>8 DEF ThreadInv, ThreadTyped, MayJoin

-----------------------------------------------------------------------------
(* The room *)

LEMMA JoinCheckStep == ASSUME ThreadInv, NEW u \in User, JoinCheck(u) PROVE ThreadInv'
<1>1. /\ UNCHANGED <<conv, away, room, claim>> /\ u \in Parts
      /\ join' = [join EXCEPT ![u] = "join"] /\ late' = late \ {u}
  BY DEF JoinCheck
<1>2. Parts' = Parts  BY <1>1 DEF Parts
<1>3. RoomIsForParticipants'  BY <1>1, <1>2 DEF ThreadInv, RoomIsForParticipants
<1>4. ASSUME NEW v \in User PROVE MayJoin(v)'
  BY <1>1, <1>2 DEF ThreadInv, ThreadTyped, MayJoin
<1>5. QED  BY <1>1, <1>3, <1>4 DEF ThreadInv, ThreadTyped, Owned, Takeable

LEMMA EnterStep == ASSUME ThreadInv, NEW u \in User, Enter(u) PROVE ThreadInv'
<1>1. /\ UNCHANGED <<conv, away, claim, late>> /\ room' = room \cup {u}
      /\ join' = [join EXCEPT ![u] = "page"] /\ join[u] = "join"
  BY DEF Enter
<1>2. Parts' = Parts /\ u \in Parts \cup late  BY <1>1 DEF Parts, ThreadInv, MayJoin
<1>3. RoomIsForParticipants'  BY <1>1, <1>2 DEF ThreadInv, RoomIsForParticipants
<1>4. ASSUME NEW v \in User PROVE MayJoin(v)'
  BY <1>1, <1>2 DEF ThreadInv, ThreadTyped, MayJoin
<1>5. QED  BY <1>1, <1>3, <1>4 DEF ThreadInv, ThreadTyped, Owned, Takeable

LEMMA PageSteps ==
    ASSUME ThreadInv, NEW u \in User, Page(u) \/ MarkJoined(u) \/ JoinFails(u) PROVE ThreadInv'
<1>1. PICK j \in {"idle", "mark"} :
         /\ join' = [join EXCEPT ![u] = j] /\ UNCHANGED <<conv, away, room, claim>>
         /\ late' = late \/ (u \notin room /\ late' = late \ {u})
         /\ join[u] # "join"
  BY DEF Page, MarkJoined, JoinFails, Joined
<1>2. Parts' = Parts  BY <1>1 DEF Parts
<1>3. RoomIsForParticipants'  BY <1>1, <1>2 DEF ThreadInv, RoomIsForParticipants
<1>4. ASSUME NEW v \in User PROVE MayJoin(v)'
  BY <1>1, <1>2 DEF ThreadInv, ThreadTyped, MayJoin
<1>5. QED  BY <1>1, <1>3, <1>4 DEF ThreadInv, ThreadTyped, Owned, Takeable

LEMMA LeaveStep == ASSUME ThreadInv, NEW u \in User, Leave(u) PROVE ThreadInv'
<1>1. /\ UNCHANGED <<conv, away, join, claim>> /\ room' = room \ {u}
      /\ late' = IF join[u] = "join" THEN late ELSE late \ {u}
  BY DEF Leave, Depart
<1>2. Parts' = Parts  BY <1>1 DEF Parts
<1>3. RoomIsForParticipants'  BY <1>1, <1>2 DEF ThreadInv, RoomIsForParticipants
<1>4. ASSUME NEW v \in User PROVE MayJoin(v)'
  BY <1>1, <1>2 DEF ThreadInv, ThreadTyped, MayJoin
<1>5. QED  BY <1>1, <1>3, <1>4 DEF ThreadInv, ThreadTyped, Owned, Takeable

LEMMA ThreadStep == ASSUME ThreadInv, [ChatNext]_chatVars PROVE ThreadInv'
<1>1. CASE EndBooking \/ \E d \in Staff \cup {NoUser} : Open(d)
  BY <1>1, FieldSteps, OpenStep
<1>2. ASSUME NEW s \in Staff,
             \/ Retire(s) \/ Return(s) \/ Resolve(s)
             \/ ClaimRead(s) \/ ClaimLook(s) \/ ClaimCommit(s) \/ ClaimEvict(s)
      PROVE  ThreadInv'
  BY <1>2, RetireStep, ReturnStep, ClaimReadStep, ClaimLookStep, ClaimCommitStep,
     ClaimEvictStep, FieldSteps
<1>3. ASSUME NEW u \in User,
             \/ JoinCheck(u) \/ Enter(u) \/ Page(u) \/ MarkJoined(u) \/ JoinFails(u)
             \/ MarkCheck(u) \/ MarkRead(u) \/ Leave(u)
      PROVE  ThreadInv'
  <2>1. CASE MarkCheck(u) \/ MarkRead(u)  BY <2>1, NoThreadStep DEF MarkCheck, MarkRead
  <2>2. QED  BY <1>3, <2>1, JoinCheckStep, EnterStep, PageSteps, LeaveStep
<1>4. ASSUME NEW x \in Attempt,
             \/ \E u \in User, m \in Message : Send(x, u, m)
             \/ Refuse(x) \/ Create(x) \/ Broadcast(x) \/ Announce(x)
      PROVE  ThreadInv'
  BY <1>4, NoThreadStep DEF Send, Refuse, Create, Broadcast, Announce, joining
<1>5. CASE UNCHANGED chatVars  BY <1>5, NoThreadStep DEF chatVars, joining
<1>6. QED  BY <1>1, <1>2, <1>3, <1>4, <1>5 DEF ChatNext

LEMMA ThreadInvariance == ChatSpec => []ThreadInv
<1>1. ThreadInv /\ [ChatNext]_chatVars => ThreadInv'  BY ThreadStep
<1>2. QED  BY <1>1, ThreadInit, PTL DEF ChatSpec

\* The sockets in a conversation's room are those of its participants, but for a
\* previous owner who is about to be evicted or whose join the hand-over overtook
\* (join_room of socket/chatHandlers.ts, claimSupport of services/supportService.ts).
THEOREM RoomKeepsOthersOut == ChatSpec => []RoomIsForParticipants
<1>1. ThreadInv => RoomIsForParticipants  BY DEF ThreadInv
<1>2. QED  BY <1>1, ThreadInvariance, PTL

\* A support thread changes hands only when its owner is away, or was when the claim
\* looked and came back since: the claim compares the owner it read with the one it
\* replaces (claimSupport).
THEOREM ThreadsAreNotTaken == ChatSpec => NobodyIsRobbed
<1>1. ASSUME ThreadInv, [ChatNext]_chatVars, conv.owner \in Staff, conv'.owner # conv.owner
      PROVE  \/ conv.owner \in away
             \/ claim[conv'.owner].owner = conv.owner /\ claim[conv'.owner].back
  <2>1. conv \in Conversation /\ Owned /\ NoUser \notin Staff
    BY <1>1, ChatAssumption DEF ThreadInv, ThreadTyped, User
  <2>2. ASSUME NEW d, Open(d) PROVE FALSE
    BY <1>1, <2>1, <2>2 DEF Open, Owned, Conversation
  <2>3. ASSUME EndBooking \/ \E s \in Staff : Resolve(s) PROVE FALSE
    BY <1>1, <2>1, <2>3 DEF EndBooking, Resolve, Conversation
  <2>4. ASSUME UNCHANGED conv PROVE FALSE  BY <1>1, <2>4
  <2>5. ASSUME NEW s \in Staff, ClaimCommit(s)
        PROVE  conv.owner \in away \/ (claim[conv'.owner].owner = conv.owner /\ claim[conv'.owner].back)
    <3>1. SameTicket(s) /\ conv' = [conv EXCEPT !.owner = s, !.status = "in_progress"]
          /\ claim[s].pc = "commit"
      BY <2>4, <2>5 DEF ClaimCommit
    <3>2. conv'.owner = s  BY <2>1, <3>1 DEF Conversation
    <3>3. claim[s].owner \in {NoUser, s} \cup away \/ claim[s].back  BY <1>1, <3>1 DEF ThreadInv, Takeable
    <3>4. QED  BY <1>1, <2>1, <3>1, <3>2, <3>3 DEF SameTicket
  <2>6. ASSUME NEW s \in Staff,
               Retire(s) \/ Return(s) \/ ClaimRead(s) \/ ClaimLook(s) \/ ClaimEvict(s)
        PROVE  FALSE
    BY <2>4, <2>6 DEF Retire, Return, ClaimRead, ClaimLook, ClaimEvict
  <2>7. ASSUME NEW u \in User,
               \/ JoinCheck(u) \/ Enter(u) \/ Page(u) \/ MarkJoined(u) \/ JoinFails(u)
               \/ MarkCheck(u) \/ MarkRead(u) \/ Leave(u)
        PROVE  FALSE
    BY <2>4, <2>7
    DEF JoinCheck, Enter, Page, MarkJoined, JoinFails, Joined, MarkCheck, MarkRead, Leave
  <2>8. ASSUME NEW x \in Attempt,
               \/ \E u \in User, m \in Message : Send(x, u, m)
               \/ Refuse(x) \/ Create(x) \/ Broadcast(x) \/ Announce(x)
        PROVE  FALSE
    BY <2>4, <2>8 DEF Send, Refuse, Create, Broadcast, Announce
  <2>9. ChatNext  BY <1>1, <2>4 DEF chatVars
  <2>10. QED  BY <2>2, <2>3, <2>5, <2>6, <2>7, <2>8, <2>9 DEF ChatNext
<1>2. ASSUME ThreadInv, [ChatNext]_chatVars
      PROVE  [conv.owner \in Staff /\ conv'.owner # conv.owner =>
                \/ conv.owner \in away
                \/ claim[conv'.owner].owner = conv.owner /\ claim[conv'.owner].back]_chatVars
  BY <1>1, <1>2
<1>3. QED  BY <1>2, ThreadInvariance, PTL DEF ChatSpec, NobodyIsRobbed

-----------------------------------------------------------------------------
(* The messages *)

Sending ==
    [pc: {"new", "create", "touch", "present", "done", "over"}, by: User \cup {NoUser},
     msg: SUBSET Message, parts: SUBSET User]

MessagesTyped ==
    /\ send \in [Attempt -> Sending] /\ author \in [Message -> User \cup {NoUser}]
    /\ casts \in [Message -> Nat] /\ stored \subseteq Message
    /\ read \subseteq stored /\ cut \subseteq Message
    /\ saw \subseteq User \X Message /\ lost \subseteq User \X Message
    /\ noted \subseteq User \X Message
    /\ page \in [User -> SUBSET Message] /\ marking \in [User -> {"idle", "checked", "stray"}]

Live(x) == send[x].pc \in {"touch", "present"}

\* What was sent to a user's socket, or is known not to come.
Settled(u, m) == <<u, m>> \in saw \cup lost

\* An attempt is about one message, of the user who made it.
Known(x) ==
    send[x].pc # "new" =>
        /\ send[x].by \in User
        /\ \E m \in Message : send[x].msg = {m} /\ author[m] = send[x].by

\* What is stored has an author, what is live is stored, and nothing is broadcast
\* before its turn.
StoredFirst ==
    /\ \A m \in stored : author[m] \in User
    /\ \A x \in Attempt : Live(x) \/ send[x].pc = "done" => send[x].msg \subseteq stored
    /\ \A m \in Message \ stored : casts[m] = 0
    /\ \A x \in Attempt : send[x].pc = "touch" => \A m \in send[x].msg : casts[m] = 0

\* Of two attempts for one message only that which stored it goes on.
Alone(x, y) == Live(x) /\ Live(y) => send[x].msg \cap send[y].msg = {}

\* After its broadcast a message was sent to everybody in the room, or is due to him.
Reached(x) ==
    send[x].pc = "present" =>
        \A m \in send[x].msg, u \in send[x].parts \ {send[x].by} :
            Settled(u, m) \/ u \notin room \/ Due(u, m)

\* Who is in the room lacks only what is due to him or about to be broadcast.
SeenInRoom(u, m) ==
    u \in room /\ author[m] # u => Settled(u, m) \/ m \in cut \/ Touching(m) \/ Due(u, m)

ReadSeen(m) ==
    \E u \in User \ {author[m]} : Settled(u, m) \/ (u \in room /\ Touching(m)) \/ Due(u, m)

MessageInv ==
    /\ MessagesTyped /\ StoredFirst /\ HeardOnce /\ NobodyMissesIt
    /\ \A x \in Attempt : Known(x) /\ Reached(x)
    /\ \A x, y \in Attempt : x # y => Alone(x, y)
    /\ \A u \in User, m \in stored : SeenInRoom(u, m)
    /\ \A m \in read \ cut : ReadSeen(m)
    /\ \A u \in User : marking[u] = "checked" => u \in room

LEMMA MessageInit == ChatInit => MessageInv
<1> SUFFICES ASSUME ChatInit PROVE MessageInv
  OBVIOUS
<1>1. /\ send \in [Attempt -> Sending] /\ \A x \in Attempt : send[x].pc = "new"
  BY DEF ChatInit, NoSend, Sending
<1>2. /\ author \in [Message -> User \cup {NoUser}] /\ casts \in [Message -> Nat]
      /\ \A m \in Message : casts[m] = 0
      /\ stored = {} /\ read = {} /\ cut = {} /\ saw = {} /\ lost = {} /\ noted = {}
      /\ page \in [User -> SUBSET Message] /\ marking \in [User -> {"idle", "checked", "stray"}]
      /\ \A u \in User : marking[u] = "idle"
  BY DEF ChatInit
<1>3. QED
  BY <1>1, <1>2 DEF MessageInv, MessagesTyped, StoredFirst, HeardOnce, NobodyMissesIt, Known,
     Reached, Alone, Live

\* Sockets come and go, pages are read and answered, messages marked; no attempt moves.
LEMMA RoomMoves ==
    ASSUME MessageInv, UNCHANGED <<send, author, stored, casts, noted, cut>>,
           saw \subseteq saw', lost \subseteq lost',
           saw' \subseteq User \X Message, lost' \subseteq User \X Message,
           page' \in [User -> SUBSET Message],
           marking' \in [User -> {"idle", "checked", "stray"}],
           \A v \in User : marking'[v] = "checked" => v \in room',
           read' \subseteq stored,
           \A v \in room' \ room : join'[v] = "page",
           \A v \in User : \A m \in Others(v) : Due(v, m) => Due(v, m)' \/ Settled(v, m)',
           \A v \in (room \ room') \cap User : \A m \in read \cap Others(v) : Settled(v, m)',
           \A m \in read' \ read : \E v \in User :
              m \in Others(v) /\ (Settled(v, m)' \/ (v \in room /\ v \in room'))
    PROVE  MessageInv'
<1>1. MessagesTyped'  BY DEF MessageInv, MessagesTyped
<1>2. StoredFirst' /\ HeardOnce'  BY DEF MessageInv, StoredFirst, HeardOnce, Live
<1>3. \A x \in Attempt : Known(x)'  BY DEF MessageInv, Known
<1>4. \A x, y \in Attempt : x # y => Alone(x, y)'  BY DEF MessageInv, Alone, Live
<1>5. \A m : Touching(m) <=> Touching(m)'  BY DEF Touching
<1>6. \A v, m : Settled(v, m) => Settled(v, m)'  BY DEF Settled
<1>7. ASSUME NEW x \in Attempt, send[x].pc # "new", NEW m \in send[x].msg
      PROVE  author[m] = send[x].by /\ m \in Message
  BY <1>7 DEF MessageInv, Known
\* What was settled or due stays so; who entered since has a page to come.
<1>8. ASSUME NEW u \in User, NEW m \in stored, author[m] # u, Settled(u, m) \/ Due(u, m)
      PROVE  Settled(u, m)' \/ Due(u, m)'
  BY <1>6, <1>8 DEF Others
<1>9. \A v \in room' \ room : \A m : Due(v, m)'  BY DEF Due
<1>10. ASSUME NEW x \in Attempt PROVE Reached(x)'
  <2>1. SUFFICES ASSUME send[x].pc = "present", NEW m \in send[x].msg,
                        NEW u \in send[x].parts \ {send[x].by}, u \in room'
                 PROVE  Settled(u, m)' \/ Due(u, m)'
    BY DEF Reached
  <2>2. u \in User /\ author[m] # u /\ m \in stored
    BY <1>7, <2>1 DEF MessageInv, MessagesTyped, Sending, StoredFirst, Live
  <2>3. CASE u \notin room  BY <1>9, <2>1, <2>3
  <2>4. CASE u \in room
    <3>1. Settled(u, m) \/ Due(u, m)  BY <2>1, <2>4 DEF MessageInv, Reached
    <3>2. QED  BY <1>8, <2>2, <3>1
  <2>5. QED  BY <2>3, <2>4
<1>11. NobodyMissesIt'
  <2>1. SUFFICES ASSUME NEW x \in Attempt, send[x].pc = "done", NEW m \in send[x].msg \ cut,
                        NEW u \in send[x].parts \ {send[x].by}
                 PROVE  <<u, m>> \in saw' \cup noted' \cup lost' \/ Due(u, m)'
    BY DEF NobodyMissesIt
  <2>2. <<u, m>> \in noted \/ Settled(u, m) \/ Due(u, m)
    BY <2>1 DEF MessageInv, NobodyMissesIt, Settled
  <2>3. u \in User /\ author[m] # u /\ m \in stored
    BY <1>7, <2>1 DEF MessageInv, MessagesTyped, Sending, StoredFirst
  <2>4. <<u, m>> \in noted' \/ Settled(u, m)' \/ Due(u, m)'  BY <1>8, <2>2, <2>3
  <2>5. QED  BY <2>4 DEF Settled
<1>12. ASSUME NEW u \in User, NEW m \in stored PROVE SeenInRoom(u, m)'
  <2>1. SUFFICES ASSUME u \in room', author[m] # u
                 PROVE  Settled(u, m)' \/ m \in cut \/ Touching(m) \/ Due(u, m)'
    BY <1>5 DEF SeenInRoom
  <2>2. CASE u \notin room  BY <1>9, <2>1, <2>2
  <2>3. CASE u \in room
    <3>1. Settled(u, m) \/ m \in cut \/ Touching(m) \/ Due(u, m)
      BY <2>1, <2>3 DEF MessageInv, SeenInRoom
    <3>2. QED  BY <1>8, <2>1, <3>1
  <2>4. QED  BY <2>2, <2>3
<1>13. ASSUME NEW m \in read' \ cut PROVE ReadSeen(m)'
  <2>1. CASE m \in read
    <3>1. PICK v \in User \ {author[m]} :
             Settled(v, m) \/ (v \in room /\ Touching(m)) \/ Due(v, m)
      BY <2>1 DEF MessageInv, ReadSeen
    <3>2. m \in stored /\ author[m] # v  BY <2>1, <3>1 DEF MessageInv, MessagesTyped
    <3>3. CASE Settled(v, m) \/ Due(v, m)  BY <1>8, <3>2, <3>3 DEF ReadSeen
    <3>4. CASE v \in room /\ Touching(m)
      <4>1. CASE v \in room'  BY <1>5, <3>2, <3>4, <4>1 DEF ReadSeen
      <4>2. CASE v \notin room'  BY <2>1, <3>2, <3>4, <4>2 DEF ReadSeen, Others
      <4>3. QED  BY <4>1, <4>2
    <3>5. QED  BY <3>1, <3>3, <3>4
  <2>2. CASE m \notin read
    <3>1. PICK v \in User : m \in Others(v) /\ (Settled(v, m)' \/ (v \in room /\ v \in room'))
      BY <2>2
    <3>2. m \in stored /\ author[m] # v  BY <3>1 DEF Others
    <3>3. CASE Settled(v, m)'  BY <3>2, <3>3 DEF ReadSeen
    <3>4. CASE v \in room /\ v \in room'
      <4>1. Settled(v, m) \/ Touching(m) \/ Due(v, m)
        BY <3>2, <3>4 DEF MessageInv, SeenInRoom
      <4>2. QED  BY <1>5, <1>8, <3>2, <3>4, <4>1 DEF ReadSeen
    <3>5. QED  BY <3>1, <3>3, <3>4
  <2>3. QED  BY <2>1, <2>2
<1>14. QED  BY <1>1, <1>2, <1>3, <1>4, <1>10, <1>11, <1>12, <1>13 DEF MessageInv

LEMMA NoMessageStep ==
    ASSUME MessageInv, UNCHANGED <<room, joining, send, author, stored, casts, reading, cut>>
    PROVE  MessageInv'
<1>1. UNCHANGED <<join, page, marking, saw, lost, noted, read>>  BY DEF joining, reading
<1>2. \A v, m : Due(v, m) => Due(v, m)'  BY <1>1 DEF Due
<1>3. QED  BY <1>1, <1>2, RoomMoves DEF MessageInv, MessagesTyped

\* What a failed, a stray or an interrupted handler takes away is a pair of User
\* and Message, and all that has not been sent.
LEMMA UnseenPairs ==
    ASSUME MessageInv, NEW u \in User
    PROVE  /\ Unseen(u) \subseteq User \X Message /\ Others(u) \subseteq stored
           /\ {u} \X Others(u) \subseteq User \X Message
           /\ \A m \in Others(u) : <<u, m>> \in saw \cup Unseen(u)
BY DEF Unseen, Others, MessageInv, MessagesTyped

\* Sockets that leave the room.
LEMMA DepartStep ==
    ASSUME MessageInv, room \subseteq User, NEW us, Depart(us),
           UNCHANGED <<join, page, send, author, stored, casts, saw, noted, read, cut>>
    PROVE  MessageInv'
<1>1. /\ room' = room \ us /\ lost' = lost \cup Unheard(us \cap room)
      /\ marking' = [u \in User |-> IF u \in us /\ marking[u] = "checked" THEN "stray" ELSE marking[u]]
  BY DEF Depart
<1>2. read \subseteq stored /\ stored \subseteq Message  BY DEF MessageInv, MessagesTyped
<1>3. Unheard(us \cap room) \subseteq User \X Message  BY <1>2 DEF Unheard
<1>4. lost \subseteq lost' /\ lost' \subseteq User \X Message
  BY <1>1, <1>3 DEF MessageInv, MessagesTyped
<1>5. ASSUME NEW v \in User
      PROVE  /\ marking'[v] \in {"idle", "checked", "stray"}
             /\ marking'[v] = "checked" => v \in room'
  BY <1>1 DEF MessageInv, MessagesTyped
<1>6. marking' \in [User -> {"idle", "checked", "stray"}]  BY <1>1, <1>5
<1>7. ASSUME NEW v \in room \ room', NEW m \in read \cap Others(v) PROVE Settled(v, m)'
  <2>1. v \in us \cap room /\ author[m] # v  BY <1>1, <1>7 DEF Others
  <2>2. <<v, m>> \in saw \cup Unheard(us \cap room)  BY <1>7, <2>1 DEF Unheard
  <2>3. QED  BY <1>1, <2>2 DEF Settled
<1>8. \A v, m : Due(v, m) => Due(v, m)'  BY DEF Due
<1>9. room' \subseteq room  BY <1>1
<1>10. /\ saw' \subseteq User \X Message /\ page' \in [User -> SUBSET Message] /\ read' \subseteq stored
  BY DEF MessageInv, MessagesTyped
<1>11. QED  BY <1>4, <1>5, <1>6, <1>7, <1>8, <1>9, <1>10, RoomMoves

\* Who has lost all that was not sent is waiting for nothing.
LEMMA LostSettles ==
    ASSUME MessageInv, NEW u \in User, saw \subseteq saw', lost' = lost \cup Unseen(u)
    PROVE  /\ lost \subseteq lost' /\ lost' \subseteq User \X Message
           /\ \A m \in Others(u) : Settled(u, m)'
BY UnseenPairs DEF Settled, MessageInv, MessagesTyped

\* A join that ends: the page was answered, or everything that has not been sent is
\* lost.
LEMMA JoinEnds ==
    ASSUME MessageInv, NEW u \in User, join \in [User -> {"idle", "join", "page", "mark"}],
           Joined(u), saw \subseteq saw', saw' \subseteq User \X Message,
           lost \subseteq lost', lost' \subseteq User \X Message,
           \/ \A m \in Others(u) : Settled(u, m)'
           \/ u \in room /\ join[u] = "mark" /\ {u} \X page[u] \subseteq saw',
           read' = read \/ read' = read \cup Others(u)
    PROVE  MessageInv'
<1>1. /\ join' = [join EXCEPT ![u] = "idle"] /\ page' = [page EXCEPT ![u] = {}]
      /\ UNCHANGED <<room, marking, send, author, stored, casts, noted, cut>>
  BY DEF Joined, sending
<1>2. /\ page \in [User -> SUBSET Message] /\ marking \in [User -> {"idle", "checked", "stray"}]
      /\ read \subseteq stored
  BY DEF MessageInv, MessagesTyped
<1>3. page' \in [User -> SUBSET Message] /\ read' \subseteq stored  BY <1>1, <1>2, UnseenPairs
<1>4. ASSUME NEW v \in User, NEW m \in Others(v), Due(v, m) PROVE Due(v, m)' \/ Settled(v, m)'
  <2>1. CASE v # u  BY <1>1, <1>2, <1>4, <2>1 DEF Due
  <2>2. CASE v = u /\ \A n \in Others(u) : Settled(u, n)'  BY <1>4, <2>2
  <2>3. CASE v = u /\ join[u] = "mark" /\ {u} \X page[u] \subseteq saw'
    <3>1. m \in page[u]  BY <1>4, <2>3 DEF Due
    <3>2. QED  BY <2>3, <3>1 DEF Settled
  <2>4. QED  BY <2>1, <2>2, <2>3
<1>5. \A m \in read' \ read : m \in Others(u) /\ (Settled(u, m)' \/ (u \in room /\ u \in room'))
  BY <1>1
<1>6. \A v \in User : marking[v] = "checked" => v \in room  BY DEF MessageInv
<1>7. QED  BY <1>1, <1>2, <1>3, <1>4, <1>5, <1>6, RoomMoves

LEMMA RoomSteps ==
    ASSUME ThreadTyped, MessageInv, NEW u \in User,
           \/ JoinCheck(u) \/ Enter(u) \/ Page(u) \/ MarkJoined(u) \/ JoinFails(u)
           \/ MarkCheck(u) \/ MarkRead(u) \/ Leave(u)
    PROVE  MessageInv'
<1>1. /\ join \in [User -> {"idle", "join", "page", "mark"}] /\ room \subseteq User
      /\ read \subseteq stored /\ saw \subseteq User \X Message /\ lost \subseteq User \X Message
      /\ stored \subseteq Message /\ page \in [User -> SUBSET Message]
      /\ marking \in [User -> {"idle", "checked", "stray"}]
      /\ \A v \in User : marking[v] = "checked" => v \in room
  BY DEF ThreadTyped, MessageInv, MessagesTyped
<1>2. CASE JoinCheck(u) \/ Enter(u)
  <2>1. PICK j \in {"join", "page"} :
           /\ join' = [join EXCEPT ![u] = j] /\ join[u] # "page"
           /\ room' = room \/ (room' = room \cup {u} /\ j = "page")
           /\ UNCHANGED <<page, marking, send, author, stored, casts, saw, lost, noted, read, cut>>
    BY <1>2 DEF JoinCheck, Enter, sending, reading
  <2>2. \A v \in User, m \in stored : Due(v, m) => Due(v, m)'  BY <1>1, <2>1 DEF Due
  <2>3. \A v \in room' \ room : join'[v] = "page"  BY <1>1, <2>1
  <2>4. QED  BY <1>1, <2>1, <2>2, <2>3, RoomMoves DEF Others
<1>3. CASE Page(u)
  <2>1. /\ join' = [join EXCEPT ![u] = "mark"] /\ page' = [page EXCEPT ![u] = Others(u)]
        /\ UNCHANGED <<room, marking, send, author, stored, casts, saw, lost, noted, read, cut>>
    BY <1>3 DEF Page, sending, reading
  <2>2. page' \in [User -> SUBSET Message] /\ page'[u] = Others(u)
    BY <1>1, <2>1 DEF Others
  <2>3. ASSUME NEW v \in User, NEW m \in Others(v), Due(v, m) PROVE Due(v, m)'
    <3>1. CASE v = u  BY <2>2, <2>3, <3>1 DEF Due
    <3>2. CASE v # u  BY <1>1, <2>1, <2>3, <3>2 DEF Due
    <3>3. QED  BY <3>1, <3>2
  <2>4. QED  BY <1>1, <2>1, <2>2, <2>3, RoomMoves
<1>4. CASE MarkJoined(u)
  <2>1. /\ join[u] = "mark" /\ Joined(u) /\ read' = read \cup Others(u)
        /\ saw \subseteq saw' /\ saw' \subseteq saw \cup ({u} \X page[u])
    BY <1>4 DEF MarkJoined
  <2>2. saw' \subseteq User \X Message  BY <1>1, <2>1
  <2>3. CASE u \in room
    <3>1. saw' = saw \cup ({u} \X page[u]) /\ lost' = lost  BY <1>4, <2>3 DEF MarkJoined
    <3>2. QED  BY <1>1, <2>1, <2>2, <2>3, <3>1, JoinEnds
  <2>4. CASE u \notin room
    <3>1. lost' = lost \cup Unseen(u)  BY <1>4, <2>4 DEF MarkJoined
    <3>2. QED  BY <1>1, <2>1, <2>2, <3>1, LostSettles, JoinEnds
  <2>5. QED  BY <2>3, <2>4
<1>5. CASE JoinFails(u)
  <2>1. /\ Joined(u) /\ saw' = saw /\ lost' = lost \cup Unseen(u)
        /\ read' = read \/ read' = read \cup Others(u)
    BY <1>5 DEF JoinFails
  <2>2. QED  BY <1>1, <2>1, LostSettles, JoinEnds
<1>6. CASE MarkCheck(u)
  <2>1. /\ marking' = [marking EXCEPT ![u] = "checked"] /\ u \in room
        /\ UNCHANGED <<room, join, page, send, author, stored, casts, saw, lost, noted, read, cut>>
    BY <1>6 DEF MarkCheck, MayMark, sending, reading
  <2>2. \A v, m : Due(v, m) => Due(v, m)'  BY <2>1 DEF Due
  <2>3. /\ marking' \in [User -> {"idle", "checked", "stray"}]
        /\ \A v \in User : marking'[v] = "checked" => v \in room
    BY <1>1, <2>1
  <2>4. QED  BY <1>1, <2>1, <2>2, <2>3, RoomMoves
<1>7. CASE MarkRead(u)
  <2>1. /\ marking' = [marking EXCEPT ![u] = "idle"] /\ marking[u] # "idle"
        /\ UNCHANGED <<room, join, page, send, author, stored, casts, saw, noted, cut>>
    BY <1>7 DEF MarkRead, sending
  <2>2. \A v, m : Due(v, m) => Due(v, m)'  BY <2>1 DEF Due
  <2>3. /\ marking' \in [User -> {"idle", "checked", "stray"}]
        /\ \A v \in User : marking'[v] = "checked" => v \in room
    BY <1>1, <2>1
  <2>4. CASE UNCHANGED <<read, lost>>  BY <1>1, <2>1, <2>2, <2>3, <2>4, RoomMoves
  <2>5. CASE ~UNCHANGED <<read, lost>>
    <3>1. /\ read' = read \cup Others(u)
          /\ lost' = IF marking[u] = "stray" THEN lost \cup Unseen(u) ELSE lost
      BY <1>7, <2>5 DEF MarkRead
    <3>2. read' \subseteq stored  BY <1>1, <3>1, UnseenPairs
    <3>3. CASE marking[u] = "stray"
      <4>1. lost' = lost \cup Unseen(u)  BY <3>1, <3>3
      <4>2. QED  BY <1>1, <2>1, <2>2, <2>3, <3>1, <3>2, <4>1, LostSettles, RoomMoves
    <3>4. CASE marking[u] # "stray"
      <4>1. lost' = lost /\ u \in room  BY <1>1, <2>1, <3>1, <3>4
      <4>2. QED  BY <1>1, <2>1, <2>2, <2>3, <3>1, <3>2, <4>1, RoomMoves
    <3>5. QED  BY <3>3, <3>4
  <2>6. QED  BY <2>4, <2>5
<1>8. CASE Leave(u)
  <2>1. /\ Depart({u})
        /\ UNCHANGED <<join, page, send, author, stored, casts, saw, noted, read, cut>>
    BY <1>8 DEF Leave, sending
  <2>2. QED  BY <1>1, <2>1, DepartStep
<1>9. QED  BY <1>2, <1>3, <1>4, <1>5, <1>6, <1>7, <1>8

LEMMA EvictStep ==
    ASSUME ThreadTyped, MessageInv, NEW s \in Staff, ClaimEvict(s) PROVE MessageInv'
<1>1. UNCHANGED <<join, page, send, author, stored, casts, saw, noted, read, cut>>
  BY DEF ClaimEvict, sending
<1>2. CASE Depart(Evicted(s))
  <2>1. room \subseteq User  BY DEF ThreadTyped
  <2>2. QED  BY <1>1, <1>2, <2>1, DepartStep
<1>3. CASE UNCHANGED <<room, lost, marking>>
  BY <1>1, <1>3, NoMessageStep DEF joining, reading
<1>4. QED  BY <1>2, <1>3 DEF ClaimEvict

-----------------------------------------------------------------------------
(* Attempts *)

\* What is settled stays so, and a join that does not move has the same to come.
LEMMA SameDue ==
    ASSUME saw \subseteq saw', lost \subseteq lost', UNCHANGED <<join, page>>
    PROVE  \A u, m : (Settled(u, m) => Settled(u, m)') /\ (Due(u, m)' <=> Due(u, m))
BY DEF Due, Settled

\* What was done is done, and what was seen or notified stays so.
LEMMA DoneStays ==
    ASSUME MessageInv, NEW x \in Attempt, \A y \in Attempt \ {x} : send'[y] = send[y],
           send'[x].pc # "done", saw \subseteq saw', lost \subseteq lost', noted \subseteq noted',
           cut \subseteq cut', UNCHANGED <<join, page>>
    PROVE  NobodyMissesIt'
<1>1. SUFFICES ASSUME NEW y \in Attempt, send'[y].pc = "done",
                      NEW m \in send'[y].msg \ cut', NEW u \in send'[y].parts \ {send'[y].by}
               PROVE  <<u, m>> \in saw' \cup noted' \cup lost' \/ Due(u, m)'
  BY DEF NobodyMissesIt
<1>2. send'[y] = send[y]  BY <1>1
<1>3. <<u, m>> \in saw \cup noted \cup lost \/ Due(u, m)
  BY <1>1, <1>2 DEF MessageInv, NobodyMissesIt
<1>4. QED  BY <1>3, SameDue

\* x moves on, with the same message.
Moves(x, pc) ==
    /\ send' \in [Attempt -> Sending] /\ send'[x].pc = pc
    /\ send'[x].by = send[x].by /\ send'[x].msg = send[x].msg /\ send'[x].parts = send[x].parts
    /\ \A y \in Attempt \ {x} : send'[y] = send[y]

LEMMA Going ==
    ASSUME MessageInv, NEW x \in Attempt,
           NEW pc \in {"new", "create", "touch", "present", "done", "over"}, send' = Goes(x, pc)
    PROVE  Moves(x, pc)
<1>1. send \in [Attempt -> Sending]  BY DEF MessageInv, MessagesTyped
<1>2. PICK r : r = [send[x] EXCEPT !.pc = pc]  OBVIOUS
<1>3. r \in Sending /\ r.pc = pc /\ r.by = send[x].by /\ r.msg = send[x].msg
      /\ r.parts = send[x].parts
  BY <1>1, <1>2 DEF Sending
<1>4. send' = [send EXCEPT ![x] = r]  BY <1>2 DEF Goes
<1>5. QED  BY <1>1, <1>3, <1>4 DEF Moves

\* The attempts that were under way, and what was to be seen, stay as they were; x
\* is neither stored nor broadcast.
LEMMA NewAttempt ==
    ASSUME ThreadTyped, MessageInv, NEW x \in Attempt, NEW u \in User, NEW m \in Message,
           Send(x, u, m)
    PROVE  MessageInv'
<1>1. /\ send[x].pc = "new" /\ author[m] \in {NoUser, u} /\ author' = [author EXCEPT ![m] = u]
      /\ UNCHANGED <<room, join, page, marking, stored, casts, saw, lost, noted, read, cut>>
      /\ send \in [Attempt -> Sending] /\ author \in [Message -> User \cup {NoUser}]
      /\ NoUser \notin User
  BY ChatAssumption DEF Send, reading, joining, MessageInv, MessagesTyped
<1>2. PICK r : /\ r = [pc |-> "create", by |-> u, msg |-> {m}, parts |-> Parts]
               /\ send' = [send EXCEPT ![x] = r]
  BY DEF Send
<1>3. r \in Sending /\ r.pc = "create" /\ r.by = u /\ r.msg = {m}
  <2>1. Parts \subseteq User
    BY DEF Send, ThreadTyped, Conversation, Parts, User
  <2>2. QED  BY <1>2, <2>1 DEF Sending
<1>4. /\ send' \in [Attempt -> Sending] /\ send'[x] = r
      /\ \A y \in Attempt \ {x} : send'[y] = send[y]
  BY <1>1, <1>2, <1>3
<1>5. /\ author' \in [Message -> User \cup {NoUser}] /\ author'[m] = u
      /\ \A n \in Message : author[n] \in User => author'[n] = author[n]
  BY <1>1
<1>6. MessagesTyped'  BY <1>1, <1>4, <1>5 DEF MessageInv, MessagesTyped
<1>7. \A y \in Attempt : y # x => send'[y] = send[y]  BY <1>4
<1>8. \A n \in stored : n \in Message /\ author[n] \in User /\ author'[n] = author[n]
  BY <1>5 DEF MessageInv, MessagesTyped, StoredFirst
<1>9. StoredFirst' /\ HeardOnce'
  BY <1>1, <1>3, <1>4, <1>8 DEF MessageInv, StoredFirst, HeardOnce, Live
<1>10. ASSUME NEW y \in Attempt PROVE Known(y)' /\ Reached(y)'
  <2>1. CASE y = x  BY <1>3, <1>4, <1>5, <2>1 DEF Known, Reached
  <2>2. CASE y # x
    <3>1. send'[y] = send[y] /\ Known(y) /\ Reached(y)  BY <1>4, <2>2 DEF MessageInv
    <3>2. Known(y)'  BY <1>5, <3>1 DEF Known
    <3>3. QED  BY <1>1, <3>1, <3>2, SameDue DEF Reached
  <2>3. QED  BY <2>1, <2>2
<1>11. \A y, z \in Attempt : y # z => Alone(y, z)'
  BY <1>3, <1>4 DEF MessageInv, Alone, Live
<1>12. NobodyMissesIt'  BY <1>1, <1>3, <1>4, DoneStays
<1>13. \A n : Touching(n) <=> Touching(n)'  BY <1>1, <1>3, <1>4 DEF Touching
<1>14. ASSUME NEW v \in User, NEW n \in stored PROVE SeenInRoom(v, n)'
  BY <1>1, <1>8, <1>13, SameDue DEF MessageInv, SeenInRoom
<1>15. ASSUME NEW n \in read \ cut PROVE ReadSeen(n)'
  <2>1. author'[n] = author[n] /\ ReadSeen(n)  BY <1>8 DEF MessageInv, MessagesTyped
  <2>2. QED  BY <1>1, <1>13, <2>1, SameDue DEF ReadSeen
<1>16. QED
  BY <1>1, <1>6, <1>9, <1>10, <1>11, <1>12, <1>14, <1>15 DEF MessageInv

\* x ends before it stored anything, or finds its message stored.
LEMMA AttemptOver ==
    ASSUME MessageInv, NEW x \in Attempt, send[x].pc = "create", Moves(x, "over"),
           UNCHANGED <<room, join, page, marking, author, stored, casts, saw, lost, noted, read, cut>>
    PROVE  MessageInv'
<1>1. MessagesTyped'  BY DEF MessageInv, MessagesTyped, Moves
<1>2. StoredFirst' /\ HeardOnce'  BY DEF MessageInv, StoredFirst, HeardOnce, Live, Moves
<1>3. ASSUME NEW y \in Attempt PROVE Known(y)' /\ Reached(y)'
  <2>1. Known(y) /\ Reached(y)  BY DEF MessageInv
  <2>2. Known(y)'  BY <2>1 DEF Known, Moves
  <2>3. QED  BY <2>1, <2>2, SameDue DEF Reached, Moves
<1>4. \A y, z \in Attempt : y # z => Alone(y, z)'  BY DEF MessageInv, Alone, Live, Moves
<1>5. NobodyMissesIt'  BY DoneStays DEF Moves
<1>6. \A n : Touching(n) <=> Touching(n)'  BY DEF Touching, Moves
<1>7. \A v \in User, n \in stored : SeenInRoom(v, n)'
  BY <1>6, SameDue DEF MessageInv, SeenInRoom
<1>8. \A n \in read \ cut : ReadSeen(n)'  BY <1>6, SameDue DEF MessageInv, ReadSeen
<1>9. QED  BY <1>1, <1>2, <1>3, <1>4, <1>5, <1>7, <1>8 DEF MessageInv

\* x stores its message, and is the only one to broadcast it.
LEMMA AttemptStores ==
    ASSUME MessageInv, NEW x \in Attempt, send[x].pc = "create", Moves(x, "touch"),
           NEW m \in Message, send[x].msg = {m}, m \notin stored, stored' = stored \cup {m},
           UNCHANGED <<room, join, page, marking, author, casts, saw, lost, noted, read, cut>>
    PROVE  MessageInv'
<1>1. MessagesTyped'  BY DEF MessageInv, MessagesTyped, Moves
<1>2. Known(x) /\ author[m] \in User  BY DEF MessageInv, Known
<1>3. casts[m] = 0  BY DEF MessageInv, StoredFirst
<1>4. StoredFirst'
  <2>1. \A n \in stored' : author'[n] \in User  BY <1>2 DEF MessageInv, StoredFirst
  <2>2. ASSUME NEW y \in Attempt, Live(y)' \/ send'[y].pc = "done"
        PROVE  send'[y].msg \subseteq stored'
    <3>1. CASE y = x  BY <3>1 DEF Moves
    <3>2. CASE y # x  BY <2>2, <3>2 DEF MessageInv, StoredFirst, Live, Moves
    <3>3. QED  BY <3>1, <3>2
  <2>3. ASSUME NEW y \in Attempt, send'[y].pc = "touch", NEW n \in send'[y].msg
        PROVE  casts[n] = 0
    <3>1. CASE y = x  BY <1>3, <2>3, <3>1 DEF Moves
    <3>2. CASE y # x  BY <2>3, <3>2 DEF MessageInv, StoredFirst, Moves
    <3>3. QED  BY <3>1, <3>2
  <2>4. \A n \in Message \ stored' : casts[n] = 0  BY DEF MessageInv, StoredFirst
  <2>5. QED  BY <2>1, <2>2, <2>3, <2>4 DEF StoredFirst
<1>5. HeardOnce'  BY DEF MessageInv, HeardOnce
<1>6. ASSUME NEW y \in Attempt PROVE Known(y)' /\ Reached(y)'
  <2>1. Known(y) /\ Reached(y)  BY DEF MessageInv
  <2>2. Known(y)'  BY <2>1 DEF Known, Moves
  <2>3. QED  BY <2>1, <2>2, SameDue DEF Reached, Moves
<1>7. ASSUME NEW y \in Attempt, NEW z \in Attempt, y # z PROVE Alone(y, z)'
  <2>1. \A w \in Attempt : w # x /\ Live(w)' => m \notin send'[w].msg /\ Live(w)
    BY DEF MessageInv, StoredFirst, Live, Moves
  <2>2. Alone(y, z)  BY <1>7 DEF MessageInv
  <2>3. CASE y = x  BY <1>7, <2>1, <2>3 DEF Alone, Moves
  <2>4. CASE z = x  BY <1>7, <2>1, <2>4 DEF Alone, Moves
  <2>5. CASE y # x /\ z # x  BY <2>2, <2>5 DEF Alone, Live, Moves
  <2>6. QED  BY <2>3, <2>4, <2>5
<1>8. NobodyMissesIt'  BY DoneStays DEF Moves
<1>9. \A n : Touching(n) => Touching(n)'  BY DEF Touching, Moves
<1>10. Touching(m)'  BY DEF Touching, Moves
<1>11. ASSUME NEW v \in User, NEW n \in stored' PROVE SeenInRoom(v, n)'
  BY <1>9, <1>10, SameDue DEF MessageInv, SeenInRoom
<1>12. \A n \in read \ cut : ReadSeen(n)'  BY <1>9, SameDue DEF MessageInv, ReadSeen
<1>13. QED
  BY <1>1, <1>4, <1>5, <1>6, <1>7, <1>8, <1>11, <1>12 DEF MessageInv

\* x stored its message and does not know it: nobody will broadcast it.
LEMMA AttemptStrands ==
    ASSUME MessageInv, NEW x \in Attempt, send[x].pc = "create", Moves(x, "over"),
           NEW m \in Message, send[x].msg = {m}, stored' = stored \cup {m},
           cut' = cut \cup {m},
           UNCHANGED <<room, join, page, marking, author, casts, saw, lost, noted, read>>
    PROVE  MessageInv'
<1>1. MessagesTyped'  BY DEF MessageInv, MessagesTyped, Moves
<1>2. Known(x) /\ author[m] \in User  BY DEF MessageInv, Known
<1>3. StoredFirst' /\ HeardOnce'
  BY <1>2 DEF MessageInv, StoredFirst, HeardOnce, Live, Moves
<1>4. ASSUME NEW y \in Attempt PROVE Known(y)' /\ Reached(y)'
  <2>1. Known(y) /\ Reached(y)  BY DEF MessageInv
  <2>2. Known(y)'  BY <2>1 DEF Known, Moves
  <2>3. QED  BY <2>1, <2>2, SameDue DEF Reached, Moves
<1>5. \A y, z \in Attempt : y # z => Alone(y, z)'  BY DEF MessageInv, Alone, Live, Moves
<1>6. NobodyMissesIt'  BY DoneStays DEF Moves
<1>7. \A n : Touching(n) <=> Touching(n)'  BY DEF Touching, Moves
<1>8. ASSUME NEW v \in User, NEW n \in stored' PROVE SeenInRoom(v, n)'
  BY <1>7, SameDue DEF MessageInv, SeenInRoom
<1>9. \A n \in read \ cut' : ReadSeen(n)'  BY <1>7, SameDue DEF MessageInv, ReadSeen
<1>10. QED  BY <1>1, <1>3, <1>4, <1>5, <1>6, <1>8, <1>9 DEF MessageInv

LEMMA CreateStep == ASSUME MessageInv, NEW x \in Attempt, Create(x) PROVE MessageInv'
<1>1. /\ send[x].pc = "create" /\ stored' = stored \cup send[x].msg
      /\ UNCHANGED <<room, join, page, marking, author, casts, saw, lost, noted, read>>
  BY DEF Create, reading, joining
<1>2. PICK m \in Message : send[x].msg = {m}  BY <1>1 DEF MessageInv, Known
<1>3. \/ send' = Goes(x, AfterCreate(x)) /\ cut' = cut
      \/ /\ send' = Goes(x, "over")
         /\ cut' = IF send[x].msg \subseteq stored THEN cut ELSE cut \cup send[x].msg
  BY DEF Create
<1>4. CASE m \in stored
  <2>1. send' = Goes(x, "over") /\ stored' = stored /\ cut' = cut
    BY <1>1, <1>2, <1>3, <1>4 DEF AfterCreate
  <2>2. QED  BY <1>1, <2>1, Going, AttemptOver
<1>5. CASE m \notin stored /\ cut' = cut /\ send' = Goes(x, AfterCreate(x))
  <2>1. send' = Goes(x, "touch") /\ stored' = stored \cup {m}
    BY <1>1, <1>2, <1>5 DEF AfterCreate
  <2>2. Moves(x, "touch")  BY <2>1, Going
  <2>3. QED  BY <1>1, <1>2, <1>5, <2>1, <2>2, AttemptStores
<1>6. CASE m \notin stored /\ send' = Goes(x, "over") /\ cut' = cut \cup {m}
  <2>1. Moves(x, "over")  BY <1>6, Going
  <2>2. QED  BY <1>1, <1>2, <1>6, <2>1, AttemptStrands
<1>7. QED  BY <1>2, <1>3, <1>4, <1>5, <1>6

LEMMA RefuseStep == ASSUME MessageInv, NEW x \in Attempt, Refuse(x) PROVE MessageInv'
<1>1. /\ send[x].pc = "create" /\ send' = Goes(x, "over")
      /\ UNCHANGED <<room, join, page, marking, author, stored, casts, saw, lost, noted, read, cut>>
  BY DEF Refuse, reading, joining
<1>2. QED  BY <1>1, Going, AttemptOver

\* Everybody else in the room sees the message.
LEMMA AttemptCasts ==
    ASSUME MessageInv, ThreadTyped, NEW x \in Attempt, send[x].pc = "touch", Moves(x, "present"),
           NEW m \in Message, send[x].msg = {m}, send[x].by \in User, author[m] = send[x].by,
           casts' = [n \in Message |-> IF n \in {m} THEN casts[n] + 1 ELSE casts[n]],
           saw' = saw \cup ((room \ {send[x].by}) \X {m}),
           UNCHANGED <<room, join, page, marking, author, stored, lost, noted, read, cut>>
    PROVE  MessageInv'
<1>1. m \in stored /\ casts[m] = 0  BY DEF MessageInv, StoredFirst, Live
<1>2. /\ casts' \in [Message -> Nat] /\ casts'[m] = 1
      /\ \A n \in Message \ {m} : casts'[n] = casts[n]
  BY <1>1 DEF MessageInv, MessagesTyped
<1>3. \A v \in room : v # author[m] => Settled(v, m)'  BY DEF Settled
<1>4. saw \subseteq saw' /\ saw' \subseteq User \X Message
  BY DEF MessageInv, MessagesTyped, ThreadTyped
<1>5. MessagesTyped'  BY <1>2, <1>4 DEF MessageInv, MessagesTyped, Moves
<1>6. \A y \in Attempt \ {x} : Live(y) => m \notin send[y].msg
  BY DEF MessageInv, Alone, Live
<1>7. StoredFirst'
  <2>1. ASSUME NEW y \in Attempt, Live(y)' \/ send'[y].pc = "done"
        PROVE  send'[y].msg \subseteq stored'
    <3>1. CASE y = x  BY <1>1, <3>1 DEF Moves
    <3>2. CASE y # x  BY <2>1, <3>2 DEF MessageInv, StoredFirst, Live, Moves
    <3>3. QED  BY <3>1, <3>2
  <2>2. ASSUME NEW y \in Attempt, send'[y].pc = "touch", NEW n \in send'[y].msg
        PROVE  casts'[n] = 0
    <3>1. y # x /\ send'[y] = send[y]  BY <2>2 DEF Moves
    <3>2. n # m /\ casts[n] = 0  BY <1>6, <2>2, <3>1 DEF MessageInv, StoredFirst, Live
    <3>3. n \in Message  BY <2>2, <3>1 DEF MessageInv, MessagesTyped, Sending
    <3>4. QED  BY <1>2, <3>2, <3>3
  <2>3. \A n \in Message \ stored' : casts'[n] = 0  BY <1>1, <1>2 DEF MessageInv, StoredFirst
  <2>4. \A n \in stored' : author'[n] \in User  BY DEF MessageInv, StoredFirst
  <2>5. QED  BY <2>1, <2>2, <2>3, <2>4 DEF StoredFirst
<1>8. HeardOnce'
  <2>1. ASSUME NEW n \in Message PROVE casts'[n] <= 1
    <3>1. casts[n] <= 1  BY DEF MessageInv, HeardOnce
    <3>2. QED  BY <1>2, <3>1
  <2>2. QED  BY <2>1 DEF HeardOnce
<1>9. ASSUME NEW y \in Attempt PROVE Known(y)' /\ Reached(y)'
  <2>1. Known(y) /\ Reached(y)  BY DEF MessageInv
  <2>2. Known(y)'  BY <2>1 DEF Known, Moves
  <2>3. CASE y = x  BY <1>3, <2>2, <2>3 DEF Reached, Moves
  <2>4. CASE y # x  BY <1>4, <2>1, <2>2, <2>4, SameDue DEF Reached, Moves
  <2>5. QED  BY <2>3, <2>4
<1>10. \A y, z \in Attempt : y # z => Alone(y, z)'
  BY DEF MessageInv, Alone, Live, Moves
<1>11. NobodyMissesIt'  BY <1>4, DoneStays DEF Moves
<1>12. \A n : n # m /\ Touching(n) => Touching(n)'  BY DEF Touching, Moves
<1>13. ASSUME NEW v \in User, NEW n \in stored PROVE SeenInRoom(v, n)'
  <2>1. CASE n = m  BY <1>3, <2>1 DEF SeenInRoom
  <2>2. CASE n # m  BY <1>4, <1>12, <2>2, SameDue DEF MessageInv, SeenInRoom
  <2>3. QED  BY <2>1, <2>2
<1>14. ASSUME NEW n \in read \ cut PROVE ReadSeen(n)'
  <2>1. PICK v \in User \ {author[n]} :
           Settled(v, n) \/ (v \in room /\ Touching(n)) \/ Due(v, n)
    BY DEF MessageInv, ReadSeen
  <2>2. CASE n = m  BY <1>3, <1>4, <2>1, <2>2, SameDue DEF ReadSeen
  <2>3. CASE n # m  BY <1>4, <1>12, <2>1, <2>3, SameDue DEF ReadSeen
  <2>4. QED  BY <2>2, <2>3
<1>15. QED
  BY <1>5, <1>7, <1>8, <1>9, <1>10, <1>11, <1>13, <1>14 DEF MessageInv

\* The sending stops: the message is among those that were cut, unless everybody was
\* reached.
LEMMA AttemptDone ==
    ASSUME MessageInv, NEW x \in Attempt, Live(x), Moves(x, "done"),
           NEW m \in Message, send[x].msg = {m}, send[x].by \in User, author[m] = send[x].by,
           noted \subseteq noted', noted' \subseteq User \X Message,
           cut' = cut \/ cut' = cut \cup {m},
           send[x].pc = "touch" => cut' = cut \cup {m},
           send[x].pc = "present" =>
              \A u \in send[x].parts \ {send[x].by} : u \notin room => <<u, m>> \in noted',
           UNCHANGED <<room, join, page, marking, author, stored, casts, saw, lost, read>>
    PROVE  MessageInv'
<1>1. MessagesTyped'  BY DEF MessageInv, MessagesTyped, Moves
<1>2. StoredFirst' /\ HeardOnce'
  <2>1. ASSUME NEW y \in Attempt, Live(y)' \/ send'[y].pc = "done"
        PROVE  send'[y].msg \subseteq stored'
    <3>1. CASE y = x  BY <3>1 DEF MessageInv, StoredFirst, Moves
    <3>2. CASE y # x  BY <2>1, <3>2 DEF MessageInv, StoredFirst, Live, Moves
    <3>3. QED  BY <3>1, <3>2
  <2>2. ASSUME NEW y \in Attempt, send'[y].pc = "touch", NEW n \in send'[y].msg
        PROVE  casts[n] = 0
    BY <2>2 DEF MessageInv, StoredFirst, Moves
  <2>3. QED  BY <2>1, <2>2 DEF MessageInv, StoredFirst, HeardOnce
<1>3. ASSUME NEW y \in Attempt PROVE Known(y)' /\ Reached(y)'
  <2>1. Known(y) /\ Reached(y)  BY DEF MessageInv
  <2>2. Known(y)'
    <3>1. CASE y = x  BY <3>1 DEF Known, Moves
    <3>2. CASE y # x  BY <2>1, <3>2 DEF Known, Moves
    <3>3. QED  BY <3>1, <3>2
  <2>3. Reached(y)'
    <3>1. CASE y = x  BY <3>1 DEF Reached, Settled, Moves
    <3>2. CASE y # x  BY <2>1, <3>2, SameDue DEF Reached, Moves
    <3>3. QED  BY <3>1, <3>2
  <2>4. QED  BY <2>2, <2>3
<1>4. \A y, z \in Attempt : y # z => Alone(y, z)'
  BY DEF MessageInv, Alone, Live, Moves
<1>5. NobodyMissesIt'
  <2>1. SUFFICES ASSUME NEW y \in Attempt, send'[y].pc = "done", NEW n \in send'[y].msg \ cut',
                        NEW u \in send'[y].parts \ {send'[y].by}
                 PROVE  <<u, n>> \in saw \cup noted' \cup lost \/ Due(u, n)
    BY SameDue DEF NobodyMissesIt
  <2>2. CASE y # x
    <3>1. send'[y] = send[y] /\ n \notin cut  BY <2>1, <2>2 DEF Moves
    <3>2. QED  BY <2>1, <3>1 DEF MessageInv, NobodyMissesIt
  <2>3. CASE y = x
    <3>1. n = m /\ u \in send[x].parts \ {send[x].by} /\ send[x].pc = "present"
      BY <2>1, <2>3 DEF Moves, Live
    <3>2. <<u, m>> \in saw \cup lost \/ u \notin room \/ Due(u, m)
      BY <3>1 DEF MessageInv, Reached, Settled
    <3>3. QED  BY <3>1, <3>2
  <2>4. QED  BY <2>2, <2>3
<1>6. \A n : Touching(n) => Touching(n)' \/ n \in cut'
  <2>1. ASSUME NEW n, NEW y \in Attempt, n \in send[y].msg, send[y].pc = "touch"
        PROVE  Touching(n)' \/ n \in cut'
    <3>1. CASE y = x  BY <2>1, <3>1
    <3>2. CASE y # x  BY <2>1, <3>2 DEF Touching, Moves
    <3>3. QED  BY <3>1, <3>2
  <2>2. QED  BY <2>1 DEF Touching
<1>7. \A v \in User, n \in stored : SeenInRoom(v, n)'
  BY <1>6, SameDue DEF MessageInv, SeenInRoom
<1>8. ASSUME NEW n \in read \ cut' PROVE ReadSeen(n)'
  <2>1. ReadSeen(n)  BY DEF MessageInv
  <2>2. QED  BY <1>6, <1>8, <2>1, SameDue DEF ReadSeen
<1>9. QED  BY <1>1, <1>2, <1>3, <1>4, <1>5, <1>7, <1>8 DEF MessageInv

LEMMA BroadcastStep ==
    ASSUME ThreadTyped, MessageInv, NEW x \in Attempt, Broadcast(x) PROVE MessageInv'
<1>1. /\ send[x].pc = "touch"
      /\ UNCHANGED <<room, join, page, marking, author, stored, lost, noted, read>>
  BY DEF Broadcast, joining
<1>2. PICK m \in Message : /\ send[x].msg = {m} /\ send[x].by \in User
                           /\ author[m] = send[x].by
  BY <1>1 DEF MessageInv, Known
<1>3. CASE /\ casts' = [n \in Message |-> IF n \in {m} THEN casts[n] + 1 ELSE casts[n]]
           /\ saw' = saw \cup ((room \ {send[x].by}) \X {m})
           /\ send' = Goes(x, "present") /\ UNCHANGED cut
  BY <1>1, <1>2, <1>3, Going, AttemptCasts
<1>4. CASE send' = Goes(x, "done") /\ cut' = cut \cup {m} /\ UNCHANGED <<casts, saw>>
  <2>1. noted \subseteq noted' /\ noted' \subseteq User \X Message
    BY <1>1 DEF MessageInv, MessagesTyped
  <2>2. Live(x) /\ Moves(x, "done")  BY <1>1, <1>4, Going DEF Live
  <2>3. QED  BY <1>1, <1>2, <1>4, <2>1, <2>2, AttemptDone
<1>5. QED  BY <1>2, <1>3, <1>4 DEF Broadcast

LEMMA AnnounceStep ==
    ASSUME ThreadTyped, MessageInv, NEW x \in Attempt, Announce(x) PROVE MessageInv'
<1>1. /\ send[x].pc = "present" /\ send' = Goes(x, "done")
      /\ UNCHANGED <<room, join, page, marking, author, stored, casts, saw, lost, read>>
  BY DEF Announce, joining
<1>2. PICK m \in Message : /\ send[x].msg = {m} /\ send[x].by \in User
                           /\ author[m] = send[x].by
  BY <1>1 DEF MessageInv, Known
<1>3. PICK present \in {room, {}} :
         noted' = noted \cup ((send[x].parts \ ({send[x].by} \cup present)) \X {m})
  BY <1>2 DEF Announce, Present
<1>4. cut' = cut \/ cut' = cut \cup {m}  BY <1>2 DEF Announce
<1>5. /\ noted \subseteq noted' /\ noted' \subseteq User \X Message
      /\ \A u \in send[x].parts \ {send[x].by} : u \notin room => <<u, m>> \in noted'
  BY <1>3 DEF MessageInv, MessagesTyped, Sending
<1>6. Live(x) /\ Moves(x, "done")  BY <1>1, Going DEF Live
<1>7. QED  BY <1>1, <1>2, <1>4, <1>5, <1>6, AttemptDone

LEMMA MessageStep ==
    ASSUME ThreadTyped, MessageInv, [ChatNext]_chatVars PROVE MessageInv'
<1>1. CASE EndBooking \/ \E d \in Staff \cup {NoUser} : Open(d)
  BY <1>1, NoMessageStep DEF EndBooking, Open, sending, reading
<1>2. ASSUME NEW s \in Staff,
             \/ Retire(s) \/ Return(s) \/ Resolve(s)
             \/ ClaimRead(s) \/ ClaimLook(s) \/ ClaimCommit(s) \/ ClaimEvict(s)
      PROVE  MessageInv'
  <2>1. CASE ClaimEvict(s)  BY <2>1, EvictStep
  <2>2. CASE ~ClaimEvict(s)
    BY <1>2, <2>2, NoMessageStep
    DEF Retire, Return, Resolve, ClaimRead, ClaimLook, ClaimCommit, sending
  <2>3. QED  BY <2>1, <2>2
<1>3. ASSUME NEW u \in User,
             \/ JoinCheck(u) \/ Enter(u) \/ Page(u) \/ MarkJoined(u) \/ JoinFails(u)
             \/ MarkCheck(u) \/ MarkRead(u) \/ Leave(u)
      PROVE  MessageInv'
  BY <1>3, RoomSteps
<1>4. ASSUME NEW x \in Attempt,
             \/ \E u \in User, m \in Message : Send(x, u, m)
             \/ Refuse(x) \/ Create(x) \/ Broadcast(x) \/ Announce(x)
      PROVE  MessageInv'
  BY <1>4, NewAttempt, RefuseStep, CreateStep, BroadcastStep, AnnounceStep
<1>5. CASE UNCHANGED chatVars  BY <1>5, NoMessageStep DEF chatVars, sending, reading
<1>6. QED  BY <1>1, <1>2, <1>3, <1>4, <1>5 DEF ChatNext

LEMMA MessageInvariance == ChatSpec => [](ThreadInv /\ MessageInv)
<1>1. ThreadInv /\ MessageInv /\ [ChatNext]_chatVars => MessageInv'
  BY MessageStep DEF ThreadInv
<1>2. QED  BY <1>1, MessageInit, ThreadInvariance, PTL DEF ChatSpec

\* However often a message is sent again, whoever joins, leaves or takes the thread
\* over meanwhile: those in the room hear of it once, the other party is sent it or
\* notified of it unless its sending was cut, and it is marked read only for who was
\* sent it, is about to be, or has lost it as his join failed or his socket left
\* (send_message, join_room and mark_read of socket/chatHandlers.ts).
THEOREM MessagesDoArrive == ChatSpec => []MessagesArrive
<1>1. ThreadInv /\ MessageInv => MessagesArrive
  <2> SUFFICES ASSUME ThreadInv, MessageInv PROVE MessagesArrive
    OBVIOUS
  <2>1. ChatTypeOK
    BY DEF ThreadInv, ThreadTyped, Conversation, MessageInv, MessagesTyped, ChatTypeOK
  <2>2. ReadWasSeen  BY DEF MessageInv, ReadSeen, ReadWasSeen, Settled
  <2>3. QED  BY <2>1, <2>2 DEF MessageInv, MessagesArrive
<1>2. QED  BY <1>1, MessageInvariance, PTL
=============================================================================
