--------------------------- MODULE ServicesProofs ---------------------------
(***************************************************************************)
(* The services that keep to documents of their own, for any number of       *)
(* processes, requests, reports and administrators: ratings, trust levels,   *)
(* the lease of a job, reports, photos and the settings a process caches.    *)
(***************************************************************************)
EXTENDS Settings, Jobs, Trust, Reports, Ratings, Images, FiniteSetTheorems, TLAPS

(* Ratings *)

RatingsInv ==
    /\ rating \in [Party -> Delta \cup {Unrated}]
    /\ trustScore \in [Party -> Int]
    /\ submission \in [Submission -> [pc : {"idle", "open"}, rater : Party, delta : Delta,
                                      seen : Delta \cup {Unrated}, clash : BOOLEAN]]
    /\ RatingsCountOnce

LEMMA OthersOther ==
    ASSUME NEW p \in Party
    PROVE  Other(p) \in Party /\ Other(Other(p)) = p /\ Other(p) # p
BY DEF Party, Other

LEMMA DeltaUnrated == Unrated \notin Delta /\ Delta \subseteq Int /\ Unrated \in Int
BY DEF Delta, Unrated

LEMMA RatingsStart == RatingsInit => RatingsInv
<1> SUFFICES ASSUME RatingsInit PROVE RatingsInv
  OBVIOUS
<1>1. Resting \in [pc : {"idle", "open"}, rater : Party, delta : Delta,
                   seen : Delta \cup {Unrated}, clash : BOOLEAN]
  BY DEF Resting, Party, Delta
<1>2. RatingsCountOnce  BY OthersOther DEF RatingsInit, RatingsCountOnce
<1>3. QED  BY <1>1, <1>2 DEF RatingsInit, RatingsInv

LEMMA RatingsStep ==
    ASSUME RatingsInv, NEW s \in Submission,
           \/ \E p \in Party, d \in Delta : Submit(s, p, d)
           \/ Replay(s) \/ Store(s) \/ Rerun(s)
    PROVE  RatingsInv'
<1> DEFINE T == [pc : {"idle", "open"}, rater : Party, delta : Delta,
                 seen : Delta \cup {Unrated}, clash : BOOLEAN]
<1> DEFINE t == submission[s]
<1>1. Resting \in T  BY DEF Resting, Party, Delta
<1>2. submission \in [Submission -> T] /\ t \in T  BY DEF RatingsInv
<1>3. CASE submission' \in [Submission -> T] /\ UNCHANGED <<rating, trustScore>>
  BY <1>3 DEF RatingsInv, RatingsCountOnce
<1>4. ASSUME NEW p \in Party, NEW d \in Delta, Submit(s, p, d) PROVE RatingsInv'
  <2>1. rating[p] \in Delta \cup {Unrated}  BY DEF RatingsInv
  <2>2. submission' \in [Submission -> T]  BY <1>2, <1>4, <2>1 DEF Submit
  <2>3. QED  BY <1>3, <1>4, <2>2 DEF Submit
<1>5. CASE Replay(s)  BY <1>1, <1>2, <1>3, <1>5 DEF Replay
<1>6. CASE Rerun(s)
  <2>1. rating[t.rater] \in Delta \cup {Unrated}  BY <1>2 DEF RatingsInv
  <2>2. submission' \in [Submission -> T]  BY <1>2, <1>6, <2>1 DEF Rerun
  <2>3. QED  BY <1>3, <1>6, <2>2 DEF Rerun, RolledBack
<1>7. CASE Store(s)
  <2>1. /\ rating' = [rating EXCEPT ![t.rater] = t.delta]
        /\ trustScore' = [trustScore EXCEPT ![Other(t.rater)] = trustScore[Other(t.rater)] + t.delta]
        /\ rating[t.rater] = Unrated
    BY <1>7 DEF Store, Duplicate
  <2>2. /\ t.rater \in Party /\ t.delta \in Delta /\ t.delta # Unrated /\ t.delta \in Int
        /\ Other(t.rater) \in Party /\ Other(Other(t.rater)) = t.rater
    BY <1>2, OthersOther, DeltaUnrated
  <2>3. submission' \in [Submission -> T]
    <3>1. ASSUME NEW o \in Submission PROVE submission'[o] \in T
      <4>1. submission[o] \in T  BY <1>2
      <4>2. submission'[o] = IF o = s THEN Resting
                             ELSE [submission[o] EXCEPT !.clash = submission[o].pc = "open"]
        BY <1>7 DEF Store
      <4>3. QED  BY <1>1, <4>1, <4>2
    <3>2. QED  BY <1>7, <3>1 DEF Store
  <2>4. rating' \in [Party -> Delta \cup {Unrated}]  BY <2>1, <2>2 DEF RatingsInv
  <2>5. trustScore' \in [Party -> Int]  BY <2>1, <2>2 DEF RatingsInv
  <2>6. ASSUME NEW p \in Party
        PROVE  trustScore'[p] = IF rating'[Other(p)] = Unrated THEN 0 ELSE rating'[Other(p)]
    <3>1. trustScore[p] = IF rating[Other(p)] = Unrated THEN 0 ELSE rating[Other(p)]
      BY DEF RatingsInv, RatingsCountOnce
    <3>2. CASE p = Other(t.rater)
      <4>1. Other(p) = t.rater /\ trustScore[p] = 0  BY <2>1, <2>2, <3>1, <3>2
      <4>2. rating'[Other(p)] = t.delta  BY <2>1, <2>2, <4>1 DEF RatingsInv
      <4>3. trustScore'[p] = 0 + t.delta  BY <2>1, <2>2, <3>2, <4>1 DEF RatingsInv
      <4>4. QED  BY <2>2, <4>2, <4>3
    <3>3. CASE p # Other(t.rater)
      <4>1. Other(p) # t.rater  BY <2>2, <3>3, OthersOther
      <4>2. QED  BY <2>1, <3>1, <3>3, <4>1, OthersOther DEF RatingsInv
    <3>4. QED  BY <3>2, <3>3
  <2>7. QED  BY <2>3, <2>4, <2>5, <2>6 DEF RatingsInv, RatingsCountOnce
<1>8. QED  BY <1>4, <1>5, <1>6, <1>7

\* Whatever is submitted twice or at the same time, a party's trust score holds each
\* stored rating about it once (submitRating's transaction and its unique index).
THEOREM RatingsCounted == RatingsSpec => []RatingsCountOnce
<1>1. RatingsInv /\ [RatingsNext]_ratingVars => RatingsInv'
  <2> SUFFICES ASSUME RatingsInv, [RatingsNext]_ratingVars PROVE RatingsInv'
    OBVIOUS
  <2>1. CASE RatingsNext  BY <2>1, RatingsStep DEF RatingsNext
  <2>2. CASE UNCHANGED ratingVars
    BY <2>2 DEF ratingVars, RatingsInv, RatingsCountOnce
  <2>3. QED  BY <2>1, <2>2
<1>2. RatingsInv => RatingsCountOnce  BY DEF RatingsInv
<1>3. QED  BY <1>1, <1>2, RatingsStart, PTL DEF RatingsSpec

-----------------------------------------------------------------------------
(* Trust levels *)

CallType == [Call -> [pc : {"idle", "register", "verify", "outdated", "login", "profile"},
                      saw : Account]]

TrustInv == TrustTypeOK /\ DecisionStands

LEMMA LevelKept ==
    ASSUME TrustInv, NEW level \in Level
    PROVE  /\ AutomaticLevel(level) \in Level
           /\ account.override # 0 => AutomaticLevel(level) = account.override
BY DEF TrustInv, TrustTypeOK, Account, Override, AutomaticLevel

LEMMA UpgradedTyped ==
    ASSUME NEW saw \in Account, NEW p \in Policy
    PROVE  /\ Upgraded(saw, p).level \in Level /\ Upgraded(saw, p).student \in BOOLEAN
           /\ p.university => Upgraded(saw, p).student
           /\ ~p.university => Upgraded(saw, p) = saw
<1>1. p.studentLevel \in Level /\ p.university \in BOOLEAN  BY DEF Policy
<1>2. saw.level \in Level /\ saw.override \in Override /\ saw.student \in BOOLEAN  BY DEF Account
<1>3. PICK n \in Level :
         n = IF saw.override # 0 THEN saw.override ELSE Bigger(saw.level, p.studentLevel)
  BY <1>1, <1>2 DEF Override, Bigger
<1>4. PICK a : a = [saw EXCEPT !.student = TRUE, !.level = n]  OBVIOUS
<1>5. a.level = n /\ a.student  BY <1>4 DEF Account
<1>6. Upgraded(saw, p) = IF ~p.university THEN saw ELSE a
  BY <1>3, <1>4 DEF Upgraded, Account
<1>7. QED  BY <1>1, <1>2, <1>5, <1>6

LEMMA TrustStart == TrustInit => TrustInv
<1> SUFFICES ASSUME TrustInit PROVE TrustInv
  OBVIOUS
<1>1. PICK p \in Policy :
         account = [level |-> NewLevel(p), override |-> 0, verified |-> FALSE,
                    student |-> p.university, phone |-> FALSE, approved |-> FALSE,
                    policy |-> rules.newAtLevel2]
  BY DEF TrustInit
<1>2. rules \in Rules /\ NewLevel(p) \in Level /\ p.university \in BOOLEAN
  BY DEF TrustInit, NewLevel, Policy, Level
<1>3. rules.newAtLevel2 \in BOOLEAN  BY <1>2 DEF Rules
<1>4. PICK n \in Level : n = NewLevel(p)  BY <1>2
<1>5. account \in Account /\ account.override = 0
  BY <1>1, <1>2, <1>3, <1>4 DEF Account, Override
<1>6. call \in CallType  BY <1>5 DEF TrustInit, CallType
<1>7. TrustTypeOK  BY <1>2, <1>5, <1>6 DEF TrustInit, TrustTypeOK, CallType
<1>8. QED  BY <1>5, <1>7 DEF TrustInv, DecisionStands

\* A document whose decision is untouched and whose level follows it.
Follows(a) ==
    /\ a \in Account /\ a.override = account.override
    /\ a.override # 0 => a.level = a.override

LEMMA FollowsIsKept ==
    ASSUME TrustInv, Follows(account'), rules' = rules, crossed' \in BOOLEAN, struck' \in BOOLEAN,
           call' \in CallType
    PROVE  TrustInv'
BY DEF TrustInv, TrustTypeOK, DecisionStands, Follows, CallType

LEMMA LevelFollows ==
    ASSUME TrustInv, NEW level \in Level,
           NEW verified \in BOOLEAN, NEW student \in BOOLEAN, NEW phone \in BOOLEAN
    PROVE  /\ Follows([account EXCEPT !.level = AutomaticLevel(level)])
           /\ Follows([account EXCEPT !.student = student, !.level = AutomaticLevel(level)])
           /\ Follows([account EXCEPT !.verified = verified, !.student = student,
                                      !.level = AutomaticLevel(level)])
           /\ Follows([account EXCEPT !.phone = phone, !.level = AutomaticLevel(level)])
<1>1. account \in Account  BY DEF TrustInv, TrustTypeOK
<1>2. PICK n \in Level : n = AutomaticLevel(level)  BY LevelKept
<1>3. account.override # 0 => n = account.override  BY <1>2, LevelKept
<1>4. /\ [account EXCEPT !.level = n] \in Account
      /\ [account EXCEPT !.student = student, !.level = n] \in Account
      /\ [account EXCEPT !.verified = verified, !.student = student, !.level = n] \in Account
      /\ [account EXCEPT !.phone = phone, !.level = n] \in Account
  BY <1>1 DEF Account
<1>5. QED  BY <1>1, <1>2, <1>3, <1>4 DEF Follows, Account

LEMMA CallEnds ==
    ASSUME TrustInv, NEW c \in Call, account' \in Account
    PROVE  /\ Ended(c) \in CallType /\ Ended(c)[c].pc = "idle"
           /\ \A d \in Call \ {c} : Ended(c)[d] = call[d]
<1>1. call \in CallType /\ call[c] \in [pc : {"idle", "register", "verify", "outdated", "login",
                                              "profile"}, saw : Account]
  BY DEF TrustInv, TrustTypeOK, CallType
<1>2. PICK a \in Account : a = account'  OBVIOUS
<1>3. PICK new : new = [call[c] EXCEPT !.pc = "idle", !.saw = a]  OBVIOUS
<1>4. Ended(c) = [call EXCEPT ![c] = new]  BY <1>1, <1>2, <1>3 DEF Ended, CallType
<1>5. new = [pc |-> "idle", saw |-> a]  BY <1>1, <1>3
<1>6. QED  BY <1>1, <1>4, <1>5 DEF CallType

\* What becomes of the calls when one is made again: the codes that others hold are outdated.
Outdates(c) == [d \in Call |-> IF call[d].pc = "verify" THEN [call[d] EXCEPT !.pc = "outdated"]
                                                        ELSE Ended(c)[d]]

LEMMA OutdatesCalls ==
    ASSUME TrustInv, NEW c \in Call, call[c].pc = "register", account' \in Account
    PROVE  /\ Outdates(c) \in CallType
           /\ \A d \in Call : \/ Outdates(c)[d].pc = "idle"
                              \/ Outdates(c)[d] = call[d]
                              \/ /\ Outdates(c)[d].pc = "outdated" /\ call[d].pc = "verify"
                                 /\ Outdates(c)[d].saw = call[d].saw
<1>1. ASSUME NEW d \in Call PROVE call[d].pc \in {"idle", "register", "verify", "outdated",
                                                  "login", "profile"} /\ call[d].saw \in Account
                                  /\ call[d] = [pc |-> call[d].pc, saw |-> call[d].saw]
  <2>1. call[d] \in [pc : {"idle", "register", "verify", "outdated", "login", "profile"},
                     saw : Account]
    BY DEF TrustInv, TrustTypeOK
  <2>2. QED  BY <2>1
<1>2. ASSUME NEW d \in Call
      PROVE  /\ \/ Outdates(c)[d].pc = "idle"
                \/ Outdates(c)[d] = call[d]
                \/ /\ Outdates(c)[d].pc = "outdated" /\ call[d].pc = "verify"
                   /\ Outdates(c)[d].saw = call[d].saw
             /\ Outdates(c)[d] \in [pc : {"idle", "register", "verify", "outdated", "login",
                                          "profile"}, saw : Account]
  <2>1. CASE call[d].pc = "verify"
    <3>1. PICK a \in Account : a = call[d].saw /\ call[d] = [pc |-> "verify", saw |-> a]
      BY <1>1, <2>1
    <3>2. [call[d] EXCEPT !.pc = "outdated"] = [pc |-> "outdated", saw |-> a]  BY <3>1
    <3>3. Outdates(c)[d] = [pc |-> "outdated", saw |-> a]  BY <2>1, <3>2 DEF Outdates
    <3>4. QED  BY <2>1, <3>1, <3>3
  <2>2. CASE call[d].pc # "verify"
    <3>1. Outdates(c)[d] = Ended(c)[d]  BY <2>2 DEF Outdates
    <3>2. QED  BY <3>1, CallEnds DEF CallType
  <2>3. QED  BY <2>1, <2>2
<1>3. QED  BY <1>2 DEF Outdates, CallType

LEMMA CallSteps ==
    ASSUME TrustInv, NEW c \in Call,
           Reregister(c) \/ VerifyEmail(c) \/ Login(c) \/ ChangePhone(c)
    PROVE  TrustInv'
<1> DEFINE saw == call[c].saw
<1>1. account \in Account /\ saw \in Account /\ saw.level \in Level
  BY DEF TrustInv, TrustTypeOK, Account
<1>2. Follows(account)  BY <1>1 DEF TrustInv, DecisionStands, Follows
<1>3. CASE Follows(account') /\ call' = Ended(c) /\ rules' = rules /\ crossed' \in BOOLEAN
           /\ struck' \in BOOLEAN
  BY <1>3, CallEnds, FollowsIsKept DEF Follows
<1>4. crossed \in BOOLEAN /\ struck \in BOOLEAN  BY DEF TrustInv, TrustTypeOK
<1>5. CASE Reregister(c)
  <2>1. PICK p \in Policy :
           /\ account' = [account EXCEPT !.student = p.university,
                            !.level = AutomaticLevel(IF p.university
                                                     THEN Bigger(saw.level, p.studentLevel)
                                                     ELSE saw.level)]
           /\ struck' = (struck \/ (saw.student /\ ~p.university /\ account'.level = 2))
    BY <1>5 DEF Reregister
  <2>2. p.university \in BOOLEAN /\ p.studentLevel \in Level  BY DEF Policy
  <2>3. PICK level \in Level : level = IF p.university THEN Bigger(saw.level, p.studentLevel)
                                                       ELSE saw.level
    BY <1>1, <2>2 DEF Bigger
  <2>4. Follows(account')  BY <2>1, <2>2, <2>3, LevelFollows
  <2>5. call' = Outdates(c) /\ call[c].pc = "register" /\ UNCHANGED <<rules, crossed>>
    BY <1>5 DEF Reregister, Outdates
  <2>6. call' \in CallType  BY <2>4, <2>5, OutdatesCalls DEF Follows
  <2>7. struck' \in BOOLEAN  BY <1>4, <2>1
  <2>8. QED  BY <1>4, <2>4, <2>5, <2>6, <2>7, FollowsIsKept
<1>6. CASE VerifyEmail(c)
  <2>1. CASE UNCHANGED account  BY <1>2, <1>3, <1>4, <1>6, <2>1 DEF VerifyEmail, lapses, Follows
  <2>2. CASE \E p \in Policy :
               account' = [account EXCEPT !.verified = TRUE, !.student = Upgraded(saw, p).student,
                                          !.level = AutomaticLevel(Upgraded(saw, p).level)]
    <3>1. PICK p \in Policy : account' = [account EXCEPT !.verified = TRUE, !.student = Upgraded(saw, p).student,
                                            !.level = AutomaticLevel(Upgraded(saw, p).level)]
      BY <2>2
    <3>2. PICK level \in Level, student \in BOOLEAN :
             level = Upgraded(saw, p).level /\ student = Upgraded(saw, p).student
      BY <1>1, UpgradedTyped
    <3>3. Follows(account')  BY <3>1, <3>2, LevelFollows
    <3>4. QED  BY <1>3, <1>4, <1>6, <3>3 DEF VerifyEmail, lapses
  <2>3. QED  BY <1>6, <2>1, <2>2 DEF VerifyEmail
<1>7. CASE Login(c)
  <2>1. CASE UNCHANGED account  BY <1>2, <1>3, <1>4, <1>7, <2>1 DEF Login, lapses, Follows
  <2>2. CASE \E p \in Policy :
               account' = [account EXCEPT !.student = Upgraded(saw, p).student,
                                          !.level = AutomaticLevel(Upgraded(saw, p).level)]
    <3>1. PICK p \in Policy : account' = [account EXCEPT !.student = Upgraded(saw, p).student,
                                            !.level = AutomaticLevel(Upgraded(saw, p).level)]
      BY <2>2
    <3>2. PICK level \in Level, student \in BOOLEAN :
             level = Upgraded(saw, p).level /\ student = Upgraded(saw, p).student
      BY <1>1, UpgradedTyped
    <3>3. Follows(account')  BY <3>1, <3>2, LevelFollows
    <3>4. QED  BY <1>3, <1>4, <1>7, <3>3 DEF Login, lapses
  <2>3. QED  BY <1>7, <2>1, <2>2 DEF Login
<1>8. CASE ChangePhone(c)
  <2>1. Follows(account')
    <3>1. CASE PhoneOnly(saw)
      <4>1. account' = [account EXCEPT !.phone = FALSE, !.level = AutomaticLevel(1)]
        BY <1>8, <3>1 DEF ChangePhone
      <4>2. QED  BY <4>1, LevelFollows DEF Level
    <3>2. CASE ~PhoneOnly(saw)
      <4>1. account' = [account EXCEPT !.phone = FALSE, !.level = account.level]
        BY <1>8, <3>2 DEF ChangePhone
      <4>2. QED  BY <1>1, <1>2, <4>1 DEF Follows, Account
    <3>3. QED  BY <3>1, <3>2
  <2>2. rules' = rules /\ call' = Ended(c) /\ struck' = struck  BY <1>8 DEF ChangePhone
  <2>3. crossed' \in BOOLEAN  BY <1>4, <1>8 DEF ChangePhone
  <2>4. QED  BY <1>3, <1>4, <2>1, <2>2, <2>3
<1>9. QED  BY <1>5, <1>6, <1>7, <1>8

LEMMA DecidedSteps ==
    ASSUME TrustInv, NEW level \in Level, Decided(level), UNCHANGED <<rules, call, crossed, struck>>
    PROVE  TrustInv'
<1>1. account' \in Account /\ account'.override = level /\ account'.level = level
  BY DEF TrustInv, TrustTypeOK, Decided, Account, Override
<1>2. QED  BY <1>1 DEF TrustInv, TrustTypeOK, DecisionStands

LEMMA TrustStep == ASSUME TrustInv, TrustNext PROVE TrustInv'
<1>1. account \in Account  BY DEF TrustInv, TrustTypeOK
<1>2. CASE VerifyPhone
  <2>1. Derived \in Level /\ (account.override # 0 => Derived = account.override)
    <3>1. CASE account.override # 0
      <4>1. Derived = account.override  BY <3>1 DEF Derived
      <4>2. QED  BY <1>1, <3>1, <4>1 DEF Account, Override
    <3>2. CASE account.override = 0
      <4>1. Derived = IF account.student \/ account.approved \/ account.policy
                         \/ rules.phonePromotes THEN 2 ELSE 1
        BY <3>2 DEF Derived
      <4>2. QED  BY <3>2, <4>1 DEF Level
    <3>3. QED  BY <3>1, <3>2
  <2>2. PICK n \in Level : n = Derived  BY <2>1
  <2>3. account' = [account EXCEPT !.phone = TRUE, !.level = n]  BY <1>2, <2>2 DEF VerifyPhone
  <2>4. account' \in Account  BY <1>1, <2>3 DEF Account
  <2>5. account'.override = account.override /\ account'.level = n  BY <1>1, <2>3 DEF Account
  <2>6. QED
    BY <1>2, <2>1, <2>2, <2>4, <2>5
    DEF VerifyPhone, lapses, TrustInv, TrustTypeOK, DecisionStands
<1>3. CASE Promote  BY <1>3, DecidedSteps DEF Promote, lapses, Level
<1>4. CASE Demote  BY <1>4, DecidedSteps DEF Demote, lapses, Level
<1>5. ASSUME NEW c \in Call, NEW pc \in {"register", "verify", "login", "profile"}, Read(c, pc)
      PROVE  TrustInv'
  <2>1. call' \in CallType
    BY <1>1, <1>5 DEF Read, TrustInv, TrustTypeOK, CallType
  <2>2. QED  BY <1>5, <2>1 DEF Read, lapses, TrustInv, TrustTypeOK, DecisionStands, CallType
<1>6. QED  BY <1>2, <1>3, <1>4, <1>5, CallSteps DEF TrustNext

LEMMA TrustInvariant == TrustSpec => []TrustInv
<1>1. TrustInv /\ [TrustNext]_trustVars => TrustInv'
  <2> SUFFICES ASSUME TrustInv, [TrustNext]_trustVars PROVE TrustInv'
    OBVIOUS
  <2>1. CASE TrustNext  BY <2>1, TrustStep
  <2>2. CASE UNCHANGED trustVars
    BY <2>2 DEF trustVars, lapses, TrustInv, TrustTypeOK, DecisionStands
  <2>3. QED  BY <2>1, <2>2
<1>2. QED  BY <1>1, TrustStart, PTL DEF TrustSpec

\* An administrator's decision on a trust level stands: no login, registration,
\* profile change or verification that read the account before it undoes it
\* (automaticTrustFields, deriveTrustLevel).
THEOREM DecisionsStand == TrustSpec => []DecisionStands
<1>1. TrustInv => DecisionStands  BY DEF TrustInv
<1>2. QED  BY <1>1, TrustInvariant, PTL

(* The grounds of a level *)

\* What makes a level of an account one it may have.
Grounded(a) ==
    a.level = 2 =>
        \/ a.override = 2 \/ a.policy \/ crossed \/ struck
        \/ a.student \/ (a.phone /\ rules.phonePromotes)

\* A request read an account whose level had grounds; until an administrator decides,
\* the registration policy is still as it read it.  Before the address is verified
\* there is no phone.
SawGrounds(c) ==
    call[c].pc # "idle" =>
        /\ Grounded(call[c].saw)
        /\ call[c].saw.override # 0 => account.override # 0
        /\ account.override = 0 => (call[c].saw.policy <=> account.policy)
        /\ call[c].pc \in {"register", "verify"} => ~call[c].saw.phone

AccountSound ==
    /\ Grounded(account)
    /\ account.approved => account.override = 2
    /\ account.phone => account.verified

GroundsInv == AccountSound /\ \A c \in Call : SawGrounds(c)

LEMMA GroundsStart == TrustInit => GroundsInv
<1> SUFFICES ASSUME TrustInit PROVE GroundsInv
  OBVIOUS
<1>1. PICK p \in Policy :
         account = [level |-> NewLevel(p), override |-> 0, verified |-> FALSE,
                    student |-> p.university, phone |-> FALSE, approved |-> FALSE,
                    policy |-> rules.newAtLevel2]
  BY DEF TrustInit
<1>2. NewLevel(p) = 2 => rules.newAtLevel2 \/ p.university  BY DEF NewLevel
<1>3. AccountSound  BY <1>1, <1>2 DEF AccountSound, Grounded
<1>4. \A c \in Call : call[c].pc = "idle"  BY DEF TrustInit
<1>5. QED  BY <1>3, <1>4 DEF GroundsInv, SawGrounds

\* The account changes in what the requests under way do not depend on.
LEMMA GroundsStay ==
    ASSUME GroundsInv, AccountSound', UNCHANGED rules, crossed => crossed', struck => struck',
           account.override # 0 => account'.override # 0,
           account'.override = 0 => (account'.policy <=> account.policy),
           \A c \in Call : \/ call'[c].pc = "idle"
                           \/ call'[c] = call[c]
                           \/ /\ call'[c].pc = "outdated" /\ call[c].pc = "verify"
                              /\ call'[c].saw = call[c].saw
    PROVE  GroundsInv'
<1>1. ASSUME NEW c \in Call, call'[c].pc # "idle" PROVE SawGrounds(c)'
  <2>1. /\ SawGrounds(c) /\ call'[c].saw = call[c].saw /\ call[c].pc # "idle"
        /\ call'[c].pc \in {"register", "verify"} => call[c].pc \in {"register", "verify"}
    BY <1>1 DEF GroundsInv
  <2>2. \A a : Grounded(a) => Grounded(a)'  BY DEF Grounded
  <2>3. QED  BY <1>1, <2>1, <2>2 DEF SawGrounds
<1>2. QED  BY <1>1 DEF GroundsInv, SawGrounds

LEMMA ReadsGrounds ==
    ASSUME TrustInv, GroundsInv, NEW c \in Call,
           \/ ~account.verified /\ (Read(c, "register") \/ Read(c, "verify"))
           \/ account.verified /\ (Read(c, "login") \/ Read(c, "profile"))
    PROVE  GroundsInv'
<1>1. UNCHANGED <<rules, account, crossed, struck>>  BY DEF Read, lapses
<1>2. AccountSound'  BY <1>1 DEF GroundsInv, AccountSound, Grounded
<1>3. PICK pc : /\ call' = [call EXCEPT ![c] = [pc |-> pc, saw |-> account]]
                /\ pc \in {"register", "verify"} => ~account.verified
  BY DEF Read
<1>4. ASSUME NEW d \in Call PROVE SawGrounds(d)'
  <2>1. CASE d = c
    <3>1. call'[d].saw = account /\ call'[d].pc = pc
      BY <1>3, <2>1 DEF TrustInv, TrustTypeOK
    <3>2. QED  BY <1>1, <1>2, <1>3, <3>1 DEF SawGrounds, AccountSound
  <2>2. CASE d # c
    <3>1. call'[d] = call[d] /\ SawGrounds(d)
      BY <1>3, <2>2 DEF TrustInv, TrustTypeOK, GroundsInv
    <3>2. QED  BY <1>1, <3>1 DEF SawGrounds, Grounded
  <2>3. QED  BY <2>1, <2>2
<1>5. QED  BY <1>2, <1>4 DEF GroundsInv

\* What an automatic write of a registration leaves: its level, its student mark.
Rewritten(level, student) ==
    /\ account'.level = AutomaticLevel(level) /\ (account'.student <=> student)
    /\ account'.override = account.override /\ (account'.policy <=> account.policy)
    /\ (account'.approved <=> account.approved)
    /\ (account'.phone <=> account.phone) /\ (account.verified => account'.verified)

\* Where no university vouches for a level that is written, the request saw an account
\* without a phone, whose grounds still hold, have given way to a decision, or are the
\* student mark that it takes.
LEMMA RewrittenHasGrounds ==
    ASSUME TrustInv, GroundsInv, NEW c \in Call, NEW level, NEW student,
           call[c].pc \in {"register", "verify"}, Rewritten(level, student),
           \/ student
           \/ /\ level = call[c].saw.level
              /\ call[c].saw.student /\ account'.level = 2 => struck',
           rules' = rules, crossed' = crossed, struck => struck'
    PROVE  AccountSound'
<1>1. /\ account \in Account /\ SawGrounds(c) /\ AccountSound /\ account.override \in Override
      /\ call[c].saw \in Account
  BY DEF TrustInv, TrustTypeOK, Account, GroundsInv
<1>2. Grounded(account)'
  <2>1. SUFFICES ASSUME account'.level = 2, ~student, account.override # 2, ~struck'
                 PROVE  account.policy \/ crossed
    BY DEF Grounded, Rewritten
  <2>2. account.override = 0 /\ level = 2
    BY <1>1, <2>1 DEF Rewritten, AutomaticLevel, TrustInv, DecisionStands
  <2>3. call[c].saw.level = 2 /\ call[c].saw.override = 0 /\ ~call[c].saw.phone
        /\ ~call[c].saw.student
    BY <1>1, <2>1, <2>2 DEF SawGrounds
  <2>4. call[c].saw.policy \/ crossed  BY <1>1, <2>1, <2>3 DEF SawGrounds, Grounded
  <2>5. QED  BY <1>1, <2>2, <2>3, <2>4 DEF SawGrounds
<1>3. QED  BY <1>1, <1>2 DEF AccountSound, Rewritten

LEMMA CallsGrounds ==
    ASSUME TrustInv, GroundsInv, NEW c \in Call,
           Reregister(c) \/ VerifyEmail(c) \/ Login(c) \/ ChangePhone(c)
    PROVE  GroundsInv'
<1> DEFINE saw == call[c].saw
<1>1. /\ account \in Account /\ saw \in Account /\ AccountSound /\ rules' = rules
      /\ account' \in Account
  <2>1. TrustInv'  BY CallSteps
  <2>2. QED
    BY <2>1 DEF TrustInv, TrustTypeOK, GroundsInv, Reregister, VerifyEmail, Login, ChangePhone
<1>2. SawGrounds(c)  BY DEF GroundsInv
<1>3. ASSUME call' = Ended(c)
      PROVE  \A d \in Call : call'[d].pc = "idle" \/ call'[d] = call[d]
  BY <1>1, <1>3, CallEnds
<1>4. CASE Reregister(c)
  <2>1. PICK p \in Policy :
           /\ account' = [account EXCEPT !.student = p.university,
                            !.level = AutomaticLevel(IF p.university
                                                     THEN Bigger(saw.level, p.studentLevel)
                                                     ELSE saw.level)]
           /\ struck' = (struck \/ (saw.student /\ ~p.university /\ account'.level = 2))
    BY <1>4 DEF Reregister
  <2>2. PICK level : level = IF p.university THEN Bigger(saw.level, p.studentLevel)
                                             ELSE saw.level
    OBVIOUS
  <2>3. PICK n, student : n = AutomaticLevel(level) /\ student = p.university  OBVIOUS
  <2>4. account' = [account EXCEPT !.student = student, !.level = n]  BY <2>1, <2>2, <2>3
  <2>5. Rewritten(level, student) /\ account'.override = account.override
    BY <1>1, <2>3, <2>4 DEF Rewritten, Account
  <2>6. call[c].pc = "register" /\ call' = Outdates(c) /\ UNCHANGED <<rules, crossed>>
    BY <1>4 DEF Reregister, Outdates
  <2>7. \/ student
        \/ /\ level = call[c].saw.level
           /\ call[c].saw.student /\ account'.level = 2 => struck'
    BY <2>1, <2>2, <2>3
  <2>8. struck => struck'  BY <2>1
  <2>9. AccountSound'  BY <2>5, <2>6, <2>7, <2>8, RewrittenHasGrounds
  <2>10. QED  BY <1>1, <2>5, <2>6, <2>8, <2>9, OutdatesCalls, GroundsStay DEF Rewritten
<1>5. CASE VerifyEmail(c)
  <2>1. call' = Ended(c) /\ UNCHANGED <<rules, crossed, struck>>  BY <1>5 DEF VerifyEmail, lapses
  <2>2. CASE UNCHANGED account
    <3>1. AccountSound'  BY <1>1, <2>1, <2>2 DEF AccountSound, Grounded
    <3>2. QED  BY <1>3, <2>1, <2>2, <3>1, GroundsStay
  <2>3. CASE ~UNCHANGED account
    <3>1. PICK p \in Policy :
             /\ call[c].pc = "verify"
             /\ account' = [account EXCEPT !.verified = TRUE, !.student = Upgraded(saw, p).student,
                                           !.level = AutomaticLevel(Upgraded(saw, p).level)]
      BY <1>5, <2>3 DEF VerifyEmail
    <3>2. PICK level, student : level = Upgraded(saw, p).level /\ student = Upgraded(saw, p).student
      OBVIOUS
    <3>3. PICK n : n = AutomaticLevel(level)  OBVIOUS
    <3>4. account' = [account EXCEPT !.verified = TRUE, !.student = student, !.level = n]
      BY <3>1, <3>2, <3>3
    <3>5. Rewritten(level, student) /\ account'.override = account.override
      BY <1>1, <3>3, <3>4 DEF Rewritten, Account
    <3>6. student \/ (level = saw.level /\ student = saw.student)
      BY <1>1, <3>2, UpgradedTyped DEF Policy
    <3>7. \/ student
          \/ /\ level = call[c].saw.level
             /\ call[c].saw.student /\ account'.level = 2 => struck'
      BY <3>6
    <3>8. AccountSound'  BY <2>1, <3>1, <3>5, <3>7, RewrittenHasGrounds
    <3>9. QED  BY <1>3, <2>1, <3>5, <3>8, GroundsStay DEF Rewritten
  <2>4. QED  BY <2>2, <2>3
<1>6. CASE Login(c)
  <2>1. call' = Ended(c) /\ UNCHANGED <<rules, crossed, struck>>  BY <1>6 DEF Login, lapses
  <2>2. AccountSound' /\ account'.override = account.override
        /\ (account'.policy <=> account.policy)
    <3>1. CASE UNCHANGED account  BY <1>1, <2>1, <3>1 DEF AccountSound, Grounded
    <3>2. CASE ~UNCHANGED account
      <4>1. PICK p \in Policy :
               /\ Upgraded(saw, p) # saw \/ p.university
               /\ account' = [account EXCEPT !.student = Upgraded(saw, p).student,
                                             !.level = AutomaticLevel(Upgraded(saw, p).level)]
        BY <1>6, <3>2 DEF Login
      <4>2. Upgraded(saw, p).student  BY <1>1, <4>1, UpgradedTyped DEF Policy
      <4>3. PICK student, n : /\ student = Upgraded(saw, p).student
                              /\ n = AutomaticLevel(Upgraded(saw, p).level)
        OBVIOUS
      <4>4. account' = [account EXCEPT !.student = student, !.level = n]  BY <4>1, <4>3
      <4>5. /\ account'.student <=> student
            /\ account'.override = account.override /\ account'.policy = account.policy
            /\ account'.approved = account.approved /\ account'.phone = account.phone
            /\ account'.verified = account.verified
        BY <1>1, <4>4 DEF Account
      <4>6. QED  BY <1>1, <4>2, <4>3, <4>5 DEF AccountSound, Grounded
    <3>3. QED  BY <3>1, <3>2
  <2>3. QED  BY <1>3, <2>1, <2>2, GroundsStay
<1>7. CASE ChangePhone(c)
  <2>1. PICK n : n = IF PhoneOnly(saw) THEN AutomaticLevel(1) ELSE account.level  OBVIOUS
  <2>2. account' = [account EXCEPT !.phone = FALSE, !.level = n]  BY <1>7, <2>1 DEF ChangePhone
  <2>3. /\ account'.level = n /\ ~account'.phone /\ account'.override = account.override
        /\ (account'.policy <=> account.policy) /\ (account'.approved <=> account.approved)
        /\ (account'.student <=> account.student)
    BY <1>1, <2>2 DEF Account
  <2>4. /\ crossed' <=> (crossed \/ (account.phone /\ saw # account))
        /\ struck' = struck /\ call' = Ended(c)
    BY <1>7 DEF ChangePhone
  <2>5. Grounded(account)'
    <3>1. SUFFICES ASSUME n = 2, account.override # 2, ~crossed', ~account.student, ~struck
                   PROVE  account.policy
      BY <1>1, <2>3, <2>4 DEF Grounded
    <3>2. ~PhoneOnly(saw)
      BY <1>1, <2>1, <3>1 DEF AutomaticLevel
    <3>3. account.level = 2 /\ ~crossed  BY <2>1, <2>4, <3>1, <3>2
    <3>4. CASE ~account.phone  BY <1>1, <3>1, <3>3, <3>4 DEF AccountSound, Grounded
    <3>5. CASE account.phone
      <4>1. saw = account  BY <2>4, <3>1, <3>5
      <4>2. account.student \/ account.approved \/ account.policy
        BY <3>2, <3>3, <3>5, <4>1 DEF PhoneOnly
      <4>3. QED  BY <1>1, <3>1, <4>2 DEF AccountSound
    <3>6. QED  BY <3>4, <3>5
  <2>6. AccountSound'  BY <1>1, <2>3, <2>5 DEF AccountSound
  <2>7. QED  BY <1>1, <1>3, <2>3, <2>4, <2>6, GroundsStay
<1>8. QED  BY <1>4, <1>5, <1>6, <1>7

LEMMA PhoneGrounds == ASSUME TrustInv, GroundsInv, VerifyPhone PROVE GroundsInv'
<1>1. /\ account \in Account /\ AccountSound /\ account.verified
      /\ UNCHANGED <<rules, call, crossed, struck>>
  BY DEF TrustInv, TrustTypeOK, GroundsInv, VerifyPhone, lapses
<1>2. PICK n : n = Derived  OBVIOUS
<1>3. account' = [account EXCEPT !.phone = TRUE, !.level = n]  BY <1>2 DEF VerifyPhone
<1>4. /\ account'.level = n /\ account'.phone /\ account'.override = account.override
      /\ (account'.policy <=> account.policy) /\ (account'.approved <=> account.approved)
      /\ (account'.student <=> account.student) /\ (account'.verified <=> account.verified)
  BY <1>1, <1>3 DEF Account
<1>5. AccountSound'  BY <1>1, <1>2, <1>4 DEF AccountSound, Grounded, Derived
<1>6. QED  BY <1>1, <1>4, <1>5, GroundsStay

LEMMA DecisionGrounds ==
    ASSUME TrustInv, GroundsInv, NEW level \in Level, Decided(level),
           UNCHANGED <<rules, call, crossed, struck>>
    PROVE  GroundsInv'
<1>1. account \in Account /\ AccountSound  BY DEF TrustInv, TrustTypeOK, GroundsInv
<1>2. /\ account'.level = level /\ account'.override = level
      /\ (account'.approved <=> level = 2)
      /\ (account'.student <=> account.student) /\ (account'.verified <=> account.verified)
      /\ (account'.phone <=> account.phone)
  BY <1>1 DEF Account, Decided
<1>3. AccountSound'  BY <1>1, <1>2 DEF AccountSound, Grounded
<1>4. level # 0  BY DEF Level
<1>5. QED  BY <1>2, <1>3, <1>4, GroundsStay

\* The second level has grounds that hold now, whatever registrations, logins, profile
\* changes, verifications and decisions interleave on reads of the account that have
\* gone stale and under settings that change between them, but for the two lapses that
\* LevelHasGrounds names (utils/trustPolicy.ts, automaticTrustFields, registerLogic).
THEOREM LevelsHaveGrounds == TrustSpec => []LevelHasGrounds
<1>1. TrustInv /\ GroundsInv /\ [TrustNext]_trustVars => GroundsInv'
  <2> SUFFICES ASSUME TrustInv, GroundsInv, [TrustNext]_trustVars PROVE GroundsInv'
    OBVIOUS
  <2>1. CASE UNCHANGED trustVars
    <3>1. UNCHANGED <<rules, account, call, crossed, struck>>  BY <2>1 DEF trustVars, lapses
    <3>2. AccountSound'  BY <3>1 DEF GroundsInv, AccountSound, Grounded
    <3>3. QED  BY <3>1, <3>2, GroundsStay
  <2>2. CASE Promote \/ Demote
    BY <2>2, DecisionGrounds DEF Promote, Demote, lapses, Level
  <2>3. QED
    BY <2>1, <2>2, ReadsGrounds, CallsGrounds, PhoneGrounds DEF TrustNext
<1>2. GroundsInv => LevelHasGrounds
  BY DEF GroundsInv, AccountSound, Grounded, LevelHasGrounds
<1>3. QED  BY <1>1, <1>2, GroundsStart, TrustInvariant, PTL DEF TrustSpec

-----------------------------------------------------------------------------
(* The lease of a job *)

TaskType == [item : Item, booking : 0 .. MaxBookings, pc : {"claim", "notify", "undo"}]
RunType  == [pc : {"idle", "begin", "scan", "work", "release"},
             tasks : SUBSET TaskType, failed : BOOLEAN]

LeaseType == [by : Server \cup {Nobody, Gone}, left : Int]

JobsTyped ==
    /\ lease \in LeaseType
    /\ item \in [Item -> [booking : 0 .. MaxBookings, open : BOOLEAN, reminded : BOOLEAN]]
    /\ job \in [Server -> RunType]

LeaseInv == JobsTyped /\ LeaseHeld

LEMMA LeaseStart == JobsInit => LeaseInv
<1> SUFFICES ASSUME JobsInit PROVE LeaseInv
  OBVIOUS
<1>1. 0 \in 0 .. MaxBookings  BY JobsAssumption
<1>2. NoRun \in RunType  BY DEF NoRun, RunType
<1>3. JobsTyped  BY <1>1, <1>2 DEF JobsInit, JobsTyped, LeaseType
<1>4. LeaseHeld  BY DEF JobsInit, LeaseHeld, Running, NoRun
<1>5. QED  BY <1>3, <1>4 DEF LeaseInv

\* The run of one process changes.
LEMMA OneRun ==
    ASSUME LeaseInv, NEW s \in Server, NEW run \in RunType, job' = [job EXCEPT ![s] = run]
    PROVE  /\ job' \in [Server -> RunType] /\ job'[s] = run
           /\ \A p \in Server \ {s} : job'[p] = job[p]
BY DEF LeaseInv, JobsTyped

\* The run of s goes on or stops; the lease and its lapses are left alone, or s stops
\* and gives up no lease but its own.
LEMMA RunGoesOn ==
    ASSUME LeaseInv, NEW s \in Server, NEW run \in RunType, job' = [job EXCEPT ![s] = run],
           item' \in [Item -> [booking : 0 .. MaxBookings, open : BOOLEAN, reminded : BOOLEAN]],
           \/ /\ UNCHANGED <<lease, lapsed>>
              /\ run.pc \in {"begin", "scan", "work"} => Running(s)
           \/ /\ run.pc = "idle" /\ lapsed' = lapsed \ {s} /\ lease' \in LeaseType
              /\ lease.by # s => lease' = lease
    PROVE  LeaseInv'
<1>1. JobsTyped'  BY OneRun DEF LeaseInv, JobsTyped
<1>2. ASSUME NEW p \in Server, Running(p)' PROVE lease'.by = p \/ p \in lapsed'
  <2>1. Running(p)  BY <1>2, OneRun DEF Running
  <2>2. lease.by = p \/ p \in lapsed  BY <2>1 DEF LeaseInv, LeaseHeld
  <2>3. CASE UNCHANGED <<lease, lapsed>>  BY <2>2, <2>3
  <2>4. CASE run.pc = "idle" /\ lapsed' = lapsed \ {s} /\ (lease.by # s => lease' = lease)
    <3>1. p # s  BY <1>2, <2>4, OneRun DEF Running
    <3>2. QED  BY <2>2, <2>4, <3>1
  <2>5. QED  BY <2>3, <2>4
<1>3. QED  BY <1>1, <1>2 DEF LeaseInv, LeaseHeld

LEMMA TaskSteps ==
    ASSUME LeaseInv, NEW s \in Server, NEW t \in job[s].tasks, Task(s, t)
    PROVE  LeaseInv'
<1>1. /\ job[s] \in RunType /\ t \in TaskType /\ t.item \in Item
      /\ item \in [Item -> [booking : 0 .. MaxBookings, open : BOOLEAN, reminded : BOOLEAN]]
  BY DEF LeaseInv, JobsTyped, RunType, TaskType
<1>2. \A pc \in {"claim", "notify", "undo"} : [t EXCEPT !.pc = pc] \in TaskType
  BY <1>1 DEF TaskType
<1>3. PICK tasks \in SUBSET TaskType, failed \in BOOLEAN :
         job' = [job EXCEPT ![s] = [job[s] EXCEPT !.tasks = tasks, !.failed = failed]]
  <2>1. job[s].tasks \in SUBSET TaskType /\ job[s].failed \in BOOLEAN  BY <1>1 DEF RunType
  <2>2. ASSUME NEW tasks \in SUBSET TaskType, job' = [job EXCEPT ![s].tasks = tasks]
        PROVE  job' = [job EXCEPT ![s] = [job[s] EXCEPT !.tasks = tasks, !.failed = job[s].failed]]
    BY <1>1, <2>2 DEF RunType
  <2>3. CASE job' = Done(s, t)
    <3>1. PICK tasks \in SUBSET TaskType : tasks = job[s].tasks \ {t}  BY <2>1
    <3>2. job' = [job EXCEPT ![s].tasks = tasks]  BY <2>3, <3>1 DEF Done
    <3>3. QED  BY <2>1, <2>2, <3>2
  <2>4. ASSUME NEW pc \in {"claim", "notify", "undo"}, job' = Moves(s, t, pc)
        PROVE  \E tasks \in SUBSET TaskType : job' = [job EXCEPT ![s].tasks = tasks]
    BY <1>2, <2>1, <2>4 DEF Moves
  <2>5. CASE job' = Failed(s, t)
    <3>1. (job[s].tasks \ {t}) \cup {[t EXCEPT !.pc = "undo"]} \in SUBSET TaskType
      BY <1>2, <2>1
    <3>2. job' = [job EXCEPT ![s] = [job[s] EXCEPT !.failed = TRUE,
                     !.tasks = (job[s].tasks \ {t}) \cup {[t EXCEPT !.pc = "undo"]}]]
      BY <2>5 DEF Failed
    <3>3. QED  BY <1>1, <3>1, <3>2 DEF RunType
  <2>6. CASE job' = [Done(s, t) EXCEPT ![s].failed = TRUE]
    <3>1. job[s].tasks \ {t} \in SUBSET TaskType  BY <2>1
    <3>2. job' = [job EXCEPT ![s] = [job[s] EXCEPT !.tasks = job[s].tasks \ {t}, !.failed = TRUE]]
      BY <1>1, <2>6 DEF Done, LeaseInv, JobsTyped
    <3>3. QED  BY <3>1, <3>2
  <2>7. QED
    BY <2>1, <2>2, <2>3, <2>4, <2>5, <2>6 DEF Task, Claim, ClaimFails, Notify, NotifyFails, Undo
<1>4. [job[s] EXCEPT !.tasks = tasks, !.failed = failed] \in RunType
      /\ [job[s] EXCEPT !.tasks = tasks, !.failed = failed].pc = job[s].pc
  BY <1>1 DEF RunType
<1>5. item' \in [Item -> [booking : 0 .. MaxBookings, open : BOOLEAN, reminded : BOOLEAN]]
  <2>1. \A b \in BOOLEAN : [item EXCEPT ![t.item].reminded = b]
           \in [Item -> [booking : 0 .. MaxBookings, open : BOOLEAN, reminded : BOOLEAN]]
    BY <1>1
  <2>2. QED  BY <1>1, <2>1 DEF Task, Claim, ClaimFails, Claimed, Notify, NotifyFails, Undo
<1>6. UNCHANGED <<lease, lapsed>>  BY DEF Task, Claim, ClaimFails, Notify, NotifyFails, Undo
<1>7. QED  BY <1>3, <1>4, <1>5, <1>6, RunGoesOn DEF Running

LEMMA RunSteps ==
    ASSUME LeaseInv, NEW s \in Server, Begin(s) \/ Scan(s) \/ End(s) \/ Release(s) \/ Crash(s)
    PROVE  LeaseInv'
<1>1. /\ job[s] \in RunType
      /\ item \in [Item -> [booking : 0 .. MaxBookings, open : BOOLEAN, reminded : BOOLEAN]]
  BY DEF LeaseInv, JobsTyped
<1>2. NoRun \in RunType /\ [NoRun EXCEPT !.pc = "release"] \in RunType
      /\ NoRun.pc = "idle" /\ [NoRun EXCEPT !.pc = "release"].pc = "release"
  BY DEF NoRun, RunType
<1>3. CASE Begin(s)
  <2>1. [job[s] EXCEPT !.pc = "scan"] \in RunType /\ [job[s] EXCEPT !.pc = "scan"].pc = "scan"
    BY <1>1 DEF RunType
  <2>2. job' = [job EXCEPT ![s] = [job[s] EXCEPT !.pc = "scan"]]
        /\ UNCHANGED <<lease, lapsed, item>> /\ Running(s)
    BY <1>3 DEF Begin, Running
  <2>3. QED  BY <1>1, <2>1, <2>2, RunGoesOn
<1>4. CASE Scan(s)
  <2>1. PICK tasks : /\ tasks = {[item |-> i, booking |-> item[i].booking, pc |-> "claim"] :
                                   i \in {x \in Item : item[x].open /\ ~item[x].reminded}}
                     /\ job' = [job EXCEPT ![s] = [job[s] EXCEPT !.pc = "work", !.tasks = tasks]]
    BY <1>4 DEF Scan
  <2>2. tasks \in SUBSET TaskType  BY <1>1, <2>1 DEF TaskType
  <2>3. [job[s] EXCEPT !.pc = "work", !.tasks = tasks] \in RunType  BY <1>1, <2>2 DEF RunType
  <2>4. UNCHANGED <<lease, lapsed, item>> /\ Running(s)  BY <1>4 DEF Scan, Running
  <2>5. QED  BY <1>1, <2>1, <2>3, <2>4, RunGoesOn
<1>5. CASE End(s)
  <2>1. job' = [job EXCEPT ![s] = [NoRun EXCEPT !.pc = "release"]]
        /\ UNCHANGED <<lease, lapsed, item>>
    BY <1>5 DEF End
  <2>2. QED  BY <1>1, <1>2, <2>1, RunGoesOn
<1>6. CASE Release(s) \/ Crash(s)
  <2>1. /\ job' = [job EXCEPT ![s] = NoRun] /\ lapsed' = lapsed \ {s}
        /\ lease.by # s => lease' = lease
        /\ item' = item
    BY <1>6 DEF Release, Crash, Freed
  <2>2. lease' \in LeaseType
    <3>1. [by |-> Nobody, left |-> 0] \in LeaseType /\ lease \in LeaseType
          /\ [lease EXCEPT !.by = Gone] \in LeaseType
      BY DEF LeaseInv, JobsTyped, LeaseType
    <3>2. QED  BY <1>6, <3>1 DEF Release, Crash, Freed
  <2>3. QED  BY <1>1, <1>2, <2>1, <2>2, RunGoesOn
<1>7. QED  BY <1>3, <1>4, <1>5, <1>6

LEMMA LeaseStep == ASSUME LeaseInv, JobsNext PROVE LeaseInv'
<1>1. JobsTyped /\ LeaseHeld /\ Nobody \notin Server  BY JobsAssumption DEF LeaseInv
<1>2. CASE Tick
  <2>1. lease \in LeaseType /\ lease.left \in Int  BY <1>1 DEF JobsTyped, LeaseType
  <2>2. PICK left \in Int : lease' = IF left = 0 THEN [by |-> Nobody, left |-> 0]
                                      ELSE [lease EXCEPT !.left = left]
    <3>1. PICK left \in {lease.left - 1} \cup (IF lease.by \in Server /\ Running(lease.by)
                                               THEN {Full} ELSE {}) :
             lease' = IF left = 0 THEN [by |-> Nobody, left |-> 0]
                      ELSE [lease EXCEPT !.left = left]
      BY <1>2 DEF Tick
    <3>2. left = lease.left - 1 \/ left = Full  OBVIOUS
    <3>3. left \in Int  BY <2>1, <3>2 DEF Full
    <3>4. QED  BY <3>1, <3>3
  <2>3. lease' \in LeaseType /\ (lease'.by = Nobody \/ lease'.by = lease.by)
    BY <2>1, <2>2 DEF LeaseType
  <2>4. lapsed' = IF lease'.by = Nobody /\ lease.by \in Server /\ Running(lease.by)
                  THEN lapsed \cup {lease.by} ELSE lapsed
    BY <1>2 DEF Tick
  <2>5. JobsTyped' /\ \A p \in Server : Running(p)' <=> Running(p)
    BY <1>1, <1>2, <2>3 DEF Tick, JobsTyped, Running
  <2>6. QED  BY <1>1, <2>3, <2>4, <2>5 DEF LeaseInv, LeaseHeld
<1>3. ASSUME NEW s \in Server, Start(s) PROVE LeaseInv'
  <2>1. [NoRun EXCEPT !.pc = "begin"] \in RunType  BY DEF NoRun, RunType
  <2>2. /\ job' = [job EXCEPT ![s] = [NoRun EXCEPT !.pc = "begin"]]
        /\ lease.by = Nobody /\ lease' = [by |-> s, left |-> Full]
        /\ UNCHANGED <<lapsed, item>>
    BY <1>3 DEF Start
  <2>3. JobsTyped' /\ \A p \in Server \ {s} : Running(p)' <=> Running(p)
    <3>1. lease' \in LeaseType  BY <2>2 DEF LeaseType, Full
    <3>2. QED  BY <1>1, <2>1, <2>2, <3>1, OneRun DEF LeaseInv, JobsTyped, Running
  <2>4. ASSUME NEW p \in Server, Running(p)' PROVE lease'.by = p \/ p \in lapsed'
    BY <1>1, <2>2, <2>3, <2>4 DEF LeaseHeld
  <2>5. QED  BY <2>3, <2>4 DEF LeaseInv, LeaseHeld
<1>4. ASSUME NEW i \in Item, Book(i) \/ Close(i) PROVE LeaseInv'
  <2>1. MaxBookings \in Nat  BY JobsAssumption
  <2>2. item' \in [Item -> [booking : 0 .. MaxBookings, open : BOOLEAN, reminded : BOOLEAN]]
    <3>1. item[i].booking \in 0 .. MaxBookings /\ item[i].reminded \in BOOLEAN
          /\ item \in [Item -> [booking : 0 .. MaxBookings, open : BOOLEAN, reminded : BOOLEAN]]
      BY <1>1 DEF JobsTyped
    <3>2. CASE Book(i)
      <4>1. PICK n \in 0 .. MaxBookings : n = item[i].booking + 1  BY <2>1, <3>1, <3>2 DEF Book
      <4>2. item' = [item EXCEPT ![i] = [booking |-> n, open |-> TRUE, reminded |-> FALSE]]
        BY <3>2, <4>1 DEF Book
      <4>3. QED  BY <3>1, <4>2
    <3>3. CASE Close(i)
      <4>1. PICK reminded \in BOOLEAN :
               item' = [item EXCEPT ![i].open = FALSE, ![i].reminded = reminded]
        BY <3>1, <3>3 DEF Close
      <4>2. QED  BY <3>1, <4>1
    <3>4. QED  BY <1>4, <3>2, <3>3
  <2>3. UNCHANGED <<job, lease, lapsed>>  BY <1>4 DEF Book, Close
  <2>4. QED  BY <2>2, <2>3 DEF LeaseInv, JobsTyped, LeaseHeld, Running
<1>5. QED  BY <1>2, <1>3, <1>4, RunSteps, TaskSteps DEF JobsNext, Step

LEMMA LeaseInvariant == JobsSpec => []LeaseInv
<1>1. LeaseInv /\ [JobsNext]_jobsVars => LeaseInv'
  <2> SUFFICES ASSUME LeaseInv, [JobsNext]_jobsVars PROVE LeaseInv'
    OBVIOUS
  <2>1. CASE JobsNext  BY <2>1, LeaseStep
  <2>2. CASE UNCHANGED jobsVars
    BY <2>2 DEF jobsVars, LeaseInv, JobsTyped, LeaseHeld, Running
  <2>3. QED  BY <2>1, <2>2
<1>2. QED  BY <1>1, LeaseStart, PTL DEF JobsSpec

\* A process at work on the job holds its lease, or three extensions in a row did not
\* come through: none frees or takes the lease of another (runWithDistributedLock).
THEOREM LeaseIsHeld == JobsSpec => []LeaseHeld
<1>1. LeaseInv => LeaseHeld  BY DEF LeaseInv
<1>2. QED  BY <1>1, LeaseInvariant, PTL

(* The reminders of a job, and the record of its failures *)

\* A task that claimed the reminder of booking n of item i.
Claims(t, i, n) == t.pc \in {"notify", "undo"} /\ t.item = i /\ t.booking = n

\* A reminder is claimed by one task of one run, or sent, or neither, whatever was stored
\* without being known to be; while its booking goes on the item says so.
ClaimSound(s, t, i, n) ==
    /\ sent[<<i, n>>] = doubted[<<i, n>>]
    /\ item[i].open /\ item[i].booking = n => item[i].reminded
    /\ \A r \in Server, u \in TaskType : u \in job[r].tasks /\ Claims(u, i, n) => r = s /\ u = t

Reminder(i, n) ==
    /\ \A s \in Server, t \in TaskType :
          t \in job[s].tasks /\ Claims(t, i, n) => ClaimSound(s, t, i, n)
    /\ sent[<<i, n>>] \in {doubted[<<i, n>>], doubted[<<i, n>>] + 1}
    /\ sent[<<i, n>>] > doubted[<<i, n>>] /\ item[i].open /\ item[i].booking = n
          => item[i].reminded
    /\ n > item[i].booking => sent[<<i, n>>] = doubted[<<i, n>>]

\* A claim that stands is sent, being sent, or lost.
LiveClaim(i, n) ==
    item[i].open /\ item[i].reminded /\ item[i].booking = n =>
        \/ sent[<<i, n>>] > doubted[<<i, n>>] \/ <<i, n>> \in forgotten
        \/ \E s \in Server, t \in TaskType : t \in job[s].tasks /\ Claims(t, i, n)

TaskSound(t) == t.booking >= 1 /\ t.booking <= item[t.item].booking

RemindersInv ==
    /\ sent \in [Bookings -> Nat] /\ doubted \in [Bookings -> Nat]
    /\ \A i \in Item : item[i].open => item[i].booking >= 1
    /\ \A s \in Server : job[s].pc # "work" => job[s].tasks = {}
    /\ \A s \in Server, t \in TaskType : t \in job[s].tasks => TaskSound(t)
    /\ \A i \in Item, n \in 1 .. MaxBookings : Reminder(i, n) /\ LiveClaim(i, n)

LEMMA RemindersStart == JobsInit => RemindersInv
<1> SUFFICES ASSUME JobsInit PROVE RemindersInv
  OBVIOUS
<1>1. \A s \in Server : job[s].tasks = {}  BY DEF JobsInit, NoRun
<1>2. \A i \in Item, n \in 1 .. MaxBookings : <<i, n>> \in Bookings  BY DEF Bookings
<1>3. /\ sent = [b \in Bookings |-> 0] /\ doubted = sent
      /\ item = [i \in Item |-> [booking |-> 0, open |-> FALSE, reminded |-> FALSE]]
  BY DEF JobsInit
<1>4. \A i \in Item, n \in 1 .. MaxBookings : sent[<<i, n>>] = 0 /\ doubted[<<i, n>>] = 0
  BY <1>2, <1>3
<1>5. \A i \in Item : ~item[i].open  BY <1>3
<1>6. sent \in [Bookings -> Nat] /\ doubted \in [Bookings -> Nat]  BY <1>3
<1>7. \A i \in Item, n \in 1 .. MaxBookings : Reminder(i, n) /\ LiveClaim(i, n)
  BY <1>1, <1>4, <1>5 DEF Reminder, LiveClaim
<1>8. QED  BY <1>1, <1>5, <1>6, <1>7 DEF RemindersInv

\* The runs move without claiming or sending; what claims they lose is recorded.
LEMMA RemindersRest ==
    ASSUME RemindersInv, UNCHANGED <<item, sent, doubted>>, forgotten \subseteq forgotten',
           \A s \in Server : job'[s].pc # "work" => job'[s].tasks = {},
           \A s \in Server, t \in TaskType :
              t \in job'[s].tasks => t \in job[s].tasks \/ (t.pc = "claim" /\ TaskSound(t)),
           \A s \in Server, t \in TaskType :
              t \in job[s].tasks =>
                 t \in job'[s].tasks \/ t.pc = "claim" \/ <<t.item, t.booking>> \in forgotten'
    PROVE  RemindersInv'
<1>1. \A s \in Server, t \in TaskType : t \in job'[s].tasks => TaskSound(t)'
  BY DEF RemindersInv, TaskSound
<1>2. ASSUME NEW i \in Item, NEW n \in 1 .. MaxBookings PROVE Reminder(i, n)' /\ LiveClaim(i, n)'
  <2>1. Reminder(i, n) /\ LiveClaim(i, n)  BY DEF RemindersInv
  <2>2. ASSUME NEW s \in Server, NEW t \in TaskType, t \in job'[s].tasks, Claims(t, i, n)
        PROVE  t \in job[s].tasks
    BY <2>2 DEF Claims
  <2>3. Reminder(i, n)'  BY <2>1, <2>2 DEF Reminder, ClaimSound
  <2>4. LiveClaim(i, n)'
    <3>1. ASSUME NEW s \in Server, NEW t \in TaskType, t \in job[s].tasks, Claims(t, i, n)
          PROVE  t \in job'[s].tasks \/ <<i, n>> \in forgotten'
      BY <3>1 DEF Claims
    <3>2. QED  BY <2>1, <3>1 DEF LiveClaim
  <2>5. QED  BY <2>3, <2>4
<1>3. QED  BY <1>1, <1>2 DEF RemindersInv

\* One task of s gives way to another or to none.
Swaps(s, t, new) ==
    /\ \A r \in Server \ {s} : job'[r] = job[r]
    /\ job'[s].tasks = (job[s].tasks \ {t}) \cup new /\ job'[s].pc = job[s].pc

LEMMA TaskSwaps ==
    ASSUME LeaseInv, NEW s \in Server, NEW t \in job[s].tasks
    PROVE  /\ job' = Done(s, t) => Swaps(s, t, {})
           /\ job' = [Done(s, t) EXCEPT ![s].failed = TRUE] => Swaps(s, t, {})
           /\ \A pc : job' = Moves(s, t, pc) => Swaps(s, t, {[t EXCEPT !.pc = pc]})
           /\ job' = Failed(s, t) => Swaps(s, t, {[t EXCEPT !.pc = "undo"]})
<1>1. job \in [Server -> RunType] /\ job[s] \in RunType  BY DEF LeaseInv, JobsTyped
<1>2. ASSUME NEW tasks, NEW failed, job' = [job EXCEPT ![s].failed = failed, ![s].tasks = tasks]
      PROVE  /\ \A r \in Server \ {s} : job'[r] = job[r]
             /\ job'[s].tasks = tasks /\ job'[s].pc = job[s].pc
  <2>1. PICK run : run = [job[s] EXCEPT !.failed = failed, !.tasks = tasks]  OBVIOUS
  <2>2. job' = [job EXCEPT ![s] = run]  BY <1>2, <2>1
  <2>3. run.tasks = tasks /\ run.pc = job[s].pc  BY <1>1, <2>1 DEF RunType
  <2>4. QED  BY <1>1, <2>2, <2>3
<1>3. ASSUME NEW tasks, job' = [job EXCEPT ![s].tasks = tasks]
      PROVE  /\ \A r \in Server \ {s} : job'[r] = job[r]
             /\ job'[s].tasks = tasks /\ job'[s].pc = job[s].pc
  <2>1. PICK run : run = [job[s] EXCEPT !.tasks = tasks]  OBVIOUS
  <2>2. job' = [job EXCEPT ![s] = run]  BY <1>3, <2>1
  <2>3. run.tasks = tasks /\ run.pc = job[s].pc  BY <1>1, <2>1 DEF RunType
  <2>4. QED  BY <1>1, <2>2, <2>3
<1>4. ASSUME job' = Done(s, t) PROVE Swaps(s, t, {})
  <2>1. job' = [job EXCEPT ![s].tasks = job[s].tasks \ {t}]  BY <1>4 DEF Done
  <2>2. QED  BY <1>3, <2>1 DEF Swaps
<1>5. ASSUME NEW pc, job' = Moves(s, t, pc) PROVE Swaps(s, t, {[t EXCEPT !.pc = pc]})
  <2>1. job' = [job EXCEPT ![s].tasks = (job[s].tasks \ {t}) \cup {[t EXCEPT !.pc = pc]}]
    BY <1>5 DEF Moves
  <2>2. QED  BY <1>3, <2>1 DEF Swaps
<1>6. ASSUME job' = Failed(s, t) PROVE Swaps(s, t, {[t EXCEPT !.pc = "undo"]})
  <2>1. job' = [job EXCEPT ![s].failed = TRUE,
                           ![s].tasks = (job[s].tasks \ {t}) \cup {[t EXCEPT !.pc = "undo"]}]
    BY <1>6 DEF Failed
  <2>2. QED  BY <1>2, <2>1 DEF Swaps
<1>7. ASSUME job' = [Done(s, t) EXCEPT ![s].failed = TRUE] PROVE Swaps(s, t, {})
  <2>1. PICK run : run = [job[s] EXCEPT !.tasks = job[s].tasks \ {t}, !.failed = TRUE]  OBVIOUS
  <2>2. job' = [job EXCEPT ![s] = run]  BY <1>1, <1>7, <2>1 DEF Done
  <2>3. run.tasks = job[s].tasks \ {t} /\ run.pc = job[s].pc  BY <1>1, <2>1 DEF RunType
  <2>4. QED  BY <1>1, <2>2, <2>3 DEF Swaps
<1>8. QED  BY <1>4, <1>5, <1>6, <1>7

\* The claim is made: the task goes on to notify, or is gone with the answer.
LEMMA ClaimReminds ==
    ASSUME LeaseInv, RemindersInv, NEW s \in Server, NEW t \in job[s].tasks, t.pc = "claim",
           Claimable(t), item' = Claimed(t), UNCHANGED <<sent, doubted>>, NEW next,
           Swaps(s, t, next),
           \/ next = {[t EXCEPT !.pc = "notify"]} /\ UNCHANGED forgotten
           \/ next = {} /\ forgotten' = forgotten \cup {<<t.item, t.booking>>}
    PROVE  RemindersInv'
<1>1. /\ t \in TaskType /\ t.item \in Item /\ t.booking \in 0 .. MaxBookings
      /\ item \in [Item -> [booking : 0 .. MaxBookings, open : BOOLEAN, reminded : BOOLEAN]]
      /\ TaskSound(t) /\ MaxBookings \in Nat
  BY JobsAssumption DEF LeaseInv, JobsTyped, RunType, TaskType, RemindersInv
<1>2. /\ item' = [item EXCEPT ![t.item].reminded = TRUE] /\ ~item[t.item].reminded
      /\ item[t.item].open /\ item[t.item].booking = t.booking
  BY DEF Claimable, Claimed, SameBooking
<1>3. ASSUME NEW u, u \in next
      PROVE  u.item = t.item /\ u.booking = t.booking /\ u.pc = "notify" /\ u \in TaskType
  <2>1. u = [t EXCEPT !.pc = "notify"]  BY <1>3
  <2>2. QED  BY <1>1, <2>1 DEF TaskType
<1>4. /\ \A i \in Item : item'[i].booking = item[i].booking /\ item'[i].open = item[i].open
      /\ \A i \in Item \ {t.item} : item'[i].reminded = item[i].reminded
      /\ item'[t.item].reminded
  BY <1>1, <1>2
<1>5. \A r \in Server : job'[r].pc # "work" => job'[r].tasks = {}
  <2>1. job[s].pc = "work"  BY DEF RemindersInv
  <2>2. QED  BY <2>1 DEF RemindersInv, Swaps
<1>6. ASSUME NEW r \in Server, NEW u \in TaskType, u \in job'[r].tasks
      PROVE  (u \in job[r].tasks /\ (r # s \/ u # t)) \/ (r = s /\ u \in next)
  BY <1>6 DEF Swaps
<1>7. ASSUME NEW r \in Server, NEW u \in TaskType, u \in job'[r].tasks PROVE TaskSound(u)'
  <2>1. TaskSound(u)  BY <1>1, <1>3, <1>6, <1>7 DEF RemindersInv, TaskSound
  <2>2. u.item \in Item  BY DEF TaskType
  <2>3. QED  BY <1>4, <2>1, <2>2 DEF TaskSound
<1>8. ASSUME NEW i \in Item, NEW n \in 1 .. MaxBookings PROVE Reminder(i, n)' /\ LiveClaim(i, n)'
  <2>1. Reminder(i, n) /\ LiveClaim(i, n)  BY DEF RemindersInv
  <2>2. CASE i = t.item /\ n = t.booking
    <3>1. \A r \in Server, u \in TaskType : u \in job[r].tasks => ~Claims(u, i, n)
      BY <1>2, <2>1, <2>2 DEF Reminder, ClaimSound
    <3>2. sent[<<i, n>>] = doubted[<<i, n>>]
      <4>1. /\ ~(sent[<<i, n>>] > doubted[<<i, n>>])
            /\ sent[<<i, n>>] \in {doubted[<<i, n>>], doubted[<<i, n>>] + 1}
        BY <1>2, <2>1, <2>2 DEF Reminder
      <4>2. <<i, n>> \in Bookings /\ doubted[<<i, n>>] \in Nat  BY DEF Bookings, RemindersInv
      <4>3. QED  BY <4>1, <4>2
    <3>3. ASSUME NEW r \in Server, NEW u \in TaskType, u \in job'[r].tasks, Claims(u, i, n)
          PROVE  r = s /\ u \in next
      BY <1>6, <3>1, <3>3
    <3>4. \A u, v : u \in next /\ v \in next => u = v  OBVIOUS
    <3>5. /\ sent'[<<i, n>>] = doubted'[<<i, n>>]
          /\ item'[i].open /\ item'[i].booking = n => item'[i].reminded
      BY <1>4, <2>2, <3>2
    <3>6. Reminder(i, n)'  BY <3>3, <3>4, <3>5 DEF Reminder, ClaimSound
    <3>7. LiveClaim(i, n)'
      <4>1. CASE next = {}  BY <2>2, <4>1 DEF LiveClaim
      <4>2. CASE next = {[t EXCEPT !.pc = "notify"]}
        <5>1. PICK u : u \in next  BY <4>2
        <5>2. u \in job'[s].tasks /\ Claims(u, i, n) /\ u \in TaskType
          BY <1>3, <2>2, <5>1 DEF Swaps, Claims
        <5>3. QED  BY <5>2 DEF LiveClaim
      <4>3. QED  BY <4>1, <4>2
    <3>8. QED  BY <3>6, <3>7
  <2>3. CASE ~(i = t.item /\ n = t.booking)
    <3>1. ASSUME NEW r \in Server, NEW u \in TaskType, Claims(u, i, n)
          PROVE  u \in job'[r].tasks <=> u \in job[r].tasks
      <4>1. u # t /\ u \notin next  BY <1>1, <1>3, <2>3, <3>1 DEF Claims
      <4>2. QED  BY <4>1 DEF Swaps
    <3>2. item[i].booking = n => item'[i].reminded = item[i].reminded  BY <1>2, <1>4, <2>3
    <3>3. Reminder(i, n)'  BY <1>1, <1>4, <2>1, <3>1, <3>2 DEF Reminder, ClaimSound
    <3>4. LiveClaim(i, n)'  BY <1>1, <1>4, <2>1, <3>1, <3>2 DEF LiveClaim
    <3>5. QED  BY <3>3, <3>4
  <2>4. QED  BY <2>2, <2>3
<1>9. \A i \in Item : item'[i].open => item'[i].booking >= 1  BY <1>4 DEF RemindersInv
<1>10. QED  BY <1>5, <1>7, <1>8, <1>9 DEF RemindersInv

LEMMA ClaimsRemind ==
    ASSUME LeaseInv, RemindersInv, NEW s \in Server, NEW t \in job[s].tasks,
           Claim(s, t) \/ ClaimFails(s, t)
    PROVE  RemindersInv'
<1>1. t.pc = "claim" /\ UNCHANGED <<sent, doubted>> /\ job[s].pc = "work"
  BY DEF Claim, ClaimFails, reminders, RemindersInv
<1>2. CASE Claim(s, t) /\ Claimable(t)
  <2>1. job' = Moves(s, t, "notify") /\ item' = Claimed(t) /\ UNCHANGED forgotten
    BY <1>2 DEF Claim
  <2>2. PICK next : next = {[t EXCEPT !.pc = "notify"]}  OBVIOUS
  <2>3. Swaps(s, t, next)  BY <2>1, <2>2, TaskSwaps
  <2>4. QED  BY <1>1, <1>2, <2>1, <2>2, <2>3, ClaimReminds
<1>3. CASE ClaimFails(s, t) /\ Claimable(t) /\ item' = Claimed(t)
           /\ forgotten' = forgotten \cup {<<t.item, t.booking>>}
  <2>1. Swaps(s, t, {})  BY <1>3, TaskSwaps DEF ClaimFails
  <2>2. QED  BY <1>1, <1>3, <2>1, ClaimReminds
<1>4. CASE UNCHANGED <<item, forgotten>> /\ Swaps(s, t, {})
  BY <1>1, <1>4, RemindersRest DEF Swaps, RemindersInv
<1>5. QED  BY <1>2, <1>3, <1>4, TaskSwaps DEF Claim, ClaimFails

LEMMA NotifyReminds ==
    ASSUME LeaseInv, RemindersInv, NEW s \in Server, NEW t \in job[s].tasks, Notify(s, t)
    PROVE  RemindersInv'
<1>1. /\ t \in TaskType /\ t.item \in Item /\ t.booking \in 0 .. MaxBookings /\ t.pc = "notify"
      /\ UNCHANGED <<item, doubted, forgotten>> /\ TaskSound(t) /\ MaxBookings \in Nat
      /\ Swaps(s, t, {})
  BY JobsAssumption, TaskSwaps DEF LeaseInv, JobsTyped, RunType, TaskType, Notify, RemindersInv
<1>2. t.booking \in 1 .. MaxBookings /\ <<t.item, t.booking>> \in Bookings
  BY <1>1 DEF TaskSound, Bookings
<1>3. Reminder(t.item, t.booking) /\ Claims(t, t.item, t.booking)
  BY <1>1, <1>2 DEF RemindersInv, Claims
<1>4. ClaimSound(s, t, t.item, t.booking)  BY <1>1, <1>3 DEF Reminder
<1>5. /\ sent' = [sent EXCEPT ![<<t.item, t.booking>>] = sent[<<t.item, t.booking>>] + 1]
      /\ sent \in [Bookings -> Nat] /\ doubted \in [Bookings -> Nat]
      /\ sent[<<t.item, t.booking>>] = doubted[<<t.item, t.booking>>]
  BY <1>4 DEF Notify, OneMore, RemindersInv, ClaimSound
<1>6. /\ sent' \in [Bookings -> Nat] /\ doubted[<<t.item, t.booking>>] \in Nat
      /\ sent'[<<t.item, t.booking>>] = doubted[<<t.item, t.booking>>] + 1
  BY <1>2, <1>5
<1>7. \A r \in Server : job'[r].pc # "work" => job'[r].tasks = {}
  <2>1. job[s].pc = "work"  BY DEF RemindersInv
  <2>2. QED  BY <1>1, <2>1 DEF RemindersInv, Swaps
<1>8. \A r \in Server, u \in TaskType :
         u \in job'[r].tasks <=> u \in job[r].tasks /\ (r # s \/ u # t)
  BY <1>1 DEF Swaps
<1>9. ASSUME NEW i \in Item, NEW n \in 1 .. MaxBookings PROVE Reminder(i, n)' /\ LiveClaim(i, n)'
  <2>1. Reminder(i, n) /\ LiveClaim(i, n) /\ <<i, n>> \in Bookings  BY DEF RemindersInv, Bookings
  <2>2. CASE i = t.item /\ n = t.booking
    <3>1. \A r \in Server, u \in TaskType : u \in job'[r].tasks => ~Claims(u, i, n)
      BY <1>4, <1>8, <2>2 DEF ClaimSound
    <3>2. item[i].open /\ item[i].booking = n => item[i].reminded
      BY <1>4, <2>2 DEF ClaimSound
    <3>3. n <= item[i].booking /\ item[i].booking \in Nat /\ n \in Nat
      BY <1>1, <2>2 DEF TaskSound, LeaseInv, JobsTyped
    <3>4. Reminder(i, n)'
      BY <1>1, <1>6, <2>2, <3>1, <3>2, <3>3 DEF Reminder
    <3>5. sent'[<<i, n>>] > doubted'[<<i, n>>]  BY <1>1, <1>6, <2>2
    <3>6. QED  BY <3>4, <3>5 DEF LiveClaim
  <2>3. CASE ~(i = t.item /\ n = t.booking)
    <3>1. sent'[<<i, n>>] = sent[<<i, n>>]
      <4>1. <<i, n>> # <<t.item, t.booking>>  BY <2>3
      <4>2. QED  BY <1>5, <2>1, <4>1
    <3>2. ASSUME NEW r \in Server, NEW u \in TaskType, Claims(u, i, n)
          PROVE  u \in job'[r].tasks <=> u \in job[r].tasks
      BY <1>8, <2>3, <3>2 DEF Claims
    <3>3. Reminder(i, n)'  BY <1>1, <2>1, <3>1, <3>2 DEF Reminder, ClaimSound
    <3>4. LiveClaim(i, n)'  BY <1>1, <2>1, <3>1, <3>2 DEF LiveClaim
    <3>5. QED  BY <3>3, <3>4
  <2>4. QED  BY <2>2, <2>3
<1>10. \A r \in Server, u \in TaskType : u \in job'[r].tasks => TaskSound(u)'
  BY <1>1, <1>8 DEF RemindersInv, TaskSound
<1>11. QED  BY <1>1, <1>6, <1>7, <1>9, <1>10 DEF RemindersInv

LEMMA FailureReminds ==
    ASSUME LeaseInv, RemindersInv, NEW s \in Server, NEW t \in job[s].tasks, NotifyFails(s, t)
    PROVE  RemindersInv'
<1>1. PICK new : new = [t EXCEPT !.pc = "undo"]  OBVIOUS
<1>2. /\ t \in TaskType /\ t.item \in Item /\ t.booking \in 0 .. MaxBookings /\ t.pc = "notify"
      /\ UNCHANGED <<item, forgotten>> /\ TaskSound(t) /\ MaxBookings \in Nat
      /\ Swaps(s, t, {new})
  BY <1>1, JobsAssumption, TaskSwaps
  DEF LeaseInv, JobsTyped, RunType, TaskType, NotifyFails, RemindersInv
<1>3. new.item = t.item /\ new.booking = t.booking /\ new.pc = "undo" /\ new \in TaskType
  BY <1>1, <1>2 DEF TaskType
<1>4. \A r \in Server : job'[r].pc # "work" => job'[r].tasks = {}
  <2>1. job[s].pc = "work"  BY DEF RemindersInv
  <2>2. QED  BY <1>2, <2>1 DEF RemindersInv, Swaps
<1>5. \A r \in Server, u \in TaskType :
         u \in job'[r].tasks <=> (u \in job[r].tasks /\ (r # s \/ u # t)) \/ (r = s /\ u = new)
  BY <1>2 DEF Swaps
<1>6. \/ UNCHANGED <<sent, doubted>>
      \/ sent' = OneMore(sent, t) /\ doubted' = OneMore(doubted, t)
  BY DEF NotifyFails, reminders
<1>7. sent' \in [Bookings -> Nat] /\ doubted' \in [Bookings -> Nat]
  BY <1>6 DEF OneMore, RemindersInv
<1>8. ASSUME NEW i \in Item, NEW n \in 1 .. MaxBookings PROVE Reminder(i, n)' /\ LiveClaim(i, n)'
  <2>1. Reminder(i, n) /\ LiveClaim(i, n) /\ <<i, n>> \in Bookings  BY DEF RemindersInv, Bookings
  <2>2. CASE i = t.item /\ n = t.booking
    <3>1. Claims(t, i, n) /\ Claims(new, i, n)  BY <1>2, <1>3, <2>2 DEF Claims
    <3>2. ClaimSound(s, t, i, n)  BY <1>2, <2>1, <3>1 DEF Reminder
    <3>3. \A r \in Server, u \in TaskType : u \in job'[r].tasks /\ Claims(u, i, n) => r = s /\ u = new
      BY <1>5, <3>2 DEF ClaimSound
    <3>4. sent'[<<i, n>>] = doubted'[<<i, n>>]
      BY <1>6, <2>1, <2>2, <3>2 DEF ClaimSound, OneMore, RemindersInv
    <3>5. Reminder(i, n)'  BY <1>2, <2>1, <3>2, <3>3, <3>4 DEF Reminder, ClaimSound
    <3>6. new \in job'[s].tasks  BY <1>3, <1>5
    <3>7. QED  BY <1>3, <3>1, <3>5, <3>6 DEF LiveClaim
  <2>3. CASE ~(i = t.item /\ n = t.booking)
    <3>1. ASSUME NEW r \in Server, NEW u \in TaskType, Claims(u, i, n)
          PROVE  u \in job'[r].tasks <=> u \in job[r].tasks
      <4>1. u # t /\ u # new  BY <1>3, <2>3, <3>1 DEF Claims
      <4>2. QED  BY <1>5, <4>1
    <3>2. sent'[<<i, n>>] = sent[<<i, n>>] /\ doubted'[<<i, n>>] = doubted[<<i, n>>]
      <4>1. <<i, n>> # <<t.item, t.booking>>  BY <2>3
      <4>2. QED  BY <1>6, <2>1, <4>1 DEF OneMore, RemindersInv
    <3>3. Reminder(i, n)'  BY <1>2, <2>1, <3>1, <3>2 DEF Reminder, ClaimSound
    <3>4. LiveClaim(i, n)'  BY <1>2, <2>1, <3>1, <3>2 DEF LiveClaim
    <3>5. QED  BY <3>3, <3>4
  <2>4. QED  BY <2>2, <2>3
<1>9. ASSUME NEW r \in Server, NEW u \in TaskType, u \in job'[r].tasks PROVE TaskSound(u)'
  BY <1>2, <1>3, <1>5, <1>9 DEF RemindersInv, TaskSound
<1>10. QED  BY <1>2, <1>4, <1>7, <1>8, <1>9 DEF RemindersInv

LEMMA UndoReminds ==
    ASSUME LeaseInv, RemindersInv, NEW s \in Server, NEW t \in job[s].tasks, Undo(s, t)
    PROVE  RemindersInv'
<1>1. /\ t \in TaskType /\ t.item \in Item /\ t.booking \in 0 .. MaxBookings /\ t.pc = "undo"
      /\ item \in [Item -> [booking : 0 .. MaxBookings, open : BOOLEAN, reminded : BOOLEAN]]
      /\ TaskSound(t) /\ MaxBookings \in Nat /\ Swaps(s, t, {}) /\ UNCHANGED <<sent, doubted>>
  BY JobsAssumption, TaskSwaps
  DEF LeaseInv, JobsTyped, RunType, TaskType, Undo, reminders, RemindersInv
<1>2. \A r \in Server : job'[r].pc # "work" => job'[r].tasks = {}
  <2>1. job[s].pc = "work"  BY DEF RemindersInv
  <2>2. QED  BY <1>1, <2>1 DEF RemindersInv, Swaps
<1>3. \A r \in Server, u \in TaskType :
         u \in job'[r].tasks <=> u \in job[r].tasks /\ (r # s \/ u # t)
  BY <1>1 DEF Swaps
<1>4. CASE UNCHANGED item /\ forgotten' = forgotten \cup {<<t.item, t.booking>>}
  BY <1>1, <1>2, <1>3, <1>4, RemindersRest
<1>5. CASE /\ item' = IF StillClaimed(t) THEN [item EXCEPT ![t.item].reminded = FALSE] ELSE item
           /\ UNCHANGED forgotten
  <2>1. /\ \A i \in Item : item'[i].booking = item[i].booking /\ item'[i].open = item[i].open
        /\ \A i \in Item : item'[i].reminded => item[i].reminded
        /\ \A i \in Item \ {t.item} : item'[i].reminded = item[i].reminded
        /\ StillClaimed(t) => ~item'[t.item].reminded
        /\ ~StillClaimed(t) => item' = item
    BY <1>1, <1>5
  <2>2. t.booking \in 1 .. MaxBookings  BY <1>1 DEF TaskSound
  <2>3. ClaimSound(s, t, t.item, t.booking)
    BY <1>1, <2>2 DEF RemindersInv, Reminder, Claims
  <2>4. ASSUME NEW i \in Item, NEW n \in 1 .. MaxBookings
        PROVE  Reminder(i, n)' /\ LiveClaim(i, n)'
    <3>1. Reminder(i, n) /\ LiveClaim(i, n)  BY DEF RemindersInv
    <3>2. CASE i = t.item /\ n = t.booking
      <4>1. \A r \in Server, u \in TaskType : u \in job'[r].tasks => ~Claims(u, i, n)
        BY <1>3, <2>3, <3>2 DEF ClaimSound
      <4>2. sent'[<<i, n>>] = doubted'[<<i, n>>] /\ doubted'[<<i, n>>] \in Nat
        <5>1. <<i, n>> \in Bookings  BY DEF Bookings
        <5>2. QED  BY <1>1, <2>3, <3>2, <5>1 DEF ClaimSound, RemindersInv
      <4>3. Reminder(i, n)'  BY <4>1, <4>2 DEF Reminder
      <4>4. item'[i].open /\ item'[i].booking = n => ~item'[i].reminded
        BY <2>1, <3>2 DEF StillClaimed, SameBooking
      <4>5. QED  BY <4>3, <4>4 DEF LiveClaim
    <3>3. CASE ~(i = t.item /\ n = t.booking)
      <4>1. ASSUME NEW r \in Server, NEW u \in TaskType, Claims(u, i, n)
            PROVE  u \in job'[r].tasks <=> u \in job[r].tasks
        BY <1>3, <3>3, <4>1 DEF Claims
      <4>2. item[i].open /\ item[i].booking = n => item'[i].reminded = item[i].reminded
        BY <2>1, <3>3 DEF StillClaimed, SameBooking
      <4>3. Reminder(i, n)'  BY <1>1, <2>1, <3>1, <4>1, <4>2 DEF Reminder, ClaimSound
      <4>4. LiveClaim(i, n)'  BY <1>1, <1>5, <2>1, <3>1, <4>1, <4>2 DEF LiveClaim
      <4>5. QED  BY <4>3, <4>4
    <3>4. QED  BY <3>2, <3>3
  <2>5. ASSUME NEW r \in Server, NEW u \in TaskType, u \in job'[r].tasks PROVE TaskSound(u)'
    <3>1. TaskSound(u) /\ u.item \in Item  BY <1>3, <2>5 DEF RemindersInv, TaskType
    <3>2. QED  BY <2>1, <3>1 DEF TaskSound
  <2>6. \A i \in Item : item'[i].open => item'[i].booking >= 1  BY <2>1 DEF RemindersInv
  <2>7. QED  BY <1>1, <1>2, <2>4, <2>5, <2>6 DEF RemindersInv
<1>6. QED  BY <1>4, <1>5 DEF Undo

LEMMA ItemsRemind ==
    ASSUME LeaseInv, RemindersInv, NEW x \in Item, Book(x) \/ Close(x)
    PROVE  RemindersInv'
<1>1. /\ item \in [Item -> [booking : 0 .. MaxBookings, open : BOOLEAN, reminded : BOOLEAN]]
      /\ UNCHANGED <<job, sent, doubted, forgotten>> /\ MaxBookings \in Nat
      /\ item[x].booking \in Nat
  BY JobsAssumption DEF LeaseInv, JobsTyped, Book, Close, reminders
<1>2. CASE Book(x)
  <2>1. PICK n : n = item[x].booking + 1  OBVIOUS
  <2>2. item' = [item EXCEPT ![x] = [booking |-> n, open |-> TRUE, reminded |-> FALSE]]
    BY <1>2, <2>1 DEF Book
  <2>3. /\ \A i \in Item \ {x} : item'[i] = item[i]
        /\ item'[x].booking = n /\ item'[x].open /\ ~item'[x].reminded
    BY <1>1, <2>2
  <2>4. ASSUME NEW i \in Item, NEW m \in 1 .. MaxBookings
        PROVE  Reminder(i, m)' /\ LiveClaim(i, m)'
    <3>1. Reminder(i, m) /\ LiveClaim(i, m)  BY DEF RemindersInv
    <3>2. CASE i # x  BY <1>1, <2>3, <3>1, <3>2 DEF Reminder, LiveClaim, ClaimSound
    <3>3. CASE i = x /\ m # n
      <4>1. m > n => m > item[x].booking  BY <1>1, <2>1
      <4>2. QED  BY <1>1, <2>3, <3>1, <3>3, <4>1 DEF Reminder, LiveClaim, ClaimSound
    <3>4. CASE i = x /\ m = n
      <4>1. m > item[x].booking  BY <1>1, <2>1, <3>4
      <4>2. sent[<<i, m>>] = doubted[<<i, m>>] /\ doubted[<<i, m>>] \in Nat
        <5>1. <<i, m>> \in Bookings  BY DEF Bookings
        <5>2. QED  BY <3>1, <3>4, <4>1, <5>1 DEF Reminder, RemindersInv
      <4>3. ASSUME NEW s \in Server, NEW t \in TaskType, t \in job[s].tasks, Claims(t, i, m)
            PROVE  FALSE
        <5>1. t.booking <= item[t.item].booking /\ t.item = x /\ t.booking = m
          BY <3>4, <4>3 DEF RemindersInv, TaskSound, Claims
        <5>2. m <= item[x].booking  BY <5>1
        <5>3. QED  BY <1>1, <2>1, <3>4, <5>2
      <4>4. QED  BY <1>1, <2>3, <3>4, <4>2, <4>3 DEF Reminder, LiveClaim
    <3>5. QED  BY <3>2, <3>3, <3>4
  <2>5. ASSUME NEW s \in Server, NEW t \in TaskType, t \in job'[s].tasks PROVE TaskSound(t)'
    <3>1. TaskSound(t) /\ t.booking \in Int  BY <1>1, <2>5 DEF RemindersInv, TaskType
    <3>2. CASE t.item = x
      <4>1. t.booking <= item[x].booking /\ t.booking >= 1  BY <3>1, <3>2 DEF TaskSound
      <4>2. t.booking <= n  BY <1>1, <2>1, <3>1, <4>1
      <4>3. QED  BY <2>3, <3>2, <4>1, <4>2 DEF TaskSound
    <3>3. CASE t.item # x
      <4>1. item'[t.item] = item[t.item]  BY <2>3, <3>3 DEF TaskType
      <4>2. QED  BY <3>1, <4>1 DEF TaskSound
    <3>4. QED  BY <3>2, <3>3
  <2>6. ASSUME NEW i \in Item, item'[i].open PROVE item'[i].booking >= 1
    <3>1. n >= 1  BY <1>1, <2>1
    <3>2. QED  BY <2>3, <2>6, <3>1 DEF RemindersInv
  <2>7. QED  BY <1>1, <2>4, <2>5, <2>6 DEF RemindersInv
<1>3. CASE Close(x)
  <2>1. /\ \A i \in Item \ {x} : item'[i] = item[i]
        /\ item'[x].booking = item[x].booking /\ ~item'[x].open
    BY <1>1, <1>3 DEF Close
  <2>2. \A i \in Item, m \in 1 .. MaxBookings : Reminder(i, m)' /\ LiveClaim(i, m)'
    <3>1. TAKE i \in Item, m \in 1 .. MaxBookings
    <3>2. Reminder(i, m) /\ LiveClaim(i, m)  BY DEF RemindersInv
    <3>3. QED  BY <1>1, <2>1, <3>2 DEF Reminder, LiveClaim, ClaimSound
  <2>3. ASSUME NEW s \in Server, NEW t \in TaskType, t \in job'[s].tasks PROVE TaskSound(t)'
    <3>1. TaskSound(t) /\ t.item \in Item  BY <1>1, <2>3 DEF RemindersInv, TaskType
    <3>2. QED  BY <2>1, <3>1 DEF TaskSound
  <2>4. QED  BY <1>1, <2>1, <2>2, <2>3 DEF RemindersInv
<1>4. QED  BY <1>2, <1>3

LEMMA RunsRemind ==
    ASSUME LeaseInv, RemindersInv, NEW s \in Server,
           Start(s) \/ Begin(s) \/ Scan(s) \/ End(s) \/ Release(s) \/ Crash(s)
    PROVE  RemindersInv'
<1>1. /\ job \in [Server -> RunType] /\ job[s].tasks \subseteq TaskType
      /\ item \in [Item -> [booking : 0 .. MaxBookings, open : BOOLEAN, reminded : BOOLEAN]]
      /\ UNCHANGED <<item, sent, doubted>> /\ forgotten \subseteq forgotten'
      /\ \A r \in Server : job[r].pc # "work" => job[r].tasks = {}
  BY DEF LeaseInv, JobsTyped, RunType, RemindersInv, reminders,
         Start, Begin, Scan, End, Release, Crash
<1>2. \A r \in Server \ {s} : job'[r] = job[r]
  BY <1>1 DEF Start, Begin, Scan, End, Release, Crash
<1>3. CASE job'[s].tasks = {} /\ (job[s].tasks = {} \/ Crash(s))
  <2>1. ASSUME NEW t \in TaskType, t \in job[s].tasks
        PROVE  t.pc = "claim" \/ <<t.item, t.booking>> \in forgotten'
    BY <1>3, <2>1 DEF Crash, TaskType
  <2>2. QED  BY <1>1, <1>2, <1>3, <2>1, RemindersRest
<1>4. CASE Scan(s)
  <2>1. PICK tasks : /\ tasks = {[item |-> i, booking |-> item[i].booking, pc |-> "claim"] :
                                   i \in {x \in Item : item[x].open /\ ~item[x].reminded}}
                     /\ job' = [job EXCEPT ![s].pc = "work", ![s].tasks = tasks]
    BY <1>4 DEF Scan
  <2>2. job'[s].pc = "work" /\ job'[s].tasks = tasks /\ job[s].tasks = {}
    <3>1. PICK run : run = [job[s] EXCEPT !.pc = "work", !.tasks = tasks]  OBVIOUS
    <3>2. run.pc = "work" /\ run.tasks = tasks  BY <1>1, <3>1 DEF RunType
    <3>3. job' = [job EXCEPT ![s] = run]  BY <2>1, <3>1
    <3>4. QED  BY <1>1, <1>4, <3>2, <3>3 DEF Scan
  <2>3. ASSUME NEW t \in TaskType, t \in tasks PROVE t.pc = "claim" /\ TaskSound(t)
    <3>1. PICK i \in Item : item[i].open /\ t = [item |-> i, booking |-> item[i].booking, pc |-> "claim"]
      BY <2>1, <2>3
    <3>2. item[i].booking >= 1 /\ item[i].booking \in Int  BY <1>1, <3>1 DEF RemindersInv
    <3>3. t.item = i /\ t.booking = item[i].booking /\ t.pc = "claim"  BY <3>1
    <3>4. QED  BY <3>2, <3>3 DEF TaskSound
  <2>4. QED  BY <1>1, <1>2, <2>2, <2>3, RemindersRest
<1>5. CASE Start(s) \/ End(s) \/ Release(s) \/ Crash(s)
  <2>1. job'[s].tasks = {}
    BY <1>1, <1>5 DEF Start, End, Release, Crash, NoRun
  <2>2. job[s].tasks = {} \/ Crash(s)  BY <1>1, <1>5 DEF Start, End, Release
  <2>3. QED  BY <1>3, <2>1, <2>2
<1>6. CASE Begin(s)
  <2>1. job'[s].tasks = job[s].tasks /\ job[s].tasks = {}  BY <1>1, <1>6 DEF Begin
  <2>2. QED  BY <1>3, <2>1
<1>7. QED  BY <1>4, <1>5, <1>6

\* However many processes run the job, whoever dies or books meanwhile, a booking is
\* reminded of at most once, and once more for each storing of the reminder that was
\* reported as failed; and a claim that stands is sent, worked on or recorded as lost
\* (bookingFilter of the booking-reminder job, and the claim it takes back).
THEOREM RemindersStaySound == JobsSpec => []RemindersSound
<1>1. LeaseInv /\ RemindersInv /\ [JobsNext]_jobsVars => RemindersInv'
  <2> SUFFICES ASSUME LeaseInv, RemindersInv, [JobsNext]_jobsVars PROVE RemindersInv'
    OBVIOUS
  <2>1. CASE Tick \/ UNCHANGED jobsVars
    <3>1. UNCHANGED <<job, item, sent, doubted, forgotten>>  BY <2>1 DEF Tick, reminders, jobsVars
    <3>2. QED  BY <3>1, RemindersRest DEF RemindersInv
  <2>2. ASSUME NEW s \in Server, NEW t \in job[s].tasks, Task(s, t) PROVE RemindersInv'
    BY <2>2, ClaimsRemind, NotifyReminds, FailureReminds, UndoReminds DEF Task
  <2>3. QED  BY <2>1, <2>2, RunsRemind, ItemsRemind DEF JobsNext, Step
<1>2. LeaseInv /\ RemindersInv => RemindersSound
  <2> SUFFICES ASSUME LeaseInv, RemindersInv PROVE RemindedOnce /\ ClaimsAreLive
    BY DEF RemindersSound
  <2>1. RemindedOnce
    <3>1. ASSUME NEW b \in Bookings PROVE sent[b] <= doubted[b] + 1
      <4>1. PICK i \in Item, n \in 1 .. MaxBookings : b = <<i, n>>  BY DEF Bookings
      <4>2. sent[b] \in {doubted[b], doubted[b] + 1}  BY <4>1 DEF RemindersInv, Reminder
      <4>3. doubted[b] \in Nat  BY DEF RemindersInv
      <4>4. QED  BY <4>2, <4>3
    <3>2. QED  BY <3>1 DEF RemindedOnce
  <2>2. ASSUME NEW i \in Item, item[i].open, item[i].reminded
        PROVE  \/ sent[<<i, item[i].booking>>] > doubted[<<i, item[i].booking>>]
               \/ <<i, item[i].booking>> \in forgotten
               \/ \E s \in Server : \E t \in job[s].tasks :
                     <<t.item, t.booking>> = <<i, item[i].booking>> /\ t.pc \in {"notify", "undo"}
    <3>1. item[i].booking \in 1 .. MaxBookings
      BY <2>2, JobsAssumption DEF RemindersInv, LeaseInv, JobsTyped
    <3>2. LiveClaim(i, item[i].booking)  BY <3>1 DEF RemindersInv
    <3>3. QED  BY <2>2, <3>2 DEF LiveClaim, Claims
  <2>3. QED  BY <2>1, <2>2 DEF ClaimsAreLive
<1>3. QED  BY <1>1, <1>2, RemindersStart, LeaseInvariant, PTL DEF JobsSpec

\* The record counts the failures since the last success, and so does the process whose
\* run is not over.
CountSound ==
    /\ health.failures = streak
    /\ \A s \in Server : job[s].pc \in {"scan", "work"} => counted[s] = streak

FailuresInv ==
    /\ counted \in [Server -> Nat] /\ streak \in Nat /\ health.failures \in Nat
    /\ blurred \in BOOLEAN
    /\ ~blurred => CountSound

LEMMA FailuresStart == JobsInit => FailuresInv
<1> SUFFICES ASSUME JobsInit PROVE FailuresInv
  OBVIOUS
<1>1. /\ counted = [s \in Server |-> 0] /\ streak = 0 /\ health.failures = 0 /\ blurred = FALSE
      /\ \A s \in Server : job[s].pc = "idle"
  BY DEF JobsInit, NoRun
<1>2. counted \in [Server -> Nat]  BY <1>1
<1>3. CountSound  BY <1>1 DEF CountSound
<1>4. streak \in Nat /\ health.failures \in Nat  BY <1>1
<1>5. blurred \in BOOLEAN  BY DEF JobsInit
<1>6. QED  BY <1>2, <1>3, <1>4, <1>5 DEF FailuresInv

LEMMA RunsCount ==
    ASSUME LeaseInv, FailuresInv, NEW s \in Server, Begin(s) \/ End(s) \/ Crash(s)
    PROVE  FailuresInv'
<1>1. /\ job \in [Server -> RunType] /\ job[s] \in RunType /\ job[s].failed \in BOOLEAN
      /\ counted \in [Server -> Nat] /\ streak \in Nat /\ health.failures \in Nat
      /\ blurred \in BOOLEAN /\ counted[s] \in Nat
  BY DEF LeaseInv, JobsTyped, RunType, FailuresInv
<1>2. \A p \in Server \ {s} : job'[p] = job[p]
  BY <1>1 DEF Begin, End, Crash
<1>3. CASE Begin(s)
  <2>1. CASE /\ counted' = [counted EXCEPT ![s] = health.failures]
             /\ health' = [status |-> "running", failures |-> counted'[s]]
             /\ blurred' = (blurred \/ ~Alone(s))
    <3>1. /\ counted' \in [Server -> Nat] /\ counted'[s] = health.failures
          /\ health'.failures = health.failures /\ streak' = streak /\ blurred' \in BOOLEAN
      BY <1>1, <1>3, <2>1 DEF Begin
    <3>2. ASSUME ~blurred' PROVE CountSound'
      <4>1. CountSound /\ Alone(s)  BY <2>1, <3>2 DEF FailuresInv
      <4>2. \A p \in Server \ {s} : job'[p].pc \notin {"scan", "work"}
        BY <1>2, <4>1 DEF Alone
      <4>3. QED  BY <3>1, <4>1, <4>2 DEF CountSound
    <3>3. QED  BY <1>1, <3>1, <3>2 DEF FailuresInv
  <2>2. CASE blurred' = TRUE /\ UNCHANGED <<counted, health, streak>>
    BY <1>1, <2>2 DEF FailuresInv
  <2>3. QED  BY <1>3, <2>1, <2>2 DEF Begin, PreviousFailures
<1>4. CASE End(s)
  <2>1. PICK n \in Nat : n = Failures(s)  BY <1>1 DEF Failures
  <2>2. /\ counted' = [counted EXCEPT ![s] = n]
        /\ streak' = IF job[s].failed THEN streak + 1 ELSE 0
        /\ job' = [job EXCEPT ![s] = [NoRun EXCEPT !.pc = "release"]]
    BY <1>4, <2>1 DEF End
  <2>3. counted' \in [Server -> Nat] /\ streak' \in Nat /\ job'[s].pc = "release"
    BY <1>1, <2>1, <2>2 DEF NoRun
  <2>4. CASE /\ health' = [status |-> IF job[s].failed THEN "failed" ELSE "success", failures |-> n]
             /\ blurred' = (blurred \/ ~Alone(s))
    <3>1. health'.failures = n /\ blurred' \in BOOLEAN  BY <1>1, <2>4
    <3>2. ASSUME ~blurred' PROVE CountSound'
      <4>1. CountSound /\ Alone(s)  BY <2>4, <3>2 DEF FailuresInv
      <4>2. counted[s] = streak  BY <1>4, <4>1 DEF CountSound, End
      <4>3. n = streak'  BY <2>1, <2>2, <4>2 DEF Failures
      <4>4. \A p \in Server : job'[p].pc \notin {"scan", "work"}
        BY <1>2, <2>3, <4>1 DEF Alone
      <4>5. QED  BY <3>1, <4>3, <4>4 DEF CountSound
    <3>3. QED  BY <2>1, <2>3, <3>1, <3>2 DEF FailuresInv
  <2>5. CASE blurred' = TRUE /\ UNCHANGED health  BY <1>1, <2>3, <2>5 DEF FailuresInv
  <2>6. QED  BY <1>4, <2>1, <2>4, <2>5 DEF End
<1>5. CASE Crash(s)
  <2>1. /\ counted' = [counted EXCEPT ![s] = 0] /\ job'[s].pc = "idle"
        /\ UNCHANGED <<health, streak, blurred>>
    BY <1>1, <1>5 DEF Crash, NoRun
  <2>2. /\ counted' \in [Server -> Nat]
        /\ \A p \in Server \ {s} : counted'[p] = counted[p]
    BY <1>1, <2>1
  <2>3. CountSound => CountSound'  BY <1>2, <2>1, <2>2 DEF CountSound
  <2>4. QED  BY <1>1, <2>1, <2>2, <2>3 DEF FailuresInv
<1>6. QED  BY <1>3, <1>4, <1>5

LEMMA OthersCount ==
    ASSUME LeaseInv, FailuresInv, NEW s \in Server,
           \/ Start(s) \/ Scan(s) \/ Release(s)
           \/ \E t \in job[s].tasks : Task(s, t)
    PROVE  FailuresInv'
<1>1. job \in [Server -> RunType] /\ job[s] \in RunType
  BY DEF LeaseInv, JobsTyped
<1>2. UNCHANGED records
  BY DEF Start, Scan, Release, Task, Claim, ClaimFails, Notify, NotifyFails, Undo
<1>3. \A p \in Server \ {s} : job'[p] = job[p]
  BY <1>1 DEF Start, Scan, Release, Task, Claim, ClaimFails, Notify, NotifyFails, Undo,
              Done, Moves, Failed
<1>4. job'[s].pc \in {"scan", "work"} => job[s].pc \in {"scan", "work"}
  <2>1. CASE Start(s) \/ Release(s)  BY <1>1, <2>1 DEF Start, Release, NoRun
  <2>2. CASE Scan(s)  BY <2>2 DEF Scan
  <2>3. ASSUME NEW t \in job[s].tasks, Task(s, t) PROVE job'[s].pc = job[s].pc
    <3>1. CASE job' = Done(s, t)  BY <1>1, <3>1 DEF Done, RunType
    <3>2. ASSUME NEW pc, job' = Moves(s, t, pc) PROVE job'[s].pc = job[s].pc
      BY <1>1, <3>2 DEF Moves, RunType
    <3>3. CASE job' = Failed(s, t)
      <4>1. PICK run : run = [job[s] EXCEPT !.failed = TRUE,
                                 !.tasks = (job[s].tasks \ {t}) \cup {[t EXCEPT !.pc = "undo"]}]
        OBVIOUS
      <4>2. job' = [job EXCEPT ![s] = run] /\ run.pc = job[s].pc
        BY <1>1, <3>3, <4>1 DEF Failed, RunType
      <4>3. QED  BY <1>1, <4>2
    <3>4. CASE job' = [Done(s, t) EXCEPT ![s].failed = TRUE]
      <4>1. PICK run : run = [job[s] EXCEPT !.tasks = job[s].tasks \ {t}, !.failed = TRUE]
        OBVIOUS
      <4>2. job' = [job EXCEPT ![s] = run] /\ run.pc = job[s].pc
        BY <1>1, <3>4, <4>1 DEF Done, RunType
      <4>3. QED  BY <1>1, <4>2
    <3>5. QED
      BY <2>3, <3>1, <3>2, <3>3, <3>4 DEF Task, Claim, ClaimFails, Notify, NotifyFails, Undo
  <2>4. QED  BY <2>1, <2>2, <2>3
<1>5. CountSound => CountSound'  BY <1>2, <1>3, <1>4 DEF CountSound, records
<1>6. QED  BY <1>2, <1>5 DEF FailuresInv, records

\* While every health record is read and saved and no two runs overlap, the record counts
\* the failures since the last success, in whatever process they happened (runSafe).
THEOREM FailuresAreCounted == JobsSpec => []FailuresCounted
<1>1. LeaseInv /\ FailuresInv /\ [JobsNext]_jobsVars => FailuresInv'
  <2> SUFFICES ASSUME LeaseInv, FailuresInv, [JobsNext]_jobsVars PROVE FailuresInv'
    OBVIOUS
  <2>1. CASE UNCHANGED <<job, records>>
    BY <2>1 DEF records, FailuresInv, CountSound
  <2>2. CASE Tick \/ UNCHANGED jobsVars \/ \E i \in Item : Book(i) \/ Close(i)
    BY <2>1, <2>2 DEF Tick, jobsVars, records, Book, Close
  <2>3. QED  BY <2>2, RunsCount, OthersCount DEF JobsNext, Step
<1>2. FailuresInv => FailuresCounted  BY DEF FailuresInv, CountSound, FailuresCounted
<1>3. QED  BY <1>1, <1>2, FailuresStart, LeaseInvariant, PTL DEF JobsSpec

-----------------------------------------------------------------------------
(* Reports *)

ReportType == [status : {"none", "pending"} \cup Verdict, context : Context \cup {Absent},
               appealed : BOOLEAN]
DecisionType ==
    [pc : {"idle", "open"}, report : Report \cup {Absent}, verdict : Verdict, doc : ReportType,
     upheld : Nat, banned : BOOLEAN, missed : BOOLEAN, clash : BOOLEAN]

\* What an open decision read: a pending report, and the case as it still is unless
\* another write to it followed.
SnapshotHolds(a) ==
    decision[a].pc = "open" =>
        /\ decision[a].report \in Report /\ decision[a].doc.status = "pending"
        /\ ~decision[a].missed =>
              decision[a].upheld = Cardinality(Actioned) /\ decision[a].banned = banned

ReportsInv ==
    /\ reports \in [Report -> ReportType] /\ banned \in BOOLEAN
    /\ decision \in [Admin -> DecisionType]
    /\ \A a \in Admin : SnapshotHolds(a)
    /\ BannedAtThreshold

LEMMA ActionedIsFinite == IsFiniteSet(Actioned) /\ Cardinality(Actioned) \in Nat
BY ThresholdAssumption, FS_Subset, FS_CardinalityType DEF Actioned

LEMMA ReportsStart == ReportsInit => ReportsInv
<1> SUFFICES ASSUME ReportsInit PROVE ReportsInv
  OBVIOUS
<1>1. NoReport \in ReportType  BY DEF NoReport, ReportType
<1>2. NoDecision \in DecisionType  BY <1>1 DEF NoDecision, DecisionType, Verdict
<1>3. \A a \in Admin : SnapshotHolds(a)  BY DEF ReportsInit, SnapshotHolds, NoDecision
<1>4. Actioned = {}  BY DEF ReportsInit, Actioned, NoReport
<1>5. Cardinality(Actioned) = 0  BY <1>4, FS_EmptySet
<1>6. BannedAtThreshold  BY <1>5, ThresholdAssumption DEF BannedAtThreshold
<1>7. QED  BY <1>1, <1>2, <1>3, <1>6 DEF ReportsInit, ReportsInv

\* The reports change, and no decision is taken by it.
LEMMA ReportsMove ==
    ASSUME ReportsInv, reports' \in [Report -> ReportType], Actioned' = Actioned,
           UNCHANGED <<banned, pardoned>>, decision' \in [Admin -> DecisionType],
           \A a \in Admin : SnapshotHolds(a)'
    PROVE  ReportsInv'
BY DEF ReportsInv, BannedAtThreshold

LEMMA FilingSteps ==
    ASSUME ReportsInv, NEW r \in Report,
           \/ \E x \in Context : File(r, x)
           \/ DeadlinePasses(r) \/ Appeal(r) \/ StoreAppeal(r)
    PROVE  ReportsInv'
<1>1. reports \in [Report -> ReportType] /\ decision \in [Admin -> DecisionType]
  BY DEF ReportsInv
<1>2. /\ reports' \in [Report -> ReportType]
      /\ \A o \in Report : reports'[o].status = "actioned" <=> reports[o].status = "actioned"
  <2>1. CASE UNCHANGED reports  BY <1>1, <2>1
  <2>2. CASE StoreAppeal(r)
    <3>1. CASE reports' = [reports EXCEPT ![r].appealed = TRUE]
      BY <1>1, <3>1 DEF ReportType
    <3>2. QED  BY <2>1, <2>2, <3>1 DEF StoreAppeal
  <2>3. ASSUME NEW x \in Context, File(r, x)
        PROVE  /\ reports' \in [Report -> ReportType]
               /\ \A o \in Report :
                     reports'[o].status = "actioned" <=> reports[o].status = "actioned"
    BY <1>1, <2>3 DEF File, ReportType
  <2>4. QED  BY <2>1, <2>2, <2>3 DEF DeadlinePasses, Appeal
<1>3. Actioned' = Actioned  BY <1>2 DEF Actioned
<1>4. UNCHANGED <<banned, pardoned, decision>>
  BY DEF File, DeadlinePasses, Appeal, StoreAppeal
<1>5. \A a \in Admin : SnapshotHolds(a)'
  BY <1>3, <1>4 DEF ReportsInv, SnapshotHolds
<1>6. QED  BY <1>1, <1>2, <1>3, <1>4, <1>5, ReportsMove

\* An open decision that is told of another's write.
LEMMA ToldIsMissed ==
    ASSUME ReportsInv, NEW clash \in BOOLEAN
    PROVE  /\ Told(clash) \in [Admin -> DecisionType]
           /\ \A b \in Admin :
                 Told(clash)[b].pc = "open" =>
                    /\ decision[b].pc = "open" /\ Told(clash)[b].missed
                    /\ Told(clash)[b].report = decision[b].report
                    /\ Told(clash)[b].doc = decision[b].doc
<1>1. ASSUME NEW b \in Admin
      PROVE  /\ Told(clash)[b] \in DecisionType
             /\ Told(clash)[b].pc = "open" =>
                    /\ decision[b].pc = "open" /\ Told(clash)[b].missed
                    /\ Told(clash)[b].report = decision[b].report
                    /\ Told(clash)[b].doc = decision[b].doc
  <2>1. decision[b] \in DecisionType /\ decision[b].clash \in BOOLEAN
    BY DEF ReportsInv, DecisionType
  <2>2. PICK c \in BOOLEAN : c = (decision[b].clash \/ clash)  BY <2>1
  <2>3. Told(clash)[b] = IF decision[b].pc = "idle" THEN decision[b]
                         ELSE [decision[b] EXCEPT !.missed = TRUE, !.clash = c]
    BY <2>1, <2>2 DEF Told, DecisionType
  <2>4. QED  BY <2>1, <2>3 DEF DecisionType
<1>2. QED  BY <1>1 DEF Told

LEMMA DecideStep ==
    ASSUME ReportsInv, NEW a \in Admin, NEW r \in Report, NEW v \in Verdict, Decide(a, r, v)
    PROVE  ReportsInv'
<1>1. reports \in [Report -> ReportType] /\ decision \in [Admin -> DecisionType]
      /\ banned \in BOOLEAN /\ reports[r].status = "pending"
  BY DEF ReportsInv, Decide
<1>2. PICK d \in DecisionType :
         /\ d = [pc |-> "open", report |-> r, verdict |-> v, doc |-> reports[r],
                 upheld |-> Cardinality(Actioned), banned |-> banned, missed |-> FALSE,
                 clash |-> FALSE]
  BY <1>1, ActionedIsFinite DEF DecisionType
<1>3. decision' = [decision EXCEPT ![a] = d] /\ UNCHANGED <<reports, banned, pardoned>>
  BY <1>2 DEF Decide
<1>4. d.report = r /\ d.doc.status = "pending" /\ d.upheld = Cardinality(Actioned)
      /\ d.banned = banned
  BY <1>1, <1>2
<1>5. Actioned' = Actioned  BY <1>3 DEF Actioned
<1>6. ASSUME NEW b \in Admin PROVE SnapshotHolds(b)'
  <2>1. CASE b = a  BY <1>1, <1>3, <1>4, <1>5, <2>1 DEF SnapshotHolds
  <2>2. CASE b # a
    <3>1. SnapshotHolds(b) /\ decision'[b] = decision[b]  BY <1>1, <1>3, <2>2 DEF ReportsInv
    <3>2. QED  BY <1>3, <1>5, <3>1 DEF SnapshotHolds
  <2>3. QED  BY <2>1, <2>2
<1>7. QED  BY <1>1, <1>3, <1>5, <1>6, ReportsMove

LEMMA CommitStep == ASSUME ReportsInv, NEW a \in Admin, Commit(a) PROVE ReportsInv'
<1> DEFINE d == decision[a]
<1>1. /\ reports \in [Report -> ReportType] /\ decision \in [Admin -> DecisionType]
      /\ d \in DecisionType /\ banned \in BOOLEAN /\ d.verdict \in Verdict
  BY DEF ReportsInv, DecisionType
<1>2. /\ d.pc = "open" /\ d.report \in Report /\ reports[d.report].status = "pending"
      /\ ~d.missed => d.upheld = Cardinality(Actioned) /\ d.banned = banned
  BY DEF Commit, Conflict, ReportsInv, SnapshotHolds
<1>3. /\ reports' = [reports EXCEPT ![d.report].status = d.verdict]
      /\ banned' = (banned \/ Bans(d))
  BY DEF Commit
<1>4. reports' \in [Report -> ReportType]  BY <1>1, <1>2, <1>3 DEF ReportType
<1>5. NoDecision \in DecisionType /\ NoDecision.pc = "idle"
  BY DEF NoDecision, NoReport, DecisionType, ReportType, Verdict
<1>6. CASE d.verdict = "actioned"
  <2>1. Bans(d) \in BOOLEAN  BY DEF Bans
  <2>2. PICK clash \in BOOLEAN : clash = Bans(d)  BY <2>1
  <2>3. decision' = [Told(clash) EXCEPT ![a] = NoDecision] /\ pardoned' = d.missed
    BY <1>6, <2>2 DEF Commit
  <2>4. decision' \in [Admin -> DecisionType]  BY <1>5, <2>3, ToldIsMissed
  <2>5. ASSUME NEW b \in Admin PROVE SnapshotHolds(b)'
    <3>1. CASE b = a  BY <1>5, <2>3, <3>1, ToldIsMissed DEF SnapshotHolds
    <3>2. CASE b # a
      <4>1. decision'[b] = Told(clash)[b]  BY <2>3, <3>2, ToldIsMissed
      <4>2. SnapshotHolds(b)  BY DEF ReportsInv
      <4>3. QED  BY <4>1, <4>2, ToldIsMissed DEF SnapshotHolds
    <3>3. QED  BY <3>1, <3>2
  <2>6. Actioned' = Actioned \cup {d.report} /\ d.report \notin Actioned
    BY <1>1, <1>2, <1>3, <1>6 DEF Actioned, ReportType
  <2>7. Cardinality(Actioned') = Cardinality(Actioned) + 1
    BY <2>6, ActionedIsFinite, FS_AddElement
  <2>8. BannedAtThreshold'
    <3>1. SUFFICES ASSUME Cardinality(Actioned') >= Threshold, ~d.missed PROVE banned'
      BY <2>3 DEF BannedAtThreshold
    <3>2. Count(d) >= Threshold  BY <1>2, <2>7, <3>1 DEF Count
    <3>3. Bans(d) \/ banned  BY <1>2, <1>6, <3>1, <3>2 DEF Bans
    <3>4. QED  BY <1>3, <3>3
  <2>9. banned' \in BOOLEAN  BY <1>1, <1>3 DEF Bans
  <2>10. QED  BY <1>4, <2>4, <2>5, <2>8, <2>9 DEF ReportsInv
<1>7. CASE d.verdict # "actioned"
  <2>1. decision' = [decision EXCEPT ![a] = NoDecision] /\ pardoned' = pardoned
        /\ banned' = banned
    BY <1>1, <1>3, <1>7 DEF Commit, Bans
  <2>2. Actioned' = Actioned  BY <1>1, <1>2, <1>3, <1>7 DEF Actioned, ReportType
  <2>3. decision' \in [Admin -> DecisionType]  BY <1>1, <1>5, <2>1
  <2>4. ASSUME NEW b \in Admin PROVE SnapshotHolds(b)'
    <3>1. decision'[b] = IF b = a THEN NoDecision ELSE decision[b]  BY <1>1, <2>1
    <3>2. SnapshotHolds(b)  BY DEF ReportsInv
    <3>3. QED  BY <1>5, <2>1, <2>2, <3>1, <3>2 DEF SnapshotHolds
  <2>5. QED  BY <1>4, <2>1, <2>2, <2>3, <2>4, ReportsMove
<1>8. QED  BY <1>6, <1>7

LEMMA OtherReportSteps ==
    ASSUME ReportsInv, BanByHand \/ Unban \/ \E a \in Admin : Abort(a)
    PROVE  ReportsInv'
<1>1. CASE BanByHand \/ Unban
  <2>1. decision' = Told(TRUE) /\ banned' \in BOOLEAN /\ UNCHANGED reports
    BY <1>1 DEF BanByHand, Unban
  <2>2. decision' \in [Admin -> DecisionType] /\ \A a \in Admin : SnapshotHolds(a)'
    BY <2>1, ToldIsMissed DEF ReportsInv, SnapshotHolds
  <2>3. banned' \/ pardoned'  BY <1>1 DEF BanByHand, Unban
  <2>4. QED  BY <2>1, <2>2, <2>3 DEF ReportsInv, BannedAtThreshold
<1>2. ASSUME NEW a \in Admin, Abort(a) PROVE ReportsInv'
  <2>1. NoDecision \in DecisionType /\ NoDecision.pc = "idle"
    BY DEF NoDecision, NoReport, DecisionType, ReportType, Verdict
  <2>2. decision' = [decision EXCEPT ![a] = NoDecision] /\ UNCHANGED <<reports, banned, pardoned>>
    BY <1>2 DEF Abort
  <2>3. decision' \in [Admin -> DecisionType] /\ Actioned' = Actioned
    BY <2>1, <2>2 DEF ReportsInv, Actioned
  <2>4. ASSUME NEW b \in Admin PROVE SnapshotHolds(b)'
    <3>1. decision'[b] = IF b = a THEN NoDecision ELSE decision[b]  BY <2>2 DEF ReportsInv
    <3>2. SnapshotHolds(b)  BY DEF ReportsInv
    <3>3. QED  BY <2>1, <2>2, <2>3, <3>1, <3>2 DEF SnapshotHolds
  <2>5. QED  BY <2>2, <2>3, <2>4, ReportsMove DEF ReportsInv
<1>3. QED  BY <1>1, <1>2

LEMMA ReportsInvariant == ReportsSpec => []ReportsInv
<1>1. ReportsInv /\ [ReportsNext]_reportVars => ReportsInv'
  <2> SUFFICES ASSUME ReportsInv, [ReportsNext]_reportVars PROVE ReportsInv'
    OBVIOUS
  <2>1. CASE ReportsNext
    BY <2>1, FilingSteps, DecideStep, CommitStep, OtherReportSteps DEF ReportsNext
  <2>2. CASE UNCHANGED reportVars
    BY <2>2 DEF reportVars, ReportsInv, SnapshotHolds, Actioned, BannedAtThreshold
  <2>3. QED  BY <2>1, <2>2
<1>2. QED  BY <1>1, ReportsStart, PTL DEF ReportsSpec

\* A user against whom Threshold reports were upheld is banned, unless the ban was
\* lifted or the last approval overlapped another change to the case (resolveReport,
\* countActionedByReportedUser).
THEOREM ThresholdBans == ReportsSpec => []BannedAtThreshold
<1>1. ReportsInv => BannedAtThreshold  BY DEF ReportsInv
<1>2. QED  BY <1>1, ReportsInvariant, PTL

\* A decided report never changes: of several decisions one is stored, and no appeal
\* checked before it is stored after it (resolveReport, reportRepository.submitAppeal).
THEOREM DecisionsFinal == ReportsSpec => DecisionsAreFinal
<1>1. ReportsInv /\ [ReportsNext]_reportVars
      => [\A r \in Report : reports[r].status \in Verdict => reports'[r] = reports[r]]_reportVars
  <2> SUFFICES ASSUME ReportsInv, ReportsNext, NEW r \in Report, reports[r].status \in Verdict
               PROVE  reports'[r] = reports[r]
    OBVIOUS
  <2>1. reports \in [Report -> ReportType]  BY DEF ReportsInv
  <2>2. ASSUME NEW a \in Admin, Commit(a) PROVE reports'[r] = reports[r]
    <3>1. /\ reports' = [reports EXCEPT ![decision[a].report].status = decision[a].verdict]
          /\ reports[decision[a].report].status = "pending"
      BY <2>2 DEF Commit, Conflict, ReportsInv, SnapshotHolds
    <3>2. QED  BY <2>1, <3>1 DEF Verdict
  <2>3. ASSUME NEW o \in Report, NEW x \in Context, File(o, x) PROVE reports'[r] = reports[r]
    BY <2>1, <2>3 DEF File, Verdict
  <2>4. ASSUME NEW o \in Report, StoreAppeal(o) PROVE reports'[r] = reports[r]
    BY <2>1, <2>4 DEF StoreAppeal, Appealable, Verdict
  <2>5. QED
    BY <2>2, <2>3, <2>4
    DEF ReportsNext, DeadlinePasses, Appeal, Decide, Abort, BanByHand, Unban
<1>2. QED  BY <1>1, ReportsInvariant, PTL DEF ReportsSpec, DecisionsAreFinal

-----------------------------------------------------------------------------
(* The settings that processes cache *)

LoadType == [pc : {"read", "fill", "arrive"}, at : Process, gen : Nat, doc : Document,
             job : BOOLEAN]
EditType == [pc : {"commit", "invalidate"}, version : Nat, day : Day]

\* A load began under a generation that came before; what it read under the present
\* one is no older than what its process was told of.
LoadSound(l) ==
    /\ load[l].gen <= generation[load[l].at]
    /\ load[l].pc = "arrive" /\ load[l].gen = generation[load[l].at] =>
          load[l].doc.version >= floor[load[l].at]

SettingsTyped ==
    /\ doc \in Document
    /\ generation \in [Process -> Nat] /\ floor \in [Process -> Nat]
    /\ load \in [DOMAIN load -> LoadType] /\ editor \in [DOMAIN editor -> EditType]
    /\ DOMAIN copy \subseteq Process /\ copy \in [DOMAIN copy -> Document]
    /\ \A m \in mail : m.to \in Process /\ m.version \in Nat

\* Nobody was told of an update that is not in the document.
NothingAhead ==
    /\ \A p \in Process : floor[p] <= doc.version
    /\ \A p \in DOMAIN editor : editor[p].pc = "invalidate" => editor[p].version <= doc.version
    /\ \A m \in mail : m.version <= doc.version

SettingsInv ==
    /\ SettingsTyped /\ NothingAhead /\ NoStaleFill
    /\ \A l \in DOMAIN load : LoadSound(l)

\* A process that is starting has no copy, and loads for its job only.
StartsEmpty ==
    /\ up \subseteq Process /\ DOMAIN copy \subseteq up
    /\ \A l \in DOMAIN load : load[l].job \/ load[l].at \in up

LEMMA SettingsStart == SettingsInit => SettingsInv
<1> SUFFICES ASSUME SettingsInit PROVE SettingsInv
  OBVIOUS
<1>1. doc \in Document /\ doc.version = 1
  BY SettingsAssumption DEF SettingsInit, Document
<1>2. DOMAIN <<>> = {} /\ <<>> \in [{} -> LoadType] /\ <<>> \in [{} -> EditType]
      /\ <<>> \in [{} -> Document]
  OBVIOUS
<1>3. SettingsTyped  BY <1>1, <1>2 DEF SettingsInit, SettingsTyped
<1>4. NothingAhead  BY <1>1, <1>2 DEF SettingsInit, NothingAhead
<1>5. QED  BY <1>2, <1>3, <1>4 DEF SettingsInit, SettingsInv, NoStaleFill

\* One load moves on, having read the document or not.
LEMMA LoadMoves ==
    ASSUME SettingsInv, NEW l \in DOMAIN load, NEW pc \in {"fill", "arrive"},
           doc' \in Document, doc'.version = doc.version,
           load' = [load EXCEPT ![l].pc = pc, ![l].doc = doc'],
           UNCHANGED <<generation, floor, copy, editor, mail>>
    PROVE  SettingsInv'
<1>1. load[l] \in LoadType /\ load \in [DOMAIN load -> LoadType]
  BY DEF SettingsInv, SettingsTyped
<1>2. PICK d \in Document : d = doc'  OBVIOUS
<1>3. PICK new \in LoadType : new = [load[l] EXCEPT !.pc = pc, !.doc = d]
  BY <1>1 DEF LoadType
<1>4. load' = [load EXCEPT ![l] = new]  BY <1>1, <1>2, <1>3
<1>5. load' \in [DOMAIN load' -> LoadType] /\ DOMAIN load' = DOMAIN load
      /\ load'[l] = new /\ \A m \in DOMAIN load \ {l} : load'[m] = load[m]
  BY <1>1, <1>4
<1>6. new.at = load[l].at /\ new.gen = load[l].gen /\ new.doc = d /\ new.at \in Process
  BY <1>1, <1>3 DEF LoadType
<1>7. SettingsTyped'  BY <1>5 DEF SettingsInv, SettingsTyped
<1>8. NothingAhead' /\ NoStaleFill'  BY DEF SettingsInv, NothingAhead, NoStaleFill
<1>9. floor[new.at] <= d.version /\ LoadSound(l)
  BY <1>2, <1>6 DEF SettingsInv, NothingAhead
<1>10. LoadSound(l)'
  <2>1. d.version \in Nat /\ floor[new.at] \in Nat
    BY <1>6 DEF SettingsInv, SettingsTyped, Document
  <2>2. QED  BY <1>5, <1>6, <1>9, <2>1 DEF LoadSound
<1>11. \A m \in DOMAIN load \ {l} : LoadSound(m)'
  BY <1>5 DEF SettingsInv, LoadSound
<1>12. QED  BY <1>5, <1>7, <1>8, <1>10, <1>11 DEF SettingsInv

LEMMA LoadSteps ==
    ASSUME SettingsInv, NEW l, ReadDoc(l) \/ FillDoc(l) PROVE SettingsInv'
<1>1. doc \in Document  BY DEF SettingsInv, SettingsTyped
<1>2. CASE ReadDoc(l)
  <2>1. /\ l \in DOMAIN load /\ UNCHANGED <<doc, generation, floor, copy, editor, mail>>
        /\ \E pc \in {"fill", "arrive"} : load' = [load EXCEPT ![l].pc = pc, ![l].doc = doc']
    BY <1>2 DEF ReadDoc
  <2>2. QED  BY <1>1, <2>1, LoadMoves
<1>3. CASE FillDoc(l)
  <2>1. /\ l \in DOMAIN load /\ UNCHANGED <<generation, floor, copy, editor, mail>>
        /\ load' = [load EXCEPT ![l].pc = "arrive", ![l].doc = doc'] /\ doc' = Filled
    BY <1>3 DEF FillDoc
  <2>2. Filled \in Document /\ Filled.version = doc.version
    BY <1>1, SettingsAssumption DEF Filled, Document
  <2>3. QED  BY <2>1, <2>2, LoadMoves
<1>4. QED  BY <1>2, <1>3

\* A load that reads or fills in the document stays its process's.
LEMMA LoadsKeepTheirs ==
    ASSUME SettingsInv, NEW l, ReadDoc(l) \/ FillDoc(l)
    PROVE  /\ DOMAIN load' = DOMAIN load /\ l \in DOMAIN load /\ load'[l].doc = doc'
           /\ \A m \in DOMAIN load : load'[m].job = load[m].job /\ load'[m].at = load[m].at
                                     /\ load'[m].gen = load[m].gen
           /\ \A m \in DOMAIN load \ {l} : load'[m] = load[m]
<1>1. load \in [DOMAIN load -> LoadType] /\ l \in DOMAIN load /\ load[l] \in LoadType
  BY DEF ReadDoc, FillDoc, SettingsInv, SettingsTyped
<1>2. PICK d : d = doc'  OBVIOUS
<1>3. PICK pc \in {"fill", "arrive"} : load' = [load EXCEPT ![l].pc = pc, ![l].doc = d]
  BY <1>2 DEF ReadDoc, FillDoc
<1>4. PICK new : new = [load[l] EXCEPT !.pc = pc, !.doc = d]  OBVIOUS
<1>5. load' = [load EXCEPT ![l] = new]  BY <1>1, <1>3, <1>4
<1>6. new.doc = d /\ new.job = load[l].job /\ new.at = load[l].at /\ new.gen = load[l].gen
  BY <1>1, <1>4 DEF LoadType
<1>7. QED  BY <1>1, <1>2, <1>5, <1>6

\* The loads stay as they are, or fewer; nothing is told.
LEMMA LoadsStay ==
    ASSUME SettingsInv, SettingsTyped', NothingAhead', UNCHANGED <<generation, floor>>,
           DOMAIN load' \subseteq DOMAIN load, \A l \in DOMAIN load' : load'[l] = load[l],
           NoStaleFill'
    PROVE  SettingsInv'
BY DEF SettingsInv, LoadSound

LEMMA CacheSteps ==
    ASSUME SettingsInv, NEW p \in Process,
           \/ Expires(p) \/ EditCommit(p) \/ EditFails(p) \/ (\E day \in Day : EditRead(p, day))
           \/ (\E l \in Load : GetCached(p, l))
           \/ (\E l \in Load : Arrive(l)) \/ (\E l \in Load : LoadFails(l))
    PROVE  SettingsInv'
<1>1. /\ SettingsTyped /\ NothingAhead /\ NoStaleFill
      /\ copy \in [DOMAIN copy -> Document] /\ load \in [DOMAIN load -> LoadType]
      /\ editor \in [DOMAIN editor -> EditType] /\ doc \in Document /\ DOMAIN copy \subseteq Process
  BY DEF SettingsInv, SettingsTyped
<1>2. CASE Expires(p)
  <2>1. copy' = Drop(copy, p) /\ UNCHANGED <<doc, generation, load, editor, mail, floor>>
    BY <1>2 DEF Expires
  <2>2. SettingsTyped'  BY <1>1, <2>1 DEF SettingsTyped, Drop
  <2>3. NoStaleFill'  BY <1>1, <2>1 DEF NoStaleFill, Drop
  <2>4. QED  BY <1>1, <2>1, <2>2, <2>3, LoadsStay DEF NothingAhead
<1>3. CASE EditCommit(p)
  <2>1. UNCHANGED <<copy, generation, load, mail, floor>> /\ editor[p] \in EditType
        /\ p \in DOMAIN editor
    BY <1>1, <1>3 DEF EditCommit, caching
  <2>2. SettingsTyped' /\ NothingAhead'
    <3>1. CASE doc.version = editor[p].version
      <4>1. PICK v \in Nat : v = doc.version + 1  BY <1>1 DEF Document
      <4>2. PICK e \in EditType : e = [editor[p] EXCEPT !.pc = "invalidate", !.version = v]
        BY <2>1 DEF EditType
      <4>3. PICK d \in Document : d = [doc EXCEPT !.version = v, !.day = editor[p].day]
        BY <1>1, <2>1 DEF Document, EditType
      <4>4. doc' = d /\ editor' = [editor EXCEPT ![p] = e]
        BY <1>1, <1>3, <2>1, <3>1, <4>1, <4>2, <4>3 DEF EditCommit, EditType, Document
      <4>5. d.version = v /\ e.version = v  BY <1>1, <2>1, <4>2, <4>3 DEF Document, EditType
      <4>6. SettingsTyped'  BY <1>1, <2>1, <4>4 DEF SettingsTyped
      <4>7. doc.version \in Nat /\ doc.version <= doc'.version
        BY <1>1, <4>1, <4>4, <4>5 DEF Document
      <4>8. \A q \in Process : floor'[q] <= doc'.version
        BY <1>1, <2>1, <4>1, <4>4, <4>5, <4>7 DEF NothingAhead, SettingsTyped
      <4>9. \A q \in DOMAIN editor' :
               editor'[q].pc = "invalidate" => editor'[q].version <= doc'.version
        BY <1>1, <4>1, <4>4, <4>5, <4>7 DEF NothingAhead, EditType
      <4>10. \A m \in mail' : m.version <= doc'.version
        BY <1>1, <2>1, <4>1, <4>4, <4>5, <4>7 DEF NothingAhead, SettingsTyped
      <4>11. QED  BY <4>6, <4>8, <4>9, <4>10 DEF NothingAhead
    <3>2. CASE doc.version # editor[p].version
      <4>1. editor' = Drop(editor, p) /\ doc' = doc  BY <1>3, <3>2 DEF EditCommit
      <4>2. SettingsTyped'  BY <1>1, <2>1, <4>1 DEF SettingsTyped, Drop
      <4>3. NothingAhead'  BY <1>1, <2>1, <4>1 DEF NothingAhead, Drop
      <4>4. QED  BY <4>2, <4>3
    <3>3. QED  BY <3>1, <3>2
  <2>3. QED  BY <1>1, <2>1, <2>2, LoadsStay DEF NoStaleFill
<1>4. ASSUME NEW day \in Day, EditRead(p, day) PROVE SettingsInv'
  <2>1. PICK e \in EditType : e = [pc |-> "commit", version |-> doc.version, day |-> day]
    BY <1>1 DEF EditType, Document
  <2>2. editor' = Put(editor, p, e) /\ UNCHANGED <<doc, copy, generation, load, mail, floor>>
    BY <1>4, <2>1 DEF EditRead, caching
  <2>3. SettingsTyped'  BY <1>1, <2>2 DEF SettingsTyped, Put
  <2>4. NothingAhead'
    <3>1. e.pc # "invalidate"  BY <2>1
    <3>2. \A q \in DOMAIN editor' :
             editor'[q].pc = "invalidate" => editor'[q].version <= doc'.version
      BY <1>1, <2>2, <3>1 DEF NothingAhead, Put
    <3>3. QED  BY <1>1, <2>2, <3>2 DEF NothingAhead
  <2>5. QED  BY <1>1, <2>2, <2>3, <2>4, LoadsStay DEF NoStaleFill
<1>5. ASSUME NEW l \in Load, GetCached(p, l) PROVE SettingsInv'
  <2>1. generation[p] \in Nat /\ Nothing \in Document
    BY <1>1, SettingsAssumption DEF SettingsTyped, Nothing, Document
  <2>2. PICK new \in LoadType : new = Begun(p, generation[p], FALSE)
    BY <2>1 DEF Begun, LoadType
  <2>3. load' = Put(load, l, new) /\ UNCHANGED <<doc, copy, generation, editor, mail, floor>>
    BY <1>5, <2>2 DEF GetCached
  <2>4. SettingsTyped'  BY <1>1, <2>3 DEF SettingsTyped, Put
  <2>5. new.pc = "read" /\ new.gen = generation[p] /\ new.at = p  BY <2>2 DEF Begun
  <2>6. LoadSound(l)'  BY <1>1, <2>1, <2>3, <2>5 DEF LoadSound, Put
  <2>7. \A m \in DOMAIN load \ {l} : LoadSound(m)'
    BY <1>1, <2>3 DEF LoadSound, SettingsInv, Put
  <2>8. DOMAIN load' = DOMAIN load \cup {l}  BY <1>1, <2>3 DEF Put
  <2>9. QED  BY <1>1, <2>3, <2>4, <2>6, <2>7, <2>8 DEF SettingsInv, NothingAhead, NoStaleFill
<1>6. ASSUME NEW l \in Load, Arrive(l) PROVE SettingsInv'
  <2>1. /\ l \in DOMAIN load /\ load[l] \in LoadType /\ load[l].pc = "arrive" /\ LoadSound(l)
        /\ load[l].at \in Process /\ load[l].doc \in Document
    BY <1>1, <1>6 DEF Arrive, LoadType, SettingsInv
  <2>2. /\ copy' = IF StillCurrent(l) THEN Put(copy, load[l].at, load[l].doc) ELSE copy
        /\ load' = Drop(load, l) /\ UNCHANGED <<doc, generation, editor, mail, floor>>
    BY <1>6 DEF Arrive, Ends
  <2>3. SettingsTyped'
    <3>1. load' \in [DOMAIN load' -> LoadType]  BY <1>1, <2>2 DEF Drop
    <3>2. DOMAIN copy' \subseteq Process /\ copy' \in [DOMAIN copy' -> Document]
      BY <1>1, <2>1, <2>2 DEF Put
    <3>3. QED  BY <1>1, <2>2, <3>1, <3>2 DEF SettingsTyped
  <2>4. NoStaleFill'
    <3>1. CASE StillCurrent(l)
      <4>1. load[l].doc.version >= floor[load[l].at]
        BY <2>1, <3>1 DEF StillCurrent, LoadSound
      <4>2. QED  BY <1>1, <2>1, <2>2, <3>1, <4>1 DEF NoStaleFill, Put
    <3>2. CASE ~StillCurrent(l)  BY <1>1, <2>2, <3>2 DEF NoStaleFill
    <3>3. QED  BY <3>1, <3>2
  <2>5. DOMAIN load' \subseteq DOMAIN load /\ \A m \in DOMAIN load' : load'[m] = load[m]
    BY <1>1, <2>2 DEF Drop
  <2>6. QED  BY <1>1, <2>2, <2>3, <2>4, <2>5, LoadsStay DEF NothingAhead
<1>7. ASSUME NEW l \in Load, LoadFails(l) PROVE SettingsInv'
  <2>1. load' = Drop(load, l) /\ UNCHANGED <<doc, copy, generation, editor, mail, floor>>
    BY <1>7 DEF LoadFails, Ends
  <2>2. SettingsTyped'  BY <1>1, <2>1 DEF SettingsTyped, Drop
  <2>3. DOMAIN load' \subseteq DOMAIN load /\ \A m \in DOMAIN load' : load'[m] = load[m]
    BY <1>1, <2>1 DEF Drop
  <2>4. QED  BY <1>1, <2>1, <2>2, <2>3, LoadsStay DEF NothingAhead, NoStaleFill
<1>8. CASE EditFails(p)
  <2>1. editor' = Drop(editor, p) /\ UNCHANGED <<doc, copy, generation, load, mail, floor>>
    BY <1>8 DEF EditFails, caching
  <2>2. SettingsTyped'  BY <1>1, <2>1 DEF SettingsTyped, Drop
  <2>3. NothingAhead'  BY <1>1, <2>1 DEF NothingAhead, Drop
  <2>4. QED  BY <1>1, <2>1, <2>2, <2>3, LoadsStay DEF NoStaleFill
<1>9. QED  BY <1>2, <1>3, <1>4, <1>5, <1>6, <1>7, <1>8

\* What forgetting does in a process: nothing that was under way counts any more, and
\* the load that it begins, if it begins one, has read nothing.
LEMMA Forgets ==
    ASSUME SettingsInv, NEW p \in Process, NEW v \in Nat, v <= doc.version, Forget(p, v),
           doc' = doc, load' \in [DOMAIN load' -> LoadType],
           \A m \in DOMAIN load' :
              \/ m \in DOMAIN load /\ load'[m] = load[m]
              \/ /\ load'[m].pc = "read" /\ load'[m].at = p
                 /\ load'[m].gen = generation[p] + 1,
           editor' \in [DOMAIN editor' -> EditType], DOMAIN editor' \subseteq DOMAIN editor,
           \A q \in DOMAIN editor' : editor'[q] = editor[q],
           \A m \in mail' : m.to \in Process /\ m.version \in Nat /\ m.version <= doc.version
    PROVE  SettingsInv'
<1>1. /\ SettingsTyped /\ NothingAhead /\ NoStaleFill
      /\ copy \in [DOMAIN copy -> Document] /\ load \in [DOMAIN load -> LoadType]
      /\ doc \in Document /\ DOMAIN copy \subseteq Process
      /\ generation \in [Process -> Nat] /\ floor \in [Process -> Nat]
  BY DEF SettingsInv, SettingsTyped
<1>2. generation[p] \in Nat /\ floor[p] \in Nat  BY <1>1
<1>3. /\ copy' = Drop(copy, p)
      /\ generation' = [generation EXCEPT ![p] = generation[p] + 1]
      /\ floor' = [floor EXCEPT ![p] = IF v > floor[p] THEN v ELSE floor[p]]
  BY DEF Forget
<1>4. /\ generation' \in [Process -> Nat] /\ floor' \in [Process -> Nat]
      /\ generation'[p] = generation[p] + 1
      /\ \A q \in Process \ {p} : generation'[q] = generation[q] /\ floor'[q] = floor[q]
  BY <1>1, <1>2, <1>3
<1>5. SettingsTyped'
  <2>1. DOMAIN copy' \subseteq Process /\ copy' \in [DOMAIN copy' -> Document]
    BY <1>1, <1>3 DEF Drop
  <2>2. QED  BY <1>1, <1>4, <2>1 DEF SettingsTyped
<1>6. NothingAhead'
  <2>1. \A q \in Process : floor'[q] <= doc'.version
    BY <1>1, <1>2, <1>3 DEF NothingAhead
  <2>2. QED  BY <1>1, <2>1 DEF NothingAhead
<1>7. NoStaleFill'
  <2>1. \A q \in DOMAIN copy' : q # p /\ q \in DOMAIN copy /\ copy'[q] = copy[q]
    BY <1>1, <1>3 DEF Drop
  <2>2. QED  BY <1>1, <1>4, <2>1 DEF NoStaleFill
<1>8. ASSUME NEW m \in DOMAIN load', load'[m].pc = "read", load'[m].at = p,
             load'[m].gen = generation[p] + 1
      PROVE  LoadSound(m)'
  BY <1>2, <1>4, <1>8 DEF LoadSound
<1>9. ASSUME NEW m \in DOMAIN load, load'[m] = load[m] PROVE LoadSound(m)'
  <2>1. LoadSound(m) /\ load'[m] = load[m] /\ load[m] \in LoadType
    BY <1>1, <1>9 DEF SettingsInv
  <2>2. load[m].gen \in Nat /\ load[m].at \in Process  BY <2>1 DEF LoadType
  <2>3. CASE load[m].at = p  BY <1>2, <1>4, <2>1, <2>2, <2>3 DEF LoadSound
  <2>4. CASE load[m].at # p  BY <1>4, <2>1, <2>2, <2>4 DEF LoadSound
  <2>5. QED  BY <2>3, <2>4
<1>10. QED  BY <1>5, <1>6, <1>7, <1>8, <1>9 DEF SettingsInv

LEMMA BegunIsLoad ==
    ASSUME NEW p \in Process, NEW g \in Nat, NEW forJob \in BOOLEAN
    PROVE  /\ Begun(p, g, forJob) \in LoadType
           /\ Begun(p, g, forJob).pc = "read" /\ Begun(p, g, forJob).at = p
           /\ Begun(p, g, forJob).gen = g /\ Begun(p, g, forJob).job = forJob
BY SettingsAssumption DEF Begun, LoadType, Nothing, Document

\* An invalidation that the handler hears of.
LEMMA Invalidated ==
    ASSUME SettingsInv, NEW p \in Process, NEW l, NEW v \in Nat, v <= doc.version,
           Invalidate(p, l, v), doc' = doc,
           editor' \in [DOMAIN editor' -> EditType], DOMAIN editor' \subseteq DOMAIN editor,
           \A q \in DOMAIN editor' : editor'[q] = editor[q],
           \A m \in mail' : m.to \in Process /\ m.version \in Nat /\ m.version <= doc.version
    PROVE  SettingsInv'
<1>1. load \in [DOMAIN load -> LoadType] /\ generation[p] \in Nat
  BY DEF SettingsInv, SettingsTyped
<1>2. PICK g \in Nat : g = generation[p] + 1  BY <1>1
<1>3. PICK new \in LoadType : /\ new = Begun(p, g, TRUE)
                              /\ new.pc = "read" /\ new.at = p /\ new.gen = g
  BY BegunIsLoad
<1>4. Forget(p, v) /\ load' = Put(load, l, new)
  BY <1>2, <1>3 DEF Invalidate, JobLoads
<1>5. /\ load' \in [DOMAIN load' -> LoadType] /\ load'[l] = new
      /\ \A m \in DOMAIN load' : m = l \/ (m \in DOMAIN load /\ load'[m] = load[m])
  BY <1>1, <1>4 DEF Put
<1>6. \A m \in DOMAIN load' :
         \/ m \in DOMAIN load /\ load'[m] = load[m]
         \/ /\ load'[m].pc = "read" /\ load'[m].at = p
            /\ load'[m].gen = generation[p] + 1
  BY <1>2, <1>3, <1>5
<1>7. QED  BY <1>4, <1>5, <1>6, Forgets

LEMMA ToldSteps ==
    ASSUME SettingsInv, NEW l \in Load,
           (\E p \in Process : EditInvalidate(p, l)) \/ (\E m \in mail : Receive(m, l))
    PROVE  SettingsInv'
<1>1. /\ \A m \in mail : m.to \in Process /\ m.version \in Nat /\ m.version <= doc.version
      /\ editor \in [DOMAIN editor -> EditType]
  BY DEF SettingsInv, SettingsTyped, NothingAhead
<1>2. ASSUME NEW p \in Process, EditInvalidate(p, l) PROVE SettingsInv'
  <2>1. /\ p \in DOMAIN editor /\ editor[p].version \in Nat /\ editor[p].version <= doc.version
    BY <1>1, <1>2 DEF EditInvalidate, EditType, SettingsInv, NothingAhead
  <2>2. PICK v \in Nat : v = editor[p].version  BY <2>1
  <2>3. /\ Invalidate(p, l, v) /\ doc' = doc /\ editor' = Drop(editor, p)
        /\ mail' = mail \cup {[to |-> q, version |-> v] : q \in Process \ {p}}
    BY <1>2, <2>2 DEF EditInvalidate
  <2>4. \A m \in mail' : m.to \in Process /\ m.version \in Nat /\ m.version <= doc.version
    <3>1. \A q \in Process :
             LET m == [to |-> q, version |-> v]
             IN  m.to \in Process /\ m.version \in Nat /\ m.version <= doc.version
      BY <2>1, <2>2
    <3>2. QED  BY <1>1, <2>3, <3>1
  <2>5. QED  BY <1>1, <2>1, <2>2, <2>3, <2>4, Invalidated DEF Drop
<1>3. ASSUME NEW m \in mail, Receive(m, l) PROVE SettingsInv'
  <2>1. PICK p \in Process, v \in Nat : p = m.to /\ v = m.version  BY <1>1
  <2>2. Invalidate(p, l, v) /\ UNCHANGED <<doc, editor>> /\ mail' = mail \ {m}
    BY <1>3, <2>1 DEF Receive
  <2>3. QED  BY <1>1, <2>1, <2>2, Invalidated
<1>4. QED  BY <1>2, <1>3

LEMMA ReceiveStartingStep ==
    ASSUME SettingsInv, NEW m \in mail, ReceiveStarting(m) PROVE SettingsInv'
<1>1. /\ \A n \in mail : n.to \in Process /\ n.version \in Nat /\ n.version <= doc.version
      /\ editor \in [DOMAIN editor -> EditType] /\ load \in [DOMAIN load -> LoadType]
  BY DEF SettingsInv, SettingsTyped, NothingAhead
<1>2. PICK p \in Process, v \in Nat : p = m.to /\ v = m.version  BY <1>1
<1>3. Forget(p, v) /\ UNCHANGED <<doc, load, editor>> /\ mail' = mail \ {m}
  BY <1>2 DEF ReceiveStarting
<1>4. QED  BY <1>1, <1>2, <1>3, Forgets

LEMMA DiesStep == ASSUME SettingsInv, NEW p \in Process, Dies(p) PROVE SettingsInv'
<1>1. /\ SettingsTyped /\ NothingAhead /\ NoStaleFill
      /\ copy \in [DOMAIN copy -> Document] /\ load \in [DOMAIN load -> LoadType]
      /\ editor \in [DOMAIN editor -> EditType] /\ DOMAIN copy \subseteq Process
  BY DEF SettingsInv, SettingsTyped
<1>2. /\ copy' = Drop(copy, p) /\ editor' = Drop(editor, p)
      /\ UNCHANGED <<doc, generation, floor>>
      /\ load' = [l \in {x \in DOMAIN load : load[x].at # p} |-> load[l]]
      /\ mail' = {m \in mail : m.to # p}
  BY DEF Dies
<1>3. SettingsTyped'  BY <1>1, <1>2 DEF SettingsTyped, Drop
<1>4. NothingAhead'  BY <1>1, <1>2 DEF NothingAhead, Drop
<1>5. NoStaleFill'  BY <1>1, <1>2 DEF NoStaleFill, Drop
<1>6. DOMAIN load' \subseteq DOMAIN load /\ \A m \in DOMAIN load' : load'[m] = load[m]
  BY <1>2
<1>7. QED  BY <1>2, <1>3, <1>4, <1>5, <1>6, LoadsStay

LEMMA BootsStep ==
    ASSUME SettingsInv, StartsEmpty, NEW p \in Process, NEW l, Boots(p, l)
    PROVE  SettingsInv'
<1>1. /\ SettingsTyped /\ NothingAhead /\ NoStaleFill /\ doc.version \in Nat
      /\ load \in [DOMAIN load -> LoadType]
      /\ generation \in [Process -> Nat] /\ floor \in [Process -> Nat]
  BY DEF SettingsInv, SettingsTyped, Document
<1>2. PICK new \in LoadType : /\ new = Begun(p, 0, TRUE)
                              /\ new.pc = "read" /\ new.at = p /\ new.gen = 0
  <2>1. PICK g \in Nat : g = 0  OBVIOUS
  <2>2. /\ Begun(p, g, TRUE) \in LoadType /\ Begun(p, g, TRUE).pc = "read"
        /\ Begun(p, g, TRUE).at = p /\ Begun(p, g, TRUE).gen = g
    BY BegunIsLoad
  <2>3. QED  BY <2>1, <2>2
<1>3. /\ load' = Put(load, l, new) /\ UNCHANGED <<doc, copy, editor, mail>>
      /\ floor' = [floor EXCEPT ![p] = doc.version]
      /\ generation' = [generation EXCEPT ![p] = 0]
      /\ \A m \in DOMAIN load : load[m].at # p
  BY <1>2 DEF Boots
<1>4. \A q \in Process : generation'[q] \in Nat /\ floor'[q] \in Nat
      /\ (q # p => generation'[q] = generation[q] /\ floor'[q] = floor[q])
  BY <1>1, <1>3
<1>5. /\ load' \in [DOMAIN load' -> LoadType] /\ load'[l] = new
      /\ \A m \in DOMAIN load' : m = l \/ (m \in DOMAIN load /\ load'[m] = load[m])
  BY <1>1, <1>3 DEF Put
<1>6. SettingsTyped'  BY <1>1, <1>3, <1>5 DEF SettingsTyped
<1>7. NothingAhead'
  <2>1. \A q \in Process : floor'[q] <= doc'.version  BY <1>1, <1>3 DEF NothingAhead
  <2>2. QED  BY <1>1, <1>3, <2>1 DEF NothingAhead
<1>8. NoStaleFill'
  <2>1. \A q \in DOMAIN copy : q # p /\ q \in Process
    BY <1>1 DEF SettingsTyped, StartsEmpty, Boots
  <2>2. QED  BY <1>1, <1>3, <1>4, <2>1 DEF NoStaleFill
<1>9. LoadSound(l)'
  <2>1. generation'[p] = 0  BY <1>1, <1>3
  <2>2. load'[l].pc # "arrive" /\ load'[l].gen = 0 /\ load'[l].at = p  BY <1>2, <1>5
  <2>3. QED  BY <2>1, <2>2 DEF LoadSound
<1>10. ASSUME NEW m \in DOMAIN load, load'[m] = load[m] PROVE LoadSound(m)'
  <2>1. LoadSound(m) /\ load[m].at # p /\ load[m].at \in Process
    BY <1>1, <1>3 DEF SettingsInv, LoadType
  <2>2. QED  BY <1>4, <1>10, <2>1 DEF LoadSound
<1>11. QED  BY <1>5, <1>6, <1>7, <1>8, <1>9, <1>10 DEF SettingsInv

LEMMA StartsEmptyStep ==
    ASSUME SettingsInv, StartsEmpty, [SettingsNext]_settingsVars PROVE StartsEmpty'
<1>1. /\ load \in [DOMAIN load -> LoadType] /\ up \subseteq Process /\ DOMAIN copy \subseteq up
      /\ \A l \in DOMAIN load : load[l].job \/ load[l].at \in up
  BY DEF SettingsInv, SettingsTyped, StartsEmpty
<1>2. ASSUME UNCHANGED <<copy, up>>, DOMAIN load' \subseteq DOMAIN load,
             \A l \in DOMAIN load' : load'[l] = load[l]
      PROVE  StartsEmpty'
  BY <1>1, <1>2 DEF StartsEmpty
<1>3. CASE UNCHANGED settingsVars  BY <1>2, <1>3 DEF settingsVars, caching, running
<1>4. ASSUME NEW l \in Load, ReadDoc(l) \/ FillDoc(l) PROVE StartsEmpty'
  <2>1. UNCHANGED <<copy, up>>  BY <1>4 DEF ReadDoc, FillDoc, running
  <2>2. /\ DOMAIN load' = DOMAIN load
        /\ \A m \in DOMAIN load : load'[m].job = load[m].job /\ load'[m].at = load[m].at
    BY <1>4, LoadsKeepTheirs
  <2>3. QED  BY <1>1, <2>1, <2>2 DEF StartsEmpty
<1>5. ASSUME NEW l \in Load, Arrive(l) PROVE StartsEmpty'
  <2>1. l \in DOMAIN load /\ load' = Drop(load, l) /\ load[l] \in LoadType
    BY <1>1, <1>5 DEF Arrive, Ends
  <2>2. DOMAIN copy' \subseteq DOMAIN copy \cup {load[l].at}
    BY <1>5 DEF Arrive, Put
  <2>3. up' = IF load[l].job THEN up \cup {load[l].at} ELSE up
    BY <1>5 DEF Arrive, running
  <2>4. DOMAIN copy' \subseteq up' /\ up' \subseteq Process /\ up \subseteq up'
    BY <1>1, <2>1, <2>2, <2>3 DEF LoadType
  <2>5. QED  BY <1>1, <2>1, <2>4 DEF StartsEmpty, Drop
<1>6. ASSUME NEW l \in Load, LoadFails(l) PROVE StartsEmpty'
  BY <1>2, <1>6 DEF LoadFails, Ends, Drop, running
<1>7. ASSUME NEW p \in Process, EditCommit(p) \/ EditFails(p) \/ (\E day \in Day : EditRead(p, day))
      PROVE  StartsEmpty'
  BY <1>2, <1>7 DEF EditCommit, EditFails, EditRead, caching, running
<1>8. ASSUME NEW p \in Process, Expires(p) PROVE StartsEmpty'
  BY <1>1, <1>8 DEF Expires, Drop, running, StartsEmpty
<1>9. ASSUME NEW p \in Process, NEW l \in Load, GetCached(p, l) PROVE StartsEmpty'
  <2>1. /\ p \in up /\ load' = Put(load, l, Begun(p, generation[p], FALSE))
        /\ UNCHANGED <<copy, up>>
    BY <1>9 DEF GetCached, running
  <2>2. Begun(p, generation[p], FALSE).at = p  BY DEF Begun
  <2>3. QED  BY <1>1, <2>1, <2>2 DEF Put, StartsEmpty
<1>10. ASSUME NEW p, NEW l, NEW v, Invalidate(p, l, v), UNCHANGED running PROVE StartsEmpty'
  <2>1. /\ load' = Put(load, l, Begun(p, generation[p] + 1, TRUE))
        /\ copy' = Drop(copy, p) /\ up' = up
    BY <1>10 DEF Invalidate, JobLoads, Forget, running
  <2>2. Begun(p, generation[p] + 1, TRUE).job  BY DEF Begun
  <2>3. QED  BY <1>1, <2>1, <2>2 DEF Put, Drop, StartsEmpty
<1>11. ASSUME NEW p \in Process, NEW l \in Load, EditInvalidate(p, l) PROVE StartsEmpty'
  BY <1>10, <1>11 DEF EditInvalidate
<1>12. ASSUME NEW m \in mail, NEW l \in Load, Receive(m, l) PROVE StartsEmpty'
  BY <1>10, <1>12 DEF Receive
<1>13. ASSUME NEW m \in mail, ReceiveStarting(m) PROVE StartsEmpty'
  BY <1>1, <1>13 DEF ReceiveStarting, Forget, Drop, running, StartsEmpty
<1>14. ASSUME NEW m \in mail, LoseMail(m) PROVE StartsEmpty'
  BY <1>2, <1>14 DEF LoseMail, caching, running
<1>15. ASSUME NEW p \in Process, Dies(p) PROVE StartsEmpty'
  <2>1. /\ up' = up \ {p} /\ copy' = Drop(copy, p)
        /\ load' = [l \in {x \in DOMAIN load : load[x].at # p} |-> load[l]]
    BY <1>15 DEF Dies
  <2>2. QED  BY <1>1, <2>1 DEF Drop, StartsEmpty
<1>16. ASSUME NEW p \in Process, NEW l \in Load, Boots(p, l) PROVE StartsEmpty'
  <2>1. load' = Put(load, l, Begun(p, 0, TRUE)) /\ UNCHANGED <<copy, up>>
    BY <1>16 DEF Boots, running
  <2>2. Begun(p, 0, TRUE).job  BY DEF Begun
  <2>3. QED  BY <1>1, <2>1, <2>2 DEF Put, StartsEmpty
<1>17. QED
  BY <1>3, <1>4, <1>5, <1>6, <1>7, <1>8, <1>9, <1>11, <1>12, <1>13, <1>14, <1>15, <1>16
  DEF SettingsNext

LEMMA SettingsInvariant == SettingsSpec => [](SettingsInv /\ StartsEmpty)
<1>1. SettingsInv /\ StartsEmpty /\ [SettingsNext]_settingsVars => (SettingsInv /\ StartsEmpty)'
  <2> SUFFICES ASSUME SettingsInv, StartsEmpty, [SettingsNext]_settingsVars
               PROVE  SettingsInv' /\ StartsEmpty'
    OBVIOUS
  <2>1. ASSUME NEW m \in mail, LoseMail(m) PROVE SettingsInv'
    BY <2>1 DEF LoseMail, caching, SettingsInv, SettingsTyped, NothingAhead, NoStaleFill, LoadSound
  <2>2. ASSUME UNCHANGED settingsVars PROVE SettingsInv'
    <3>1. UNCHANGED <<doc, copy, generation, load, floor, editor, mail>>
      BY <2>2 DEF settingsVars, caching
    <3>2. SettingsTyped' /\ NothingAhead' /\ NoStaleFill'
      BY <3>1 DEF SettingsInv, SettingsTyped, NothingAhead, NoStaleFill
    <3>3. ASSUME NEW l \in DOMAIN load' PROVE LoadSound(l)'
      BY <3>1 DEF SettingsInv, LoadSound
    <3>4. QED  BY <3>2, <3>3 DEF SettingsInv
  <2>3. ASSUME NEW l \in Load, Arrive(l) \/ LoadFails(l) PROVE SettingsInv'
    <3>1. load[l].at \in Process
      BY <2>3 DEF Arrive, LoadFails, SettingsInv, SettingsTyped, LoadType
    <3>2. QED  BY <2>3, <3>1, CacheSteps
  <2>4. SettingsInv'
    BY <2>1, <2>2, <2>3, LoadSteps, CacheSteps, ToldSteps, ReceiveStartingStep, DiesStep, BootsStep
    DEF SettingsNext
  <2>5. QED  BY <2>4, StartsEmptyStep
<1>2. SettingsInit => StartsEmpty
  <2>1. DOMAIN <<>> = {}  OBVIOUS
  <2>2. QED  BY <2>1 DEF SettingsInit, StartsEmpty
<1>3. QED  BY <1>1, <1>2, SettingsStart, PTL DEF SettingsSpec

\* No process caches settings older than the last update it was told of, whatever
\* loads were under way when it was told (getCached, invalidateCache).
THEOREM NoStaleSettings == SettingsSpec => []NoStaleFill
<1>1. SettingsInv /\ StartsEmpty => NoStaleFill  BY DEF SettingsInv
<1>2. QED  BY <1>1, SettingsInvariant, PTL

(* The job that follows the settings *)

JobLoad(l, p) == l \in DOMAIN load /\ load[l].job /\ load[l].at = p

\* No later load of the job's handler is under way in the process.
Latest(l, p) ==
    /\ JobLoad(l, p)
    /\ \A m \in DOMAIN load : JobLoad(m, p) => load[m].gen <= load[l].gen

\* The process has yet to hear of an update, or missed one.
Behind(p) ==
    \/ p \in excused
    \/ \E q \in DOMAIN editor : editor[q].pc = "invalidate"
    \/ \E m \in mail : m.to = p

\* Whichever load of the handler arrives last, it brings the day that holds then.
Heard(p) == \A l \in DOMAIN load :
    Latest(l, p) /\ load[l].pc = "arrive" => load[l].doc.day = doc.day \/ Behind(p)

Scheduled(p) ==
    p \in up => schedule[p] = doc.day \/ Behind(p) \/ \E l \in DOMAIN load : JobLoad(l, p)

FirstSettings == doc.lacks => doc.day = DefaultDay /\ DOMAIN editor = {}

ScheduleInv ==
    /\ schedule \in [Process -> Day] /\ excused \subseteq Process /\ FirstSettings
    /\ \A p \in Process : Heard(p) /\ Scheduled(p)

LEMMA ScheduleStart == SettingsInit => ScheduleInv
<1> SUFFICES ASSUME SettingsInit PROVE ScheduleInv
  OBVIOUS
<1>1. doc.day = DefaultDay /\ DefaultDay \in Day /\ DOMAIN <<>> = {}
  BY SettingsAssumption DEF SettingsInit
<1>2. load = <<>> /\ editor = <<>> /\ schedule = [p \in Process |-> doc.day] /\ excused = {}
  BY DEF SettingsInit
<1>3. QED  BY <1>1, <1>2 DEF ScheduleInv, FirstSettings, Heard, Scheduled

\* A step that leaves the document alone, after which a process lags only if it did
\* before, and runs no new load of its handler.
LEMMA ScheduleRests ==
    ASSUME ScheduleInv, UNCHANGED <<doc, schedule, up>>, excused' \subseteq Process, FirstSettings',
           \A p \in Process : Behind(p) => Behind(p)',
           DOMAIN load \subseteq DOMAIN load',
           \A l \in DOMAIN load : load'[l] = load[l],
           \A l \in DOMAIN load' \ DOMAIN load : ~load'[l].job
    PROVE  ScheduleInv'
<1>1. ASSUME NEW p \in Process PROVE Heard(p)' /\ Scheduled(p)'
  <2>1. Heard(p) /\ Scheduled(p) /\ (Behind(p) => Behind(p)')  BY DEF ScheduleInv
  <2>2. \A l : JobLoad(l, p)' <=> JobLoad(l, p)  BY DEF JobLoad
  <2>3. Scheduled(p)'  BY <2>1, <2>2 DEF Scheduled, JobLoad
  <2>4. ASSUME NEW l \in DOMAIN load', Latest(l, p)', load'[l].pc = "arrive"
        PROVE  load'[l].doc.day = doc.day \/ Behind(p)'
    <3>1. Latest(l, p) /\ load'[l] = load[l]
      BY <2>2, <2>4 DEF Latest, JobLoad
    <3>2. QED  BY <2>1, <2>4, <3>1 DEF Heard, Latest, JobLoad
  <2>5. QED  BY <2>3, <2>4 DEF Heard
<1>2. QED  BY <1>1 DEF ScheduleInv

LEMMA CacheKeepsSchedule ==
    ASSUME SettingsInv, ScheduleInv, NEW p \in Process,
           \/ Expires(p) \/ (\E day \in Day : EditRead(p, day))
           \/ (\E l \in Load : GetCached(p, l)) \/ EditFails(p) \/ (\E m \in mail : LoseMail(m))
    PROVE  ScheduleInv'
<1>1. /\ load \in [DOMAIN load -> LoadType] /\ editor \in [DOMAIN editor -> EditType]
      /\ \A m \in mail : m.to \in Process
      /\ excused \subseteq Process /\ FirstSettings
  BY DEF SettingsInv, SettingsTyped, ScheduleInv
<1>2. CASE Expires(p)
  <2>1. UNCHANGED <<doc, schedule, up, excused, editor, mail, load>>  BY <1>2 DEF Expires, running
  <2>2. FirstSettings' /\ \A q \in Process : Behind(q) => Behind(q)'
    BY <1>1, <2>1 DEF FirstSettings, Behind
  <2>3. QED  BY <1>1, <2>1, <2>2, ScheduleRests
<1>3. ASSUME NEW day \in Day, EditRead(p, day) PROVE ScheduleInv'
  <2>1. /\ UNCHANGED <<doc, schedule, up, excused, mail, load>> /\ ~doc.lacks /\ p \notin DOMAIN editor
        /\ DOMAIN editor \subseteq DOMAIN editor'
        /\ \A q \in DOMAIN editor : editor'[q] = editor[q]
    BY <1>3 DEF EditRead, caching, running, Put
  <2>2. FirstSettings' /\ \A q \in Process : Behind(q) => Behind(q)'
    BY <1>1, <2>1 DEF FirstSettings, Behind
  <2>3. QED  BY <1>1, <2>1, <2>2, ScheduleRests
<1>4. ASSUME NEW l \in Load, GetCached(p, l) PROVE ScheduleInv'
  <2>1. /\ UNCHANGED <<doc, schedule, up, excused, editor, mail>> /\ l \notin DOMAIN load
        /\ load' = Put(load, l, Begun(p, generation[p], FALSE))
    BY <1>4 DEF GetCached, Calls, running
  <2>2. FirstSettings' /\ \A q \in Process : Behind(q) => Behind(q)'
    BY <1>1, <2>1 DEF FirstSettings, Behind
  <2>3. /\ DOMAIN load' = DOMAIN load \cup {l} /\ ~load'[l].job
        /\ \A m \in DOMAIN load : load'[m] = load[m]
    BY <2>1 DEF Put, Begun
  <2>4. QED  BY <1>1, <2>1, <2>2, <2>3, ScheduleRests
<1>5. ASSUME NEW m \in mail, LoseMail(m) PROVE ScheduleInv'
  <2>1. /\ UNCHANGED <<doc, schedule, up, editor, load>> /\ mail' = mail \ {m}
        /\ excused' = excused \cup {m.to}
    BY <1>5 DEF LoseMail, caching, running
  <2>2. FirstSettings' /\ \A q \in Process : Behind(q) => Behind(q)'
    BY <1>1, <2>1 DEF FirstSettings, Behind
  <2>3. QED  BY <1>1, <2>1, <2>2, ScheduleRests
<1>6. CASE EditFails(p)
  <2>1. /\ UNCHANGED <<doc, schedule, up, mail, load>> /\ editor' = Drop(editor, p)
        /\ excused' = Untold(p)
    BY <1>6 DEF EditFails, caching, running
  <2>2. FirstSettings' /\ excused' \subseteq Process  BY <1>1, <2>1 DEF FirstSettings, Drop, Untold
  <2>3. \A q \in DOMAIN editor \ {p} : q \in DOMAIN editor' /\ editor'[q] = editor[q]
    BY <2>1 DEF Drop
  <2>4. \A q \in Process : Behind(q) => Behind(q)'  BY <1>6, <2>1, <2>3 DEF Behind, Untold
  <2>5. QED  BY <1>1, <2>1, <2>2, <2>4, ScheduleRests
<1>7. QED  BY <1>2, <1>3, <1>4, <1>5, <1>6

LEMMA LoadsKeepSchedule ==
    ASSUME SettingsInv, ScheduleInv, NEW l, ReadDoc(l) \/ FillDoc(l)
    PROVE  ScheduleInv'
<1>1. /\ load \in [DOMAIN load -> LoadType] /\ l \in DOMAIN load /\ FirstSettings
      /\ schedule \in [Process -> Day] /\ excused \subseteq Process /\ doc \in Document
  BY DEF ReadDoc, FillDoc, SettingsInv, SettingsTyped, ScheduleInv
<1>2. UNCHANGED <<schedule, up, editor, mail>>  BY DEF ReadDoc, FillDoc, running
<1>3. /\ DOMAIN load' = DOMAIN load /\ load'[l].doc = doc'
      /\ \A m \in DOMAIN load : load'[m].job = load[m].job /\ load'[m].at = load[m].at
                                /\ load'[m].gen = load[m].gen
      /\ \A m \in DOMAIN load \ {l} : load'[m] = load[m]
  BY LoadsKeepTheirs
<1>4. /\ excused \subseteq excused' /\ excused' \subseteq Process
      /\ excused' = Process \/ doc'.day = doc.day
  <2>1. CASE ReadDoc(l)  BY <1>1, <2>1 DEF ReadDoc
  <2>2. CASE FillDoc(l)
    <3>1. doc'.day = DefaultDay /\ excused' = (IF doc.lacks THEN excused ELSE Process)
      BY <1>1, <2>2 DEF FillDoc, Filled, Document
    <3>2. QED  BY <1>1, <3>1 DEF FirstSettings
  <2>3. QED  BY <2>1, <2>2
<1>5. FirstSettings'
  <2>1. CASE ReadDoc(l)  BY <1>1, <2>1 DEF ReadDoc, FirstSettings
  <2>2. CASE FillDoc(l)
    <3>1. ~doc'.lacks  BY <1>1, <2>2 DEF FillDoc, Filled, Document
    <3>2. QED  BY <3>1 DEF FirstSettings
  <2>3. QED  BY <2>1, <2>2
<1>6. ASSUME NEW p \in Process PROVE Heard(p)' /\ Scheduled(p)'
  <2>1. Heard(p) /\ Scheduled(p) /\ (Behind(p) => Behind(p)')
    BY <1>2, <1>4 DEF ScheduleInv, Behind
  <2>2. Behind(p)' \/ doc'.day = doc.day  BY <1>4 DEF Behind
  <2>3. \A m : (JobLoad(m, p)' <=> JobLoad(m, p))  BY <1>3 DEF JobLoad
  <2>4. ASSUME NEW m, Latest(m, p)' PROVE Latest(m, p)
    <3>1. JobLoad(m, p) /\ m \in DOMAIN load  BY <2>3, <2>4 DEF Latest, JobLoad
    <3>2. \A n \in DOMAIN load : JobLoad(n, p) => load'[n].gen <= load'[m].gen
      BY <1>3, <2>3, <2>4 DEF Latest
    <3>3. QED  BY <1>3, <3>1, <3>2 DEF Latest
  <2>5. Scheduled(p)'  BY <1>2, <1>3, <2>1, <2>2, <2>3 DEF Scheduled
  <2>6. Heard(p)'  BY <1>3, <2>1, <2>2, <2>4 DEF Heard
  <2>7. QED  BY <2>5, <2>6
<1>7. QED  BY <1>1, <1>2, <1>4, <1>5, <1>6 DEF ScheduleInv

\* A load is over.  If it was for the job of its process, either the process is excused,
\* or no later load of its handler decides and it runs on what the load brought, or the
\* load brought nothing and a later one is under way.
LEMMA EndsKeepsSchedule ==
    ASSUME SettingsInv, ScheduleInv, NEW l \in DOMAIN load, NEW p \in Process, load[l].at = p,
           UNCHANGED <<doc, editor, mail>>, load' = Drop(load, l), excused' \subseteq Process,
           schedule' \in [Process -> Day],
           \A q \in Process \ {p} : schedule'[q] = schedule[q] /\ (q \in up' <=> q \in up)
                                    /\ (q \in excused' <=> q \in excused),
           \/ p \in excused'
           \/ ~load[l].job /\ schedule'[p] = schedule[p] /\ (p \in up' <=> p \in up)
              /\ (p \in excused' <=> p \in excused)
           \/ load[l].job /\ Overtaken(l) /\ (p \in excused' <=> p \in excused)
           \/ load[l].job /\ Rivals(l) = {} /\ schedule'[p] = doc.day
           \/ /\ load[l].job /\ ~Overtakes(l) /\ load[l].pc = "arrive"
              /\ schedule'[p] = load[l].doc.day /\ (p \in excused' <=> p \in excused)
    PROVE  ScheduleInv'
<1>1. /\ load \in [DOMAIN load -> LoadType] /\ FirstSettings
      /\ load[l] \in LoadType /\ load[l].doc.day \in Day
  BY DEF SettingsInv, SettingsTyped, ScheduleInv, LoadType, Document
<1>2. /\ DOMAIN load' = DOMAIN load \ {l} /\ \A m \in DOMAIN load' : load'[m] = load[m]
      /\ FirstSettings'
  BY <1>1 DEF Drop, FirstSettings
<1>3. \A q, m : JobLoad(m, q)' <=> JobLoad(m, q) /\ m # l  BY <1>2 DEF JobLoad
<1>4. ASSUME NEW q \in Process, ~JobLoad(l, q), schedule'[q] = schedule[q],
             q \in up' <=> q \in up, q \in excused' <=> q \in excused
      PROVE  Heard(q)' /\ Scheduled(q)'
  <2>1. Heard(q) /\ Scheduled(q) /\ (Behind(q) => Behind(q)')
    BY <1>4 DEF ScheduleInv, Behind
  <2>2. ASSUME NEW m, Latest(m, q)' PROVE Latest(m, q)
    <3>1. JobLoad(m, q) /\ m \in DOMAIN load'  BY <1>3, <2>2 DEF Latest, JobLoad
    <3>2. \A n \in DOMAIN load : JobLoad(n, q) => n # l /\ load'[n].gen <= load'[m].gen
      BY <1>2, <1>3, <1>4, <2>2 DEF Latest
    <3>3. \A n \in DOMAIN load : JobLoad(n, q) => load[n].gen <= load[m].gen
      BY <1>2, <3>1, <3>2
    <3>4. QED  BY <3>1, <3>3 DEF Latest
  <2>3. Scheduled(q)'
    <3>1. ASSUME NEW m \in DOMAIN load, JobLoad(m, q) PROVE m \in DOMAIN load' /\ JobLoad(m, q)'
      BY <1>2, <1>3, <1>4, <3>1
    <3>2. QED  BY <1>4, <2>1, <3>1 DEF Scheduled
  <2>4. Heard(q)'  BY <1>2, <2>1, <2>2 DEF Heard
  <2>5. QED  BY <2>3, <2>4
<1>5. ASSUME NEW q \in Process \ {p} PROVE Heard(q)' /\ Scheduled(q)'
  BY <1>4, <1>5 DEF JobLoad
<1>6. Heard(p)' /\ Scheduled(p)'
  <2>1. Heard(p) /\ Scheduled(p)  BY DEF ScheduleInv
  <2>2. CASE p \in excused'  BY <2>2 DEF Behind, Heard, Scheduled
  <2>3. CASE ~load[l].job /\ schedule'[p] = schedule[p] /\ (p \in up' <=> p \in up)
             /\ (p \in excused' <=> p \in excused)
    BY <1>4, <2>3 DEF JobLoad
  <2>4. CASE load[l].job /\ Rivals(l) = {} /\ schedule'[p] = doc.day
    <3>1. \A m : ~JobLoad(m, p)'  BY <1>3, <2>4 DEF JobLoad, Rivals
    <3>2. QED  BY <2>4, <3>1 DEF Heard, Latest, Scheduled
  <2>5. CASE load[l].job /\ Overtaken(l) /\ (p \in excused' <=> p \in excused)
    <3>1. PICK r \in DOMAIN load \ {l} : JobLoad(r, p) /\ load[r].gen > load[l].gen
      BY <2>5 DEF Overtaken, Rivals, JobLoad
    <3>2. Scheduled(p)'  BY <1>2, <1>3, <3>1 DEF Scheduled
    <3>3. Behind(p) => Behind(p)'  BY <2>5 DEF Behind
    <3>4. ASSUME NEW m, Latest(m, p)' PROVE Latest(m, p)
      <4>1. /\ JobLoad(m, p) /\ m # l
            /\ \A n \in DOMAIN load : JobLoad(n, p) /\ n # l => load[n].gen <= load[m].gen
        BY <1>2, <1>3, <3>4 DEF Latest, JobLoad
      <4>2. /\ load[l].gen \in Nat /\ load[m].gen \in Nat /\ load[r].gen \in Nat
            /\ load[r].gen <= load[m].gen
        BY <1>1, <3>1, <4>1 DEF JobLoad, LoadType
      <4>3. load[l].gen <= load[m].gen  BY <3>1, <4>2
      <4>4. QED  BY <4>1, <4>3 DEF Latest
    <3>5. Heard(p)'  BY <1>2, <2>1, <3>3, <3>4 DEF Heard
    <3>6. QED  BY <3>2, <3>5
  <2>6. CASE /\ load[l].job /\ ~Overtakes(l) /\ load[l].pc = "arrive"
             /\ schedule'[p] = load[l].doc.day /\ (p \in excused' <=> p \in excused)
    <3>1. JobLoad(l, p) /\ (Behind(p) => Behind(p)')  BY <2>6 DEF JobLoad, Behind
    <3>2. \A m \in DOMAIN load : JobLoad(m, p) => load[m].gen \in Nat /\ load[l].gen \in Nat
                                                  /\ load[l].gen <= load[m].gen
      BY <1>1, <2>6 DEF LoadType, Overtakes, Rivals, JobLoad
    <3>3. Scheduled(p)'
      <4>1. CASE \E m \in DOMAIN load : JobLoad(m, p) /\ m # l
        BY <1>2, <1>3, <4>1 DEF Scheduled
      <4>2. CASE \A m \in DOMAIN load : JobLoad(m, p) => m = l
        <5>1. Latest(l, p)  BY <3>1, <3>2, <4>2 DEF Latest
        <5>2. QED  BY <2>1, <2>6, <3>1, <5>1 DEF Heard, Scheduled
      <4>3. QED  BY <4>1, <4>2
    <3>4. ASSUME NEW m, Latest(m, p)' PROVE Latest(m, p)
      <4>1. /\ JobLoad(m, p) /\ m # l
            /\ \A n \in DOMAIN load : JobLoad(n, p) /\ n # l => load[n].gen <= load[m].gen
        BY <1>2, <1>3, <3>4 DEF Latest, JobLoad
      <4>2. load[l].gen <= load[m].gen  BY <3>2, <4>1 DEF JobLoad
      <4>3. QED  BY <4>1, <4>2 DEF Latest
    <3>5. Heard(p)'  BY <1>2, <2>1, <3>1, <3>4 DEF Heard
    <3>6. QED  BY <3>3, <3>5
  <2>7. QED  BY <2>2, <2>3, <2>4, <2>5, <2>6
<1>7. QED  BY <1>2, <1>5, <1>6 DEF ScheduleInv

LEMMA ArriveKeepsSchedule ==
    ASSUME SettingsInv, ScheduleInv, NEW l, Arrive(l) PROVE ScheduleInv'
<1>1. /\ load \in [DOMAIN load -> LoadType] /\ l \in DOMAIN load /\ load[l].pc = "arrive"
      /\ schedule \in [Process -> Day] /\ excused \subseteq Process
      /\ load[l].at \in Process /\ load[l].doc.day \in Day
  BY DEF Arrive, SettingsInv, SettingsTyped, ScheduleInv, LoadType, Document
<1>2. PICK p \in Process : p = load[l].at  BY <1>1
<1>3. UNCHANGED <<doc, editor, mail>> /\ load' = Drop(load, l)  BY DEF Arrive, Ends
<1>4. CASE ~load[l].job
  <2>1. UNCHANGED <<schedule, up, excused>>  BY <1>4 DEF Arrive, running
  <2>2. QED  BY <1>1, <1>2, <1>3, <1>4, <2>1, EndsKeepsSchedule
<1>5. CASE load[l].job
  <2>1. /\ schedule' = [schedule EXCEPT ![p] = load[l].doc.day] /\ up' = up \cup {p}
        /\ excused' = IF Overtakes(l) THEN excused \cup {p}
                      ELSE IF Rivals(l) = {} /\ load[l].doc.day = doc.day
                           THEN excused \ {p} ELSE excused
    BY <1>2, <1>5 DEF Arrive
  <2>2. /\ schedule' \in [Process -> Day] /\ schedule'[p] = load[l].doc.day
        /\ excused' \subseteq Process
        /\ \A q \in Process \ {p} : schedule'[q] = schedule[q] /\ (q \in up' <=> q \in up)
                                    /\ (q \in excused' <=> q \in excused)
    BY <1>1, <2>1
  <2>3. \/ p \in excused'
        \/ load[l].job /\ Rivals(l) = {} /\ schedule'[p] = doc.day
        \/ /\ load[l].job /\ ~Overtakes(l) /\ load[l].pc = "arrive"
           /\ schedule'[p] = load[l].doc.day /\ (p \in excused' <=> p \in excused)
    BY <1>1, <1>5, <2>1, <2>2
  <2>4. QED  BY <1>1, <1>2, <1>3, <2>2, <2>3, EndsKeepsSchedule
<1>6. QED  BY <1>4, <1>5

LEMMA FailedLoadKeepsSchedule ==
    ASSUME SettingsInv, ScheduleInv, NEW l, LoadFails(l) PROVE ScheduleInv'
<1>1. /\ load \in [DOMAIN load -> LoadType] /\ l \in DOMAIN load
      /\ schedule \in [Process -> Day] /\ excused \subseteq Process /\ load[l].at \in Process
  BY DEF LoadFails, SettingsInv, SettingsTyped, ScheduleInv, LoadType
<1>2. PICK p \in Process : p = load[l].at  BY <1>1
<1>3. /\ UNCHANGED <<doc, editor, mail, schedule, up>> /\ load' = Drop(load, l)
      /\ excused' = IF load[l].job /\ ~Overtaken(l) THEN excused \cup {p} ELSE excused
  BY <1>2 DEF LoadFails, Ends, running
<1>4. \/ p \in excused'
      \/ load[l].job /\ Overtaken(l) /\ (p \in excused' <=> p \in excused)
      \/ ~load[l].job /\ (p \in excused' <=> p \in excused)
  BY <1>3
<1>5. \A q \in Process \ {p} : q \in excused' <=> q \in excused  BY <1>3
<1>6. QED  BY <1>1, <1>2, <1>3, <1>4, <1>5, EndsKeepsSchedule

LEMMA CommitKeepsSchedule ==
    ASSUME SettingsInv, ScheduleInv, NEW p \in Process, EditCommit(p) PROVE ScheduleInv'
<1>1. /\ editor \in [DOMAIN editor -> EditType] /\ p \in DOMAIN editor /\ FirstSettings
      /\ editor[p] \in EditType /\ editor[p].pc = "commit" /\ doc \in Document /\ ~doc.lacks
      /\ schedule \in [Process -> Day] /\ excused \subseteq Process
  BY DEF EditCommit, SettingsInv, SettingsTyped, ScheduleInv, FirstSettings
<1>2. UNCHANGED <<load, mail, schedule, up, excused>>  BY DEF EditCommit, caching, running
<1>3. CASE doc.version = editor[p].version
  <2>1. /\ doc' = [doc EXCEPT !.version = @ + 1, !.day = editor[p].day]
        /\ editor' = [editor EXCEPT ![p].pc = "invalidate", ![p].version = @ + 1]
    BY <1>3 DEF EditCommit
  <2>2. ~doc'.lacks  BY <1>1, <2>1 DEF Document
  <2>3. p \in DOMAIN editor' /\ editor'[p].pc = "invalidate"
    <3>1. PICK e : e = [editor[p] EXCEPT !.pc = "invalidate", !.version = @ + 1]  OBVIOUS
    <3>2. e.pc = "invalidate"  BY <1>1, <3>1 DEF EditType
    <3>3. editor' = [editor EXCEPT ![p] = e]  BY <2>1, <3>1
    <3>4. QED  BY <1>1, <3>2, <3>3
  <2>4. \A q \in Process : Behind(q)'  BY <2>3 DEF Behind
  <2>5. QED  BY <1>1, <1>2, <2>2, <2>4 DEF ScheduleInv, FirstSettings, Heard, Scheduled
<1>4. CASE doc.version # editor[p].version
  <2>1. editor' = Drop(editor, p) /\ UNCHANGED doc  BY <1>4 DEF EditCommit
  <2>2. \A q \in DOMAIN editor : editor[q].pc = "invalidate" => q \in DOMAIN editor' /\ editor'[q] = editor[q]
    BY <1>1, <2>1 DEF Drop
  <2>3. FirstSettings' /\ \A q \in Process : Behind(q) => Behind(q)'
    BY <1>1, <1>2, <2>1, <2>2 DEF FirstSettings, Behind
  <2>4. QED  BY <1>1, <1>2, <2>1, <2>3, ScheduleRests
<1>5. QED  BY <1>3, <1>4

\* What an invalidation does: the process runs a load of its handler that is later than
\* all of them and has read nothing yet.
LEMMA InvalidateKeepsSchedule ==
    ASSUME SettingsInv, ScheduleInv, NEW p \in Process, NEW l, NEW v, Invalidate(p, l, v),
           UNCHANGED <<doc, schedule, up, excused>>, FirstSettings',
           \A q \in Process \ {p} : Behind(q) => Behind(q)'
    PROVE  ScheduleInv'
<1>1. /\ load \in [DOMAIN load -> LoadType] /\ generation[p] \in Nat
      /\ l \notin DOMAIN load /\ load' = Put(load, l, Begun(p, generation[p] + 1, TRUE))
      /\ schedule \in [Process -> Day] /\ excused \subseteq Process
  BY DEF SettingsInv, SettingsTyped, ScheduleInv, Invalidate, JobLoads, Calls
<1>2. /\ DOMAIN load' = DOMAIN load \cup {l} /\ \A m \in DOMAIN load : load'[m] = load[m]
      /\ load'[l].at = p /\ load'[l].job /\ load'[l].pc = "read"
      /\ load'[l].gen = generation[p] + 1
  BY <1>1 DEF Put, Begun
<1>3. \A m \in DOMAIN load : JobLoad(m, p) => load[m].gen \in Nat /\ load[m].gen <= generation[p]
  BY <1>1 DEF SettingsInv, LoadSound, JobLoad, LoadType
<1>4. ASSUME NEW q \in Process PROVE Heard(q)' /\ Scheduled(q)'
  <2>1. Heard(q) /\ Scheduled(q)  BY DEF ScheduleInv
  <2>2. CASE q = p
    <3>1. JobLoad(l, q)'  BY <1>2, <2>2 DEF JobLoad
    <3>2. Scheduled(q)'  BY <1>2, <3>1 DEF Scheduled
    <3>3. ASSUME NEW m \in DOMAIN load', Latest(m, q)', m # l PROVE FALSE
      <4>1. m \in DOMAIN load /\ JobLoad(m, p) /\ load'[m].gen = load[m].gen
        BY <1>2, <2>2, <3>3 DEF Latest, JobLoad
      <4>2. load'[l].gen <= load'[m].gen  BY <1>2, <3>1, <3>3 DEF Latest
      <4>3. load[m].gen \in Nat /\ load[m].gen <= generation[p]  BY <1>3, <4>1
      <4>4. generation[p] + 1 <= load[m].gen  BY <1>2, <4>1, <4>2
      <4>5. QED  BY <1>1, <4>3, <4>4
    <3>4. Heard(q)'  BY <1>2, <3>3 DEF Heard
    <3>5. QED  BY <3>2, <3>4
  <2>3. CASE q # p
    <3>1. \A m : JobLoad(m, q)' <=> JobLoad(m, q)  BY <1>1, <1>2, <2>3 DEF JobLoad
    <3>2. ASSUME NEW m, Latest(m, q)' PROVE Latest(m, q)
      <4>1. JobLoad(m, q) /\ m \in DOMAIN load  BY <3>1, <3>2 DEF Latest, JobLoad
      <4>2. \A n \in DOMAIN load : JobLoad(n, q) => load'[n].gen <= load'[m].gen
        BY <1>2, <3>1, <3>2 DEF Latest
      <4>3. QED  BY <1>2, <4>1, <4>2 DEF Latest
    <3>3. Behind(q) => Behind(q)'  BY <2>3
    <3>4. Scheduled(q)'  BY <1>2, <2>1, <3>1, <3>3 DEF Scheduled
    <3>5. ASSUME NEW m \in DOMAIN load', Latest(m, q)', load'[m].pc = "arrive"
          PROVE  load'[m].doc.day = doc.day \/ Behind(q)'
      <4>1. Latest(m, q) /\ load'[m] = load[m] /\ m \in DOMAIN load
        BY <1>2, <3>2, <3>5 DEF Latest, JobLoad
      <4>2. QED  BY <2>1, <3>3, <3>5, <4>1 DEF Heard
    <3>6. QED  BY <3>4, <3>5 DEF Heard
  <2>4. QED  BY <2>2, <2>3
<1>5. QED  BY <1>1, <1>4 DEF ScheduleInv

LEMMA ToldKeepsSchedule ==
    ASSUME SettingsInv, ScheduleInv, NEW l \in Load,
           (\E p \in Process : EditInvalidate(p, l)) \/ (\E m \in mail : Receive(m, l))
    PROVE  ScheduleInv'
<1>1. /\ \A m \in mail : m.to \in Process
      /\ editor \in [DOMAIN editor -> EditType] /\ FirstSettings
  BY DEF SettingsInv, SettingsTyped, ScheduleInv
<1>2. ASSUME NEW p \in Process, EditInvalidate(p, l) PROVE ScheduleInv'
  <2>1. PICK v : v = editor[p].version  OBVIOUS
  <2>2. /\ p \in DOMAIN editor /\ Invalidate(p, l, v) /\ UNCHANGED <<doc, schedule, up, excused>>
        /\ editor' = Drop(editor, p)
        /\ mail' = mail \cup {[to |-> q, version |-> v] : q \in Process \ {p}}
    BY <1>2, <2>1 DEF EditInvalidate, running
  <2>3. FirstSettings'  BY <1>1, <2>2 DEF FirstSettings, Drop
  <2>4. ASSUME NEW q \in Process \ {p} PROVE Behind(q)'
    <3>1. [to |-> q, version |-> v] \in mail'  BY <2>2
    <3>2. [to |-> q, version |-> v].to = q  OBVIOUS
    <3>3. QED  BY <3>1, <3>2 DEF Behind
  <2>5. QED  BY <2>2, <2>3, <2>4, InvalidateKeepsSchedule
<1>3. ASSUME NEW m \in mail, Receive(m, l) PROVE ScheduleInv'
  <2>1. PICK p \in Process : p = m.to  BY <1>1
  <2>2. PICK v : v = m.version  OBVIOUS
  <2>3. /\ Invalidate(p, l, v) /\ UNCHANGED <<doc, schedule, up, excused, editor>>
        /\ mail' = mail \ {m}
    BY <1>3, <2>1, <2>2 DEF Receive, running
  <2>4. FirstSettings' /\ \A q \in Process \ {p} : Behind(q) => Behind(q)'
    BY <1>1, <2>1, <2>3 DEF FirstSettings, Behind
  <2>5. QED  BY <2>3, <2>4, InvalidateKeepsSchedule
<1>4. QED  BY <1>2, <1>3

\* A process that starts has read the document before the update it does not hear of, and
\* is excused, or reads it after.
LEMMA StartingKeepsSchedule ==
    ASSUME SettingsInv, ScheduleInv, NEW m \in mail, ReceiveStarting(m) PROVE ScheduleInv'
<1>1. m.to \in Process /\ FirstSettings /\ schedule \in [Process -> Day] /\ excused \subseteq Process
  BY DEF SettingsInv, SettingsTyped, ScheduleInv
<1>2. PICK p \in Process : p = m.to  BY <1>1
<1>3. /\ UNCHANGED <<doc, load, editor, schedule, up>> /\ mail' = mail \ {m} /\ p \notin up
      /\ excused' = IF \E l \in DOMAIN load :
                          load[l].at = p /\ load[l].pc = "arrive" /\ load[l].doc.day # doc.day
                    THEN excused \cup {p} ELSE excused
  BY <1>2 DEF ReceiveStarting, running
<1>4. ASSUME NEW q \in Process PROVE Heard(q)' /\ Scheduled(q)'
  <2>1. Heard(q) /\ Scheduled(q)  BY DEF ScheduleInv
  <2>2. \A l : (JobLoad(l, q)' <=> JobLoad(l, q)) /\ (Latest(l, q)' <=> Latest(l, q))
    BY <1>3 DEF JobLoad, Latest
  <2>3. CASE q = p
    <3>1. Scheduled(q)'  BY <1>3, <2>3 DEF Scheduled
    <3>2. \A l \in DOMAIN load : Latest(l, q) => load[l].at = p  BY <2>3 DEF Latest, JobLoad
    <3>3. Heard(q)'  BY <1>3, <2>2, <2>3, <3>2 DEF Heard, Behind
    <3>4. QED  BY <3>1, <3>3
  <2>4. CASE q # p
    <3>1. Behind(q) => Behind(q)'  BY <1>2, <1>3, <2>4 DEF Behind
    <3>2. QED  BY <1>3, <2>1, <2>2, <3>1 DEF Heard, Scheduled
  <2>5. QED  BY <2>3, <2>4
<1>5. QED  BY <1>1, <1>3, <1>4 DEF ScheduleInv, FirstSettings

LEMMA DeathKeepsSchedule ==
    ASSUME SettingsInv, ScheduleInv, NEW p \in Process, Dies(p) PROVE ScheduleInv'
<1>1. /\ load \in [DOMAIN load -> LoadType] /\ editor \in [DOMAIN editor -> EditType]
      /\ schedule \in [Process -> Day] /\ excused \subseteq Process /\ FirstSettings
  BY DEF SettingsInv, SettingsTyped, ScheduleInv
<1>2. /\ doc' = doc /\ editor' = Drop(editor, p) /\ schedule' = schedule /\ up' = up \ {p}
      /\ load' = [l \in {x \in DOMAIN load : load[x].at # p} |-> load[l]]
      /\ mail' = {m \in mail : m.to # p}
      /\ excused' = (IF p \in DOMAIN editor /\ editor[p].pc = "invalidate"
                     THEN Process ELSE excused) \ {p}
  BY DEF Dies, Untold
<1>3. /\ DOMAIN load' = {x \in DOMAIN load : load[x].at # p}
      /\ \A m \in DOMAIN load' : load'[m] = load[m]
      /\ FirstSettings' /\ excused' \subseteq Process
  BY <1>1, <1>2 DEF FirstSettings, Drop
<1>4. ASSUME NEW q \in Process PROVE Heard(q)' /\ Scheduled(q)'
  <2>1. Heard(q) /\ Scheduled(q)  BY DEF ScheduleInv
  <2>2. CASE q = p
    <3>1. \A m \in DOMAIN load' : ~JobLoad(m, q)'  BY <1>3, <2>2 DEF JobLoad
    <3>2. QED  BY <1>2, <2>2, <3>1 DEF Heard, Scheduled, Latest
  <2>3. CASE q # p
    <3>1. Behind(q) => Behind(q)'
      <4>1. \A x \in DOMAIN editor \ {p} : x \in DOMAIN editor' /\ editor'[x] = editor[x]
        BY <1>2 DEF Drop
      <4>2. QED  BY <1>2, <2>3, <4>1 DEF Behind
    <3>2. \A m : JobLoad(m, q)' <=> JobLoad(m, q)  BY <1>3, <2>3 DEF JobLoad
    <3>3. \A m : JobLoad(m, q) => m \in DOMAIN load'  BY <1>3, <2>3 DEF JobLoad
    <3>4. Scheduled(q)'  BY <1>2, <2>1, <2>3, <3>1, <3>2, <3>3 DEF Scheduled
    <3>5. ASSUME NEW m \in DOMAIN load', Latest(m, q)', load'[m].pc = "arrive"
          PROVE  load'[m].doc.day = doc.day \/ Behind(q)'
      <4>1. JobLoad(m, q) /\ load'[m] = load[m] /\ m \in DOMAIN load
        BY <1>3, <3>2, <3>5 DEF Latest, JobLoad
      <4>2. \A n \in DOMAIN load : JobLoad(n, q) => load[n].gen <= load[m].gen
        BY <1>3, <3>2, <3>3, <3>5 DEF Latest
      <4>3. QED  BY <2>1, <3>1, <3>5, <4>1, <4>2 DEF Heard, Latest
    <3>6. QED  BY <1>2, <3>4, <3>5 DEF Heard
  <2>4. QED  BY <2>2, <2>3
<1>5. QED  BY <1>1, <1>2, <1>3, <1>4 DEF ScheduleInv

LEMMA BootKeepsSchedule ==
    ASSUME SettingsInv, ScheduleInv, NEW p \in Process, NEW l, Boots(p, l) PROVE ScheduleInv'
<1>1. FirstSettings /\ schedule \in [Process -> Day] /\ excused \subseteq Process
  BY DEF ScheduleInv
<1>2. /\ UNCHANGED <<doc, editor, mail, schedule, up, excused>> /\ p \notin up
      /\ l \notin DOMAIN load /\ \A m \in DOMAIN load : load[m].at # p
      /\ load' = Put(load, l, Begun(p, 0, TRUE))
  BY DEF Boots, Calls, running
<1>3. Begun(p, 0, TRUE).at = p /\ Begun(p, 0, TRUE).pc = "read"  BY DEF Begun
<1>4. /\ DOMAIN load' = DOMAIN load \cup {l} /\ load'[l].at = p /\ load'[l].pc = "read"
      /\ \A m \in DOMAIN load : load'[m] = load[m]
  BY <1>2, <1>3 DEF Put
<1>5. ASSUME NEW q \in Process PROVE Heard(q)' /\ Scheduled(q)'
  <2>1. Heard(q) /\ Scheduled(q) /\ (Behind(q)' <=> Behind(q))
    BY <1>2 DEF ScheduleInv, Behind
  <2>2. CASE q = p
    <3>1. \A m \in DOMAIN load' : JobLoad(m, q)' => m = l  BY <1>2, <1>4, <2>2 DEF JobLoad
    <3>2. QED  BY <1>2, <1>4, <2>2, <3>1 DEF Heard, Latest, Scheduled
  <2>3. CASE q # p
    <3>1. \A m : JobLoad(m, q)' <=> JobLoad(m, q)  BY <1>2, <1>4, <2>3 DEF JobLoad
    <3>2. \A m : Latest(m, q)' <=> Latest(m, q)  BY <1>4, <3>1 DEF Latest, JobLoad
    <3>3. Scheduled(q)'  BY <1>2, <1>4, <2>1, <3>1 DEF Scheduled, JobLoad
    <3>4. ASSUME NEW m \in DOMAIN load', Latest(m, q)', load'[m].pc = "arrive"
          PROVE  load'[m].doc.day = doc'.day \/ Behind(q)'
      <4>1. Latest(m, q) /\ m \in DOMAIN load /\ load'[m] = load[m]
        BY <1>4, <3>2, <3>4 DEF Latest, JobLoad
      <4>2. QED  BY <1>2, <2>1, <3>4, <4>1 DEF Heard
    <3>5. QED  BY <3>3, <3>4 DEF Heard
  <2>4. QED  BY <2>2, <2>3
<1>6. QED  BY <1>1, <1>2, <1>5 DEF ScheduleInv, FirstSettings

\* The quota job of a process runs on the day the settings say, however loads, updates,
\* invalidations, failures and starts interleave, unless one of the reasons that
\* ScheduleFollows names put it behind and it has not loaded the day that holds since
\* (settingsInvalidatedHandler, scheduleQuotaReset, initCronJobs).
THEOREM JobsFollowSettings == SettingsSpec => []ScheduleFollows
<1>1. SettingsInv /\ ScheduleInv /\ [SettingsNext]_settingsVars => ScheduleInv'
  <2> SUFFICES ASSUME SettingsInv, ScheduleInv, [SettingsNext]_settingsVars PROVE ScheduleInv'
    OBVIOUS
  <2>1. CASE UNCHANGED settingsVars
    <3>1. /\ ScheduleInv /\ UNCHANGED <<doc, schedule, up, excused, editor, mail, load>>
      BY <2>1 DEF settingsVars, caching, running
    <3>2. FirstSettings' /\ \A p \in Process : Behind(p) => Behind(p)'
      BY <3>1 DEF ScheduleInv, FirstSettings, Behind
    <3>3. QED  BY <3>1, <3>2, ScheduleRests DEF ScheduleInv
  <2>2. ASSUME NEW m \in mail, LoseMail(m) PROVE ScheduleInv'
    <3>1. m.to \in Process  BY DEF SettingsInv, SettingsTyped
    <3>2. QED  BY <2>2, <3>1, CacheKeepsSchedule
  <2>3. QED
    BY <2>1, <2>2, LoadsKeepSchedule, ArriveKeepsSchedule, FailedLoadKeepsSchedule,
       CacheKeepsSchedule, CommitKeepsSchedule, ToldKeepsSchedule, StartingKeepsSchedule,
       DeathKeepsSchedule, BootKeepsSchedule
    DEF SettingsNext
<1>2. SettingsInv /\ StartsEmpty /\ ScheduleInv => ScheduleFollows
  BY DEF ScheduleInv, StartsEmpty, Scheduled, Behind, JobLoad, ScheduleFollows
<1>3. QED  BY <1>1, <1>2, ScheduleStart, SettingsInvariant, PTL DEF SettingsSpec

-----------------------------------------------------------------------------
(* Photos and the documents that name them *)

InFlight(e) == edit[e].pc = "save" \/ (edit[e].pc = "discard new" /\ edit[e].new \notin mistaken)

UploadType == [pc : {"idle", "save", "discard new", "discard old", "delete"},
             kind : {"publish", "edit", "offer"}, saw : Nat, new : Nat]
OfferType == [status : {"none", "pending", "accepted", "undone", "ended"}, photo : Nat]
ListingType == [linked : BOOLEAN, photo : Nat,
                status : {"awaited", "open", "booked", "delivered", "deleted", "closed"}]

ImagesTyped ==
    /\ uploads \in Nat /\ listing \in ListingType
    /\ offer \in [Offer -> OfferType] /\ edit \in [Editor -> UploadType]
    /\ cleaning \subseteq Offer

\* Photos are numbered in the order of their uploads.
Numbered ==
    /\ store \subseteq 1 .. uploads /\ listing.photo <= uploads
    /\ \A p \in doomed : p \in 1 .. uploads
    /\ \A o \in Offer : offer[o].photo <= uploads
    /\ \A e \in Editor : edit[e].saw <= uploads /\ edit[e].new <= uploads

\* The photo of a request whose save is open, or is known to have failed, is named by
\* nothing else.
Fresh(e) ==
    InFlight(e) =>
        /\ edit[e].new # 0 /\ edit[e].new # listing.photo /\ edit[e].new \notin doomed
        /\ \A o \in Offer : offer[o].photo # edit[e].new
        /\ \A f \in Editor : edit[f].saw # edit[e].new
        /\ \A f \in Editor \ {e} : edit[f].pc \in {"save", "discard new"} => edit[f].new # edit[e].new

\* What a request that has uploaded may rely on when it goes on.
Uploaded(e) ==
    /\ edit[e].pc = "save" =>
          /\ edit[e].new \in store
          /\ edit[e].kind = "edit" => listing.status # "awaited"
          /\ edit[e].kind = "offer" => listing.linked
    /\ edit[e].pc = "discard old" =>
          /\ listing.status # "awaited"
          /\ listing.status # "deleted" => edit[e].saw # listing.photo
    /\ edit[e].pc = "delete" => edit[e].kind = "edit"

\* One request at a time publishes the item, and until then there is none.
Publishing(e) ==
    edit[e].pc # "idle" /\ edit[e].kind = "publish" =>
        /\ edit[e].pc = "save" => ~listing.linked /\ listing.status = "awaited"
        /\ \A f \in Editor \ {e} : edit[f].pc # "idle" => edit[f].kind # "publish"

\* A pending offer waits for its request; one being cleaned up has ended, and its photo
\* is not the item's.
OfferSound(o) ==
    /\ offer[o].status = "pending" =>
          listing.linked /\ listing.status = "awaited" /\ offer[o].photo # 0
    /\ o \in cleaning =>
          /\ offer[o].status = "ended"
          /\ offer[o].photo # 0 => offer[o].photo # listing.photo
    /\ \A x \in Offer \ {o} : offer[x].photo = offer[o].photo => offer[o].photo = 0

ItemSound ==
    /\ listing.status = "awaited" => listing.photo = 0
    /\ doomed # {} => listing.status = "deleted"

PhotosSound == CurrentIsStored /\ StoredIsCurrent

ImagesInv ==
    /\ ImagesTyped /\ Numbered /\ PhotosSound /\ ItemSound
    /\ \A e \in Editor : Fresh(e) /\ Uploaded(e) /\ Publishing(e)
    /\ \A o \in Offer : OfferSound(o)

LEMMA ImagesStart == ImagesInit => ImagesInv
<1> SUFFICES ASSUME ImagesInit PROVE ImagesInv  OBVIOUS
<1> USE DEF ImagesInit, NoEdit
<1>1. ImagesTyped /\ Numbered /\ ItemSound
  BY DEF ImagesTyped, Numbered, ItemSound, ListingType, OfferType, UploadType
<1>2. PhotosSound
  BY DEF PhotosSound, CurrentIsStored, StoredIsCurrent, Current, Awaiting, PhotosOf
<1>3. \A e \in Editor : Fresh(e) /\ Uploaded(e) /\ Publishing(e)
  BY DEF Fresh, InFlight, Uploaded, Publishing
<1>4. \A o \in Offer : OfferSound(o)  BY DEF OfferSound
<1>5. QED  BY <1>1, <1>2, <1>3, <1>4 DEF ImagesInv

(* What is current, and what is kept, photo by photo *)

IsCurrent(p) ==
    \/ \E o \in Offer : offer[o].status = "pending" /\ offer[o].photo = p
    \/ listing.status \in {"open", "booked", "delivered"} /\ listing.photo = p

IsKept(p) ==
    \/ IsCurrent(p) \/ p \in strays \/ p \in doomed
    \/ \E o \in cleaning : offer[o].photo = p
    \/ \E e \in Editor : edit[e].pc \in {"save", "discard new"} /\ edit[e].new = p
    \/ \E e \in Editor : edit[e].pc = "discard old" /\ edit[e].saw = p

LEMMA PhotoByPhoto ==
    PhotosSound <=> /\ \A p : IsCurrent(p) => p \in store \/ p \in mistaken
                    /\ \A p \in store : IsKept(p)
<1>1. \A p : p \in Current <=> IsCurrent(p)  BY DEF Current, IsCurrent, Awaiting, PhotosOf
<1>2. \A p : p \in PhotosOf(cleaning) <=> \E o \in cleaning : offer[o].photo = p  BY DEF PhotosOf
<1>3. QED  BY <1>1, <1>2 DEF PhotosSound, CurrentIsStored, StoredIsCurrent, IsKept

LEMMA PhotoByPhotoNext ==
    PhotosSound' <=> /\ \A p : IsCurrent(p)' => p \in store' \/ p \in mistaken'
                     /\ \A p \in store' : IsKept(p)'
<1>1. \A p : p \in Current' <=> IsCurrent(p)'  BY DEF Current, IsCurrent, Awaiting, PhotosOf
<1>2. \A p : p \in PhotosOf(cleaning)' <=> \E o \in cleaning' : offer'[o].photo = p  BY DEF PhotosOf
<1>3. QED  BY <1>1, <1>2 DEF PhotosSound, CurrentIsStored, StoredIsCurrent, IsKept

LEMMA EditMoves ==
    ASSUME ImagesInv, NEW e \in Editor, NEW run \in UploadType, edit' = [edit EXCEPT ![e] = run]
    PROVE  /\ edit' \in [Editor -> UploadType] /\ edit'[e] = run
           /\ \A f \in Editor \ {e} : edit'[f] = edit[f]
BY DEF ImagesInv, ImagesTyped

LEMMA NowMoves ==
    ASSUME ImagesInv, NEW e \in Editor, Now(e, "idle") \/ Now(e, "discard new") \/ Now(e, "discard old")
    PROVE  /\ edit' \in [Editor -> UploadType]
           /\ edit'[e].new = edit[e].new /\ edit'[e].saw = edit[e].saw /\ edit'[e].kind = edit[e].kind
           /\ \A pc : Now(e, pc) => edit'[e].pc = pc
           /\ \A f \in Editor \ {e} : edit'[f] = edit[f]
<1>1. edit \in [Editor -> UploadType] /\ edit[e] \in UploadType  BY DEF ImagesInv, ImagesTyped
<1>2. ASSUME NEW pc \in {"idle", "discard new", "discard old"}, Now(e, pc)
      PROVE  /\ edit' \in [Editor -> UploadType]
             /\ edit'[e].new = edit[e].new /\ edit'[e].saw = edit[e].saw /\ edit'[e].kind = edit[e].kind
             /\ edit'[e].pc = pc /\ \A f \in Editor \ {e} : edit'[f] = edit[f]
  BY <1>1, <1>2 DEF Now, UploadType
<1>3. \A pc : Now(e, pc) => edit'[e].pc = pc  BY <1>1 DEF Now, UploadType
<1>4. QED  BY <1>2, <1>3

\* A request that only goes on: what it leaves behind is removed or a stray.
LEMMA GoesOn ==
    ASSUME ImagesInv, NEW e \in Editor, NEW pc \in {"idle", "discard new"}, Now(e, pc),
           pc = "discard new" => edit[e].pc = "save",
           store' \subseteq store, strays \subseteq strays',
           UNCHANGED <<uploads, listing, offer, doomed, cleaning, mistaken>>,
           \A p \in store \ store' : IsCurrent(p) => p \in mistaken,
           \A f \in Editor \ {e} : edit[f].pc = "save" => edit[f].new \notin store \ store',
           pc = "idle" /\ edit[e].pc \in {"save", "discard new"} => edit[e].new \notin store' \/ edit[e].new \in strays',
           pc = "idle" /\ edit[e].pc = "discard old" => edit[e].saw \notin store' \/ edit[e].saw \in strays'
    PROVE  ImagesInv'
<1>1. /\ edit' \in [Editor -> UploadType] /\ edit'[e].pc = pc
      /\ edit'[e].new = edit[e].new /\ edit'[e].saw = edit[e].saw /\ edit'[e].kind = edit[e].kind
      /\ \A f \in Editor \ {e} : edit'[f] = edit[f]
  BY NowMoves
<1>2. ImagesTyped' /\ Numbered' /\ ItemSound'
  BY <1>1 DEF ImagesInv, ImagesTyped, Numbered, ItemSound
<1>3. ASSUME NEW f \in Editor PROVE Fresh(f)'
  <2>1. Fresh(f) /\ (InFlight(f)' => InFlight(f))  BY <1>1 DEF ImagesInv, InFlight
  <2>2. \A g \in Editor : /\ edit'[g].saw = edit[g].saw /\ edit'[g].new = edit[g].new
                          /\ edit'[g].pc \in {"save", "discard new"} => edit[g].pc \in {"save", "discard new"}
    BY <1>1
  <2>3. QED  BY <2>1, <2>2 DEF Fresh
<1>4. ASSUME NEW f \in Editor PROVE Uploaded(f)'
  BY <1>1, <1>4 DEF ImagesInv, Uploaded
<1>5. ASSUME NEW f \in Editor PROVE Publishing(f)'
  BY <1>1, <1>5 DEF ImagesInv, Publishing
<1>6. ASSUME NEW o \in Offer PROVE OfferSound(o)'
  BY <1>6 DEF ImagesInv, OfferSound
<1>7. PhotosSound'
  <2>1. \A p : IsCurrent(p)' <=> IsCurrent(p)  BY DEF IsCurrent
  <2>2. \A p \in store : IsKept(p)  BY PhotoByPhoto DEF ImagesInv
  <2>3. \A p : IsCurrent(p) => p \in store \/ p \in mistaken  BY PhotoByPhoto DEF ImagesInv
  <2>4. ASSUME NEW p \in store' PROVE IsKept(p)'
    <3>1. CASE IsCurrent(p) \/ p \in strays \/ p \in doomed \/ \E o \in cleaning : offer[o].photo = p
      BY <2>1, <3>1 DEF IsKept
    <3>2. ASSUME NEW f \in Editor, edit[f].pc \in {"save", "discard new"}, edit[f].new = p
          PROVE  IsKept(p)'
      <4>1. CASE f = e  BY <1>1, <3>2, <4>1 DEF IsKept
      <4>2. CASE f # e  BY <1>1, <3>2, <4>2 DEF IsKept
      <4>3. QED  BY <4>1, <4>2
    <3>3. ASSUME NEW f \in Editor, edit[f].pc = "discard old", edit[f].saw = p
          PROVE  IsKept(p)'
      BY <1>1, <3>3 DEF IsKept
    <3>4. IsKept(p)  BY <2>2
    <3>5. QED  BY <3>1, <3>2, <3>3, <3>4 DEF IsKept
  <2>5. QED  BY <2>1, <2>3, <2>4, PhotoByPhotoNext
<1>8. QED  BY <1>2, <1>3, <1>4, <1>5, <1>6, <1>7 DEF ImagesInv

LEMMA EditEnds ==
    ASSUME ImagesInv, NEW e \in Editor,
           SaveRefused(e) \/ DiscardNew(e) \/ DiscardOld(e) \/ Abandon(e)
    PROVE  ImagesInv'
<1>1. CASE SaveRefused(e)
  BY <1>1, GoesOn DEF SaveRefused
<1>2. CASE DiscardNew(e)
  <2>1. /\ Now(e, "idle") /\ store' = store \ {edit[e].new} /\ edit[e].pc = "discard new"
        /\ UNCHANGED <<uploads, listing, offer, doomed, cleaning, mistaken, strays>>
    BY <1>2 DEF DiscardNew
  <2>2. IsCurrent(edit[e].new) => edit[e].new \in mistaken
    BY <2>1 DEF ImagesInv, Fresh, InFlight, IsCurrent
  <2>3. \A f \in Editor \ {e} : edit[f].pc = "save" => edit[f].new # edit[e].new
    BY <2>1 DEF ImagesInv, Fresh, InFlight
  <2>4. QED  BY <2>1, <2>2, <2>3, GoesOn
<1>3. CASE DiscardOld(e)
  <2>1. /\ Now(e, "idle") /\ store' = store \ {edit[e].saw} /\ edit[e].pc = "discard old"
        /\ UNCHANGED <<uploads, listing, offer, doomed, cleaning, mistaken, strays>>
    BY <1>3 DEF DiscardOld, Outdated
  <2>2. ~IsCurrent(edit[e].saw)
    BY <2>1 DEF ImagesInv, Uploaded, OfferSound, IsCurrent
  <2>3. \A f \in Editor \ {e} : edit[f].pc = "save" => edit[f].new # edit[e].saw
    BY DEF ImagesInv, Fresh, InFlight
  <2>4. QED  BY <2>1, <2>2, <2>3, GoesOn
<1>4. CASE Abandon(e)
  BY <1>4, GoesOn DEF Abandon
<1>5. QED  BY <1>1, <1>2, <1>3, <1>4

Named(p) == p = 0 \/ p = listing.photo \/ p \in doomed \/ \E o \in Offer : offer[o].photo = p

\* A step of the item or of the offers: it names no other photos, and whatever it stops
\* showing or removing is removed otherwise or a stray.
LEMMA RequestsRest ==
    ASSUME ImagesInv, UNCHANGED <<uploads, edit, mistaken>>,
           listing' \in ListingType, offer' \in [Offer -> OfferType],
           store' \subseteq store, strays \subseteq strays', cleaning' \subseteq Offer,
           Named(listing'.photo), \A p \in doomed' : p # 0 /\ Named(p),
           \A o \in Offer : Named(offer'[o].photo),
           listing'.linked = listing.linked,
           listing.status # "awaited" => listing'.status # "awaited",
           listing.status = "deleted" => listing'.status = "deleted",
           listing.status = "awaited" /\ ~listing.linked => listing'.status = "awaited",
           listing.status # "awaited" => listing'.photo = listing.photo \/ listing'.status = "deleted",
           \A p \in store \ store' : \A f \in Editor : edit[f].pc = "save" => edit[f].new # p,
           ItemSound', \A o \in Offer : OfferSound(o)',
           \A p \in store' :
               IsCurrent(p) \/ p \in doomed \/ (\E o \in cleaning : offer[o].photo = p) =>
               IsCurrent(p)' \/ p \in doomed' \/ p \in strays' \/ (\E o \in cleaning' : offer'[o].photo = p),
           \A p : IsCurrent(p)' => IsCurrent(p) /\ p \notin store \ store'
    PROVE  ImagesInv'
<1>1. ImagesTyped'  BY DEF ImagesInv, ImagesTyped
<1>2. \A p : Named(p) => p <= uploads /\ (p # 0 => p \in 1 .. uploads)
  BY DEF ImagesInv, Named, Numbered, ImagesTyped, ListingType, OfferType
<1>3. Numbered'  BY <1>2 DEF ImagesInv, Numbered
<1>4. ASSUME NEW f \in Editor PROVE Fresh(f)'
  <2>1. InFlight(f) => ~Named(edit[f].new)  BY DEF ImagesInv, Fresh, Named
  <2>2. InFlight(f)' = InFlight(f)  BY DEF InFlight
  <2>3. QED  BY <2>1, <2>2 DEF ImagesInv, Fresh
<1>5. ASSUME NEW f \in Editor PROVE Uploaded(f)'
  BY <1>5 DEF ImagesInv, Uploaded
<1>6. ASSUME NEW f \in Editor PROVE Publishing(f)'
  BY <1>6 DEF ImagesInv, Publishing
<1>7. PhotosSound'
  <2>1. /\ \A p \in store : IsKept(p)
        /\ \A p : IsCurrent(p) => p \in store \/ p \in mistaken
    BY PhotoByPhoto DEF ImagesInv
  <2>2. ASSUME NEW p \in store' PROVE IsKept(p)'
    <3>1. IsKept(p)  BY <2>1
    <3>2. QED  BY <3>1 DEF IsKept
  <2>3. QED  BY <2>1, <2>2, PhotoByPhotoNext
<1>8. QED  BY <1>1, <1>3, <1>4, <1>5, <1>6, <1>7 DEF ImagesInv

LEMMA ItemFields ==
    ASSUME ImagesInv
    PROVE  /\ listing \in ListingType /\ offer \in [Offer -> OfferType] /\ cleaning \subseteq Offer
           /\ \A st \in {"open", "booked", "delivered", "deleted", "closed"} :
                 /\ [listing EXCEPT !.status = st] \in ListingType
                 /\ [listing EXCEPT !.status = st].status = st
                 /\ [listing EXCEPT !.status = st].photo = listing.photo
                 /\ [listing EXCEPT !.status = st].linked = listing.linked
BY DEF ImagesInv, ImagesTyped, ListingType

\* The item is booked, delivered or deleted by a moderator, or the store catches up.
LEMMA ItemSteps ==
    ASSUME ImagesInv,
           BookItem \/ DeliverItem \/ ModeratorDeletes
           \/ \E p \in Photo : Destroy(p) \/ GiveUp(p)
    PROVE  ImagesInv'
<1> USE DEF Named
<1>1. CASE BookItem \/ DeliverItem
  <2>1. /\ listing.status \in {"open", "booked"} /\ listing'.status \in {"booked", "delivered"}
        /\ listing' \in ListingType /\ listing'.photo = listing.photo /\ listing'.linked = listing.linked
        /\ UNCHANGED <<store, uploads, offer, edit, doomed, cleaning, strays, mistaken>>
    BY <1>1, ItemFields DEF BookItem, DeliverItem
  <2>2. doomed = {} /\ (\A o \in Offer : offer[o].status # "pending")
    BY <2>1 DEF ImagesInv, ItemSound, OfferSound
  <2>3. ItemSound' /\ \A o \in Offer : OfferSound(o)'
    BY <2>1, <2>2 DEF ImagesInv, ItemSound, OfferSound
  <2>4. \A p : IsCurrent(p)' <=> IsCurrent(p)  BY <2>1 DEF IsCurrent
  <2>5. QED  BY <2>1, <2>2, <2>3, <2>4, ItemFields, RequestsRest
<1>2. CASE ModeratorDeletes
  <2>1. /\ listing.status \in {"open", "booked", "delivered", "deleted"} /\ listing'.status = "deleted"
        /\ listing' \in ListingType /\ listing'.photo = listing.photo /\ listing'.linked = listing.linked
        /\ doomed' = doomed \cup ({listing.photo} \ {0})
        /\ UNCHANGED <<store, uploads, offer, edit, cleaning, strays, mistaken>>
    BY <1>2, ItemFields DEF ModeratorDeletes
  <2>2. 0 \notin doomed /\ 0 \notin store /\ (\A o \in Offer : offer[o].status # "pending")
    BY <2>1 DEF ImagesInv, Numbered, ImagesTyped, OfferSound
  <2>3. ItemSound' /\ \A o \in Offer : OfferSound(o)'
    BY <2>1, <2>2 DEF ImagesInv, ItemSound, OfferSound
  <2>4. \A p : ~IsCurrent(p)'  BY <2>1, <2>2 DEF IsCurrent
  <2>5. \A p : IsCurrent(p) => p = listing.photo  BY <2>2 DEF IsCurrent
  <2>6. QED  BY <2>1, <2>2, <2>3, <2>4, <2>5, ItemFields, RequestsRest
<1>3. ASSUME NEW p \in Photo, Destroy(p) \/ GiveUp(p) PROVE ImagesInv'
  <2>1. /\ p \in doomed /\ doomed' \in {doomed, doomed \ {p}} /\ store' \in {store, store \ {p}}
        /\ strays \subseteq strays' /\ (doomed' = doomed \/ p \in strays')
        /\ UNCHANGED <<uploads, listing, offer, edit, cleaning, mistaken>>
    BY <1>3 DEF Destroy, GiveUp
  <2>2. listing.status = "deleted"  BY <2>1 DEF ImagesInv, ItemSound
  <2>a. 0 \notin doomed  BY DEF ImagesInv, Numbered, ImagesTyped
  <2>b. \A f \in Editor : edit[f].pc = "save" => edit[f].new # p
    BY <2>1 DEF ImagesInv, Fresh, InFlight
  <2>c. \A o \in Offer : offer[o].status # "pending"  BY <2>2 DEF ImagesInv, OfferSound
  <2>3. ItemSound' /\ \A o \in Offer : OfferSound(o)'
    BY <2>1, <2>2 DEF ImagesInv, ItemSound, OfferSound
  <2>4. \A q : ~IsCurrent(q)' /\ ~IsCurrent(q)  BY <2>1, <2>2, <2>c DEF IsCurrent
  <2>5. \A o \in Offer : Named(offer'[o].photo)  BY <2>1
  <2>6. QED  BY <2>1, <2>2, <2>a, <2>b, <2>3, <2>4, <2>5, ItemFields, RequestsRest
<1>4. QED  BY <1>1, <1>2, <1>3

\* The item is released, or its photo was removed and its name is cleared.
LEMMA ItemLeft ==
    ASSUME ImagesInv, ReleaseItem \/ \E p \in Photo : ClearItem(p)
    PROVE  ImagesInv'
<1> USE DEF Named
<1>1. CASE ReleaseItem
  <2>1. /\ listing.status = "booked" /\ listing'.status = "open"
        /\ listing' \in ListingType /\ listing'.photo = listing.photo /\ listing'.linked = listing.linked
        /\ UNCHANGED <<store, uploads, edit, doomed, cleaning, strays, mistaken>>
    BY <1>1, ItemFields DEF ReleaseItem
  <2>2. /\ offer' \in [Offer -> OfferType]
        /\ \A o \in Offer : /\ offer'[o].photo = offer[o].photo
                            /\ offer'[o].status = IF offer[o].status = "accepted" THEN "undone"
                                                  ELSE offer[o].status
    BY <1>1, ItemFields DEF ReleaseItem, OfferType
  <2>3. doomed = {} /\ (\A o \in Offer : offer[o].status # "pending" /\ offer'[o].status # "pending")
    BY <2>1, <2>2 DEF ImagesInv, ItemSound, OfferSound
  <2>4. ItemSound'  BY <2>1, <2>3 DEF ItemSound
  <2>5. ASSUME NEW o \in Offer PROVE OfferSound(o)'
    <3>1. OfferSound(o)  BY DEF ImagesInv
    <3>2. QED  BY <2>1, <2>2, <2>3, <3>1 DEF OfferSound
  <2>6. \A p : IsCurrent(p)' <=> IsCurrent(p)  BY <2>1, <2>2, <2>3 DEF IsCurrent
  <2>7. \A p : (\E o \in cleaning : offer[o].photo = p) => \E o \in cleaning' : offer'[o].photo = p
    BY <2>1, <2>2, ItemFields
  <2>9. QED  BY <2>1, <2>2, <2>3, <2>4, <2>5, <2>6, <2>7, ItemFields, RequestsRest
<1>2. ASSUME NEW p \in Photo, ClearItem(p) PROVE ImagesInv'
  <2>1. /\ p \in doomed /\ p \notin store /\ doomed' = doomed \ {p}
        /\ UNCHANGED <<store, uploads, offer, edit, cleaning, strays, mistaken>>
    BY <1>2 DEF ClearItem
  <2>2. listing.status = "deleted" /\ (\A o \in Offer : offer[o].status # "pending")
    BY <2>1 DEF ImagesInv, ItemSound, OfferSound
  <2>3. /\ listing' \in ListingType /\ listing'.status = "deleted" /\ listing'.linked = listing.linked
        /\ listing'.photo \in {0, listing.photo}
    BY <1>2, <2>2, ItemFields DEF ClearItem, ListingType
  <2>4. ItemSound'  BY <2>2, <2>3 DEF ItemSound
  <2>5. ASSUME NEW o \in Offer PROVE OfferSound(o)'
    <3>1. OfferSound(o)  BY DEF ImagesInv
    <3>2. QED  BY <2>1, <2>2, <2>3, <3>1 DEF OfferSound
  <2>6. \A q : ~IsCurrent(q)' /\ ~IsCurrent(q)  BY <2>1, <2>2, <2>3 DEF IsCurrent
  <2>7. 0 \notin doomed  BY DEF ImagesInv, Numbered, ImagesTyped
  <2>8. QED  BY <2>1, <2>2, <2>3, <2>4, <2>5, <2>6, <2>7, ItemFields, RequestsRest
<1>3. QED  BY <1>1, <1>2

\* An offer ends, the request closes, or an offer is accepted.
LEMMA OffersEnd ==
    ASSUME ImagesInv, NEW ended, ended \subseteq Awaiting, listing.status = "awaited",
           listing' \in ListingType, listing'.linked = listing.linked,
           UNCHANGED <<store, uploads, edit, doomed, strays, mistaken>>,
           offer' \in [Offer -> OfferType], cleaning' = cleaning \cup ended,
           \A o \in Offer : offer'[o].photo = offer[o].photo,
           \A o \in ended : offer'[o].status = "ended",
           \A o \in Offer \ ended : offer'[o].status = offer[o].status
                                    \/ (offer[o].status = "pending" /\ offer'[o].status = "accepted"
                                        /\ listing'.status = "booked" /\ listing'.photo = offer[o].photo),
           \/ listing' = listing
           \/ listing.linked /\ listing'.status = "closed" /\ listing'.photo = 0
              /\ \A o \in Offer : offer'[o].status # "pending"
           \/ \E o \in Awaiting \ ended : listing'.status = "booked" /\ listing'.photo = offer[o].photo
                                          /\ offer'[o].status = "accepted"
              /\ \A x \in Offer : offer'[x].status # "pending"
    PROVE  ImagesInv'
<1> USE DEF Named
<1>1. doomed = {} /\ listing.photo = 0 /\ (Awaiting # {} => listing.linked)
  BY DEF ImagesInv, ItemSound, OfferSound, Awaiting
<1>2. ItemSound'  BY <1>1 DEF ItemSound
<1>3. \A o \in Awaiting : o \in Offer /\ offer[o].status = "pending" /\ offer[o].photo # 0 /\ o \notin cleaning
  BY DEF ImagesInv, OfferSound, Awaiting
<1>4. ASSUME NEW o \in Offer PROVE OfferSound(o)'
  <2>1. OfferSound(o)  BY DEF ImagesInv
  <2>2. offer'[o].status = "pending" =>
            listing'.linked /\ listing'.status = "awaited" /\ offer'[o].photo # 0
    BY <1>1, <1>3, <2>1 DEF OfferSound
  <2>3. ASSUME o \in cleaning'
        PROVE  offer'[o].status = "ended" /\ (offer'[o].photo # 0 => offer'[o].photo # listing'.photo)
    <3>1. offer'[o].status = "ended"
      BY <1>3, <2>1, <2>3 DEF OfferSound, Awaiting
    <3>2. CASE listing'.photo = 0  BY <3>1, <3>2
    <3>3. ASSUME NEW x \in Awaiting \ ended, listing'.photo = offer[x].photo, offer'[x].status = "accepted"
          PROVE  offer'[o].photo # 0 => offer'[o].photo # listing'.photo
      BY <1>3, <2>1, <3>1, <3>3 DEF OfferSound
    <3>4. QED  BY <1>1, <3>1, <3>2, <3>3
  <2>4. QED  BY <2>1, <2>2, <2>3 DEF OfferSound
<1>5. \A p : IsCurrent(p)' => IsCurrent(p)
  BY <1>1, <1>3 DEF IsCurrent, Awaiting
<1>6. ASSUME NEW p, IsCurrent(p) \/ \E o \in cleaning : offer[o].photo = p
      PROVE  IsCurrent(p)' \/ \E o \in cleaning' : offer'[o].photo = p
  <2>1. CASE \E o \in cleaning : offer[o].photo = p  BY <2>1, ItemFields
  <2>2. ASSUME NEW o \in Offer, offer[o].status = "pending", offer[o].photo = p
        PROVE  IsCurrent(p)' \/ \E x \in cleaning' : offer'[x].photo = p
    BY <2>2 DEF IsCurrent
  <2>3. QED  BY <1>6, <2>1, <2>2 DEF IsCurrent
<1>7. \A o \in Offer : Named(offer'[o].photo)  OBVIOUS
<1>8. Named(listing'.photo)  BY <1>3
<1>9. /\ cleaning' \subseteq Offer
      /\ listing.status = "awaited" /\ ~listing.linked => listing'.status = "awaited"
  BY <1>1, ItemFields DEF Awaiting
<1>10. QED  BY <1>1, <1>2, <1>4, <1>5, <1>6, <1>7, <1>8, <1>9, RequestsRest

LEMMA OfferFields ==
    ASSUME ImagesInv, NEW os
    PROVE  /\ Ending(os) \in [Offer -> OfferType]
           /\ \A o \in Offer : /\ Ending(os)[o].photo = offer[o].photo
                               /\ Ending(os)[o].status = IF o \in os THEN "ended" ELSE offer[o].status
BY ItemFields DEF Ending, OfferType

LEMMA OfferSteps ==
    ASSUME ImagesInv, CloseRequest \/ \E o \in Offer : EndOffer(o) \/ AcceptOffer(o)
    PROVE  ImagesInv'
<1>1. CASE CloseRequest
  <2>1. /\ listing.status = "awaited" /\ listing.linked /\ listing'.status = "closed"
        /\ listing' \in ListingType /\ listing'.photo = listing.photo /\ listing'.linked = listing.linked
        /\ offer' = Ending(Awaiting) /\ cleaning' = cleaning \cup Awaiting
        /\ UNCHANGED <<store, uploads, edit, doomed, strays, mistaken>>
    BY <1>1, ItemFields DEF CloseRequest
  <2>2. /\ offer' \in [Offer -> OfferType]
        /\ \A o \in Offer : /\ offer'[o].photo = offer[o].photo /\ offer'[o].status # "pending"
                            /\ o \in Awaiting => offer'[o].status = "ended"
                            /\ o \notin Awaiting => offer'[o].status = offer[o].status
    BY <2>1, OfferFields, ItemFields DEF Awaiting
  <2>3. listing.photo = 0  BY <2>1 DEF ImagesInv, ItemSound
  <2>4. DEFINE ended == Awaiting
  <2>5. /\ ended \subseteq Awaiting /\ cleaning' = cleaning \cup ended
        /\ \A o \in Offer : offer'[o].photo = offer[o].photo /\ offer'[o].status # "pending"
        /\ \A o \in ended : offer'[o].status = "ended"
        /\ \A o \in Offer \ ended : offer'[o].status = offer[o].status
    BY <2>1, <2>2 DEF Awaiting
  <2> HIDE DEF ended
  <2>s. \A o \in Offer \ ended : offer'[o].status = offer[o].status
                              \/ (offer[o].status = "pending" /\ offer'[o].status = "accepted"
                                  /\ listing'.status = "booked" /\ listing'.photo = offer[o].photo)
    BY <2>5
  <2>6. QED  BY <2>1, <2>2, <2>3, <2>5, <2>s, OffersEnd
<1>2. ASSUME NEW o \in Offer, EndOffer(o) PROVE ImagesInv'
  <2>1. /\ listing.status = "awaited" /\ o \in Awaiting
        /\ offer' = Ending({o}) /\ cleaning' = cleaning \cup {o}
        /\ UNCHANGED <<store, uploads, listing, edit, doomed, strays, mistaken>>
    BY <1>2 DEF EndOffer
  <2>2. /\ offer' \in [Offer -> OfferType]
        /\ \A x \in Offer : /\ offer'[x].photo = offer[x].photo
                            /\ x \in {o} => offer'[x].status = "ended"
                            /\ x \notin {o} => offer'[x].status = offer[x].status
    BY <2>1, OfferFields
  <2>3. DEFINE ended == {o}
  <2>4. /\ ended \subseteq Awaiting /\ cleaning' = cleaning \cup ended
        /\ \A x \in Offer : offer'[x].photo = offer[x].photo
        /\ \A x \in ended : offer'[x].status = "ended"
        /\ \A x \in Offer \ ended : offer'[x].status = offer[x].status
    BY <2>1, <2>2 DEF Awaiting
  <2> HIDE DEF ended
  <2>s. \A x \in Offer \ ended : offer'[x].status = offer[x].status
                              \/ (offer[x].status = "pending" /\ offer'[x].status = "accepted"
                                  /\ listing'.status = "booked" /\ listing'.photo = offer[x].photo)
    BY <2>4
  <2>5. listing' \in ListingType /\ listing'.linked = listing.linked  BY <2>1, ItemFields
  <2>6. QED  BY <2>1, <2>2, <2>4, <2>s, <2>5, OffersEnd
<1>3. ASSUME NEW o \in Offer, AcceptOffer(o) PROVE ImagesInv'
  <2>1. /\ listing.status = "awaited" /\ o \in Awaiting
        /\ listing' = [listing EXCEPT !.status = "booked", !.photo = offer[o].photo]
        /\ offer' = [Ending(Awaiting \ {o}) EXCEPT ![o].status = "accepted"]
        /\ cleaning' = cleaning \cup (Awaiting \ {o})
        /\ UNCHANGED <<store, uploads, edit, doomed, strays, mistaken>>
    BY <1>3 DEF AcceptOffer
  <2>2. /\ listing' \in ListingType /\ listing'.linked = listing.linked
        /\ listing'.status = "booked" /\ listing'.photo = offer[o].photo
    BY <2>1, ItemFields DEF ListingType, OfferType
  <2>a. DEFINE rest == Ending(Awaiting \ {o})
  <2>b. /\ rest \in [Offer -> OfferType]
        /\ \A x \in Offer : /\ rest[x].photo = offer[x].photo
                            /\ rest[x].status = IF x \in Awaiting \ {o} THEN "ended" ELSE offer[x].status
    BY OfferFields
  <2>c. offer' = [rest EXCEPT ![o].status = "accepted"]  BY <2>1
  <2> HIDE DEF rest
  <2>3. /\ offer' \in [Offer -> OfferType]
        /\ offer'[o].status = "accepted" /\ offer'[o].photo = offer[o].photo
        /\ \A x \in Offer \ {o} : offer'[x] = rest[x]
    BY <2>b, <2>c DEF OfferType
  <2>4. \A x \in Offer \ {o} :
            /\ offer'[x].photo = offer[x].photo /\ offer'[x].status # "pending"
            /\ x \in Awaiting => offer'[x].status = "ended"
            /\ x \notin Awaiting => offer'[x].status = offer[x].status
    BY <2>3, <2>b DEF Awaiting
  <2>5. DEFINE ended == Awaiting \ {o}
  <2>6. /\ ended \subseteq Awaiting /\ o \in Awaiting \ ended
        /\ \A x \in Offer : offer'[x].photo = offer[x].photo /\ offer'[x].status # "pending"
        /\ \A x \in ended : offer'[x].status = "ended"
        /\ \A x \in Offer \ ended : offer'[x].status = offer[x].status
                                    \/ (offer[x].status = "pending" /\ offer'[x].status = "accepted"
                                        /\ listing'.status = "booked" /\ listing'.photo = offer[x].photo)
    <3>1. \A x \in Offer : offer'[x].photo = offer[x].photo /\ offer'[x].status # "pending"
      BY <2>3, <2>4
    <3>2. o \in Offer /\ offer[o].status = "pending"  BY <2>1 DEF Awaiting
    <3>3. \A x \in Offer \ ended : x # o => offer'[x].status = offer[x].status
      BY <2>4
    <3>4. \A x \in ended : offer'[x].status = "ended"  BY <2>4 DEF Awaiting
    <3>a. ended \subseteq Awaiting /\ o \in Awaiting \ ended  BY <2>1
    <3> HIDE DEF ended
    <3>b. ASSUME NEW x \in Offer \ ended
          PROVE  offer'[x].status = offer[x].status
                 \/ (offer[x].status = "pending" /\ offer'[x].status = "accepted"
                     /\ listing'.status = "booked" /\ listing'.photo = offer[x].photo)
      BY <2>2, <2>3, <3>2, <3>3
    <3>5. QED  BY <3>1, <3>4, <3>a, <3>b
  <2> HIDE DEF ended
  <2>7. cleaning' = cleaning \cup ended  BY <2>1 DEF ended
  <2>8. QED  BY <2>1, <2>2, <2>3, <2>6, <2>7, OffersEnd
<1>4. QED  BY <1>1, <1>2, <1>3

\* The clean-up of an offer that ended removes its photo, then its name, or is lost.
LEMMA CleanUpSteps ==
    ASSUME ImagesInv, NEW o \in Offer, Wipe(o) \/ ClearOffer(o) \/ CleanupLost(o)
    PROVE  ImagesInv'
<1> USE DEF Named
<1>1. o \in cleaning /\ UNCHANGED <<uploads, listing, edit, doomed, mistaken>>
  BY DEF Wipe, ClearOffer, CleanupLost
<1>2. /\ offer[o].status = "ended" /\ (offer[o].photo # 0 => offer[o].photo # listing.photo)
      /\ \A x \in Offer \ {o} : offer[x].photo = offer[o].photo => offer[o].photo = 0
      /\ 0 \notin store /\ 0 \notin doomed
  BY <1>1 DEF ImagesInv, OfferSound, Numbered, ImagesTyped
<1>3. ItemSound'  BY <1>1 DEF ImagesInv, ItemSound
<1>4. CASE Wipe(o)
  <2>1. /\ offer[o].photo \in store /\ store' = store \ {offer[o].photo}
        /\ UNCHANGED <<offer, cleaning, strays>>
    BY <1>4 DEF Wipe
  <2>2. ~IsCurrent(offer[o].photo)
    BY <1>2, <2>1 DEF IsCurrent
  <2>3. \A p : IsCurrent(p)' <=> IsCurrent(p)  BY <1>1, <2>1 DEF IsCurrent
  <2>4. \A f \in Editor : edit[f].pc = "save" => edit[f].new # offer[o].photo
    BY DEF ImagesInv, Fresh, InFlight
  <2>5. \A x \in Offer : OfferSound(x)'  BY <1>1, <2>1 DEF ImagesInv, OfferSound
  <2>6. QED  BY <1>1, <1>2, <1>3, <2>1, <2>2, <2>3, <2>4, <2>5, ItemFields, RequestsRest
<1>5. CASE ClearOffer(o)
  <2>1. /\ offer[o].photo \notin store /\ cleaning' = cleaning \ {o}
        /\ offer' = [offer EXCEPT ![o].photo = 0] /\ UNCHANGED <<store, strays>>
    BY <1>5 DEF ClearOffer
  <2>2. /\ offer' \in [Offer -> OfferType] /\ offer'[o].photo = 0 /\ offer'[o].status = offer[o].status
        /\ \A x \in Offer \ {o} : offer'[x] = offer[x]
    BY <2>1, ItemFields DEF OfferType
  <2>3. ASSUME NEW x \in Offer PROVE OfferSound(x)'
    <3>1. OfferSound(x)  BY DEF ImagesInv
    <3>2. QED  BY <1>1, <1>2, <2>1, <2>2, <3>1 DEF OfferSound
  <2>4. \A p : IsCurrent(p)' <=> IsCurrent(p)  BY <1>1, <1>2, <2>2 DEF IsCurrent
  <2>5. \A p \in store : (\E x \in cleaning : offer[x].photo = p) =>
                         \E x \in cleaning' : offer'[x].photo = p
    BY <2>1, <2>2, ItemFields
  <2>6. QED  BY <1>1, <1>2, <1>3, <2>1, <2>2, <2>3, <2>4, <2>5, ItemFields, RequestsRest
<1>6. CASE CleanupLost(o)
  <2>1. /\ cleaning' = cleaning \ {o} /\ strays' = strays \cup {offer[o].photo}
        /\ UNCHANGED <<store, offer>>
    BY <1>6 DEF CleanupLost
  <2>2. \A x \in Offer : OfferSound(x)'  BY <1>1, <2>1 DEF ImagesInv, OfferSound
  <2>3. \A p : IsCurrent(p)' <=> IsCurrent(p)  BY <1>1, <2>1 DEF IsCurrent
  <2>4. \A p : (\E x \in cleaning : offer[x].photo = p) =>
               p \in strays' \/ \E x \in cleaning' : offer'[x].photo = p
    BY <2>1
  <2>5. QED  BY <1>1, <1>2, <1>3, <2>1, <2>2, <2>3, <2>4, ItemFields, RequestsRest
<1>7. QED  BY <1>4, <1>5, <1>6

\* What a request names when it begins, and what is then shown and kept.
LEMMA UploadSteps ==
    ASSUME ImagesInv, NEW e \in Editor,
           OwnerReads(e) \/ \E kind \in {"publish", "edit", "offer"} : Upload(e, kind)
    PROVE  ImagesInv'
<1>1. PICK run \in UploadType :
          /\ edit' = [edit EXCEPT ![e] = run] /\ edit[e].pc = "idle"
          /\ UNCHANGED <<listing, offer, doomed, cleaning, strays, mistaken>>
          /\ run.saw = listing.photo
          /\ \/ /\ run.pc = "delete" /\ run.kind = "edit" /\ run.new = 0
                /\ UNCHANGED <<uploads, store>>
             \/ /\ run.pc = "save" /\ run.new = uploads + 1 /\ MayUpload(run.kind)
                /\ uploads' = uploads + 1 /\ store' = store \cup {uploads + 1}
  <2>1. CASE OwnerReads(e)
    <3>1. [pc |-> "delete", kind |-> "edit", saw |-> listing.photo, new |-> 0] \in UploadType
      BY ItemFields DEF UploadType, ListingType
    <3>2. QED  BY <2>1, <3>1 DEF OwnerReads
  <2>2. ASSUME NEW kind \in {"publish", "edit", "offer"}, Upload(e, kind)
        PROVE  \E run \in UploadType :
          /\ edit' = [edit EXCEPT ![e] = run] /\ edit[e].pc = "idle"
          /\ UNCHANGED <<listing, offer, doomed, cleaning, strays, mistaken>>
          /\ run.saw = listing.photo
          /\ run.pc = "save" /\ run.new = uploads + 1 /\ MayUpload(run.kind)
          /\ uploads' = uploads + 1 /\ store' = store \cup {uploads + 1}
    <3>1. listing.photo \in Nat /\ uploads + 1 \in Nat
      BY ItemFields DEF ListingType, ImagesInv, ImagesTyped
    <3>2. [pc |-> "save", kind |-> kind, saw |-> listing.photo, new |-> uploads + 1] \in UploadType
      BY <3>1 DEF UploadType
    <3>3. QED  BY <2>2, <3>2 DEF Upload
  <2>3. QED  BY <2>1, <2>2
<1>2. /\ edit' \in [Editor -> UploadType] /\ edit'[e] = run
      /\ \A f \in Editor \ {e} : edit'[f] = edit[f]
  BY <1>1, EditMoves
<1>3. /\ uploads \in Nat /\ uploads' \in Nat /\ uploads <= uploads' /\ listing.photo \in Nat
      /\ store \subseteq 1 .. uploads /\ listing.photo <= uploads
      /\ \A p \in doomed : p \in 1 .. uploads
      /\ \A o \in Offer : offer[o].photo \in Nat /\ offer[o].photo <= uploads
      /\ \A f \in Editor : /\ edit[f].saw \in Nat /\ edit[f].new \in Nat
                           /\ edit[f].saw <= uploads /\ edit[f].new <= uploads
  <2>1. uploads \in Nat /\ uploads' \in Nat /\ uploads <= uploads'
    BY <1>1 DEF ImagesInv, ImagesTyped
  <2>2. /\ listing.photo \in Nat
        /\ \A o \in Offer : offer[o].photo \in Nat
        /\ \A f \in Editor : edit[f].saw \in Nat /\ edit[f].new \in Nat
    BY DEF ImagesInv, ImagesTyped, ListingType, OfferType, UploadType
  <2>3. QED  BY <2>1, <2>2 DEF ImagesInv, Numbered
<1>4. ImagesTyped'  BY <1>1, <1>2, <1>3 DEF ImagesInv, ImagesTyped
<1>5. Numbered'
  <2>1. store' \subseteq 1 .. uploads'
    <3>1. CASE UNCHANGED <<uploads, store>>  BY <1>3, <3>1
    <3>2. CASE uploads' = uploads + 1 /\ store' = store \cup {uploads + 1}
      <4>1. ASSUME NEW p \in store' PROVE p \in 1 .. uploads'
        BY <1>3, <3>2
      <4>2. QED  BY <4>1
    <3>3. QED  BY <1>1, <3>1, <3>2
  <2>2. \A p \in doomed : p \in 1 .. uploads'  BY <1>3
  <2>3. \A f \in Editor : edit'[f].saw <= uploads' /\ edit'[f].new <= uploads'
    BY <1>1, <1>2, <1>3
  <2>4. \A o \in Offer : offer[o].photo <= uploads'  BY <1>3
  <2>5. QED  BY <1>1, <1>3, <2>1, <2>2, <2>3, <2>4 DEF Numbered
<1>6. ItemSound'  BY <1>1 DEF ImagesInv, ItemSound
<1>7. ASSUME NEW f \in Editor PROVE Fresh(f)'
  <2>1. CASE f = e
    <3>1. CASE run.pc = "delete"  BY <1>2, <2>1, <3>1 DEF Fresh, InFlight
    <3>2. CASE run.pc = "save"
      <4>1. run.new = uploads + 1  BY <1>1, <3>2
      <4>2. /\ run.new # 0 /\ run.new # listing.photo /\ run.new \notin doomed
            /\ \A o \in Offer : offer[o].photo # run.new
            /\ \A g \in Editor : edit[g].saw # run.new /\ edit[g].new # run.new
        BY <1>3, <4>1
      <4>3. QED  BY <1>1, <1>2, <2>1, <4>2 DEF Fresh
    <3>3. QED  BY <1>1, <3>1, <3>2
  <2>2. CASE f # e
    <3>1. Fresh(f) /\ (InFlight(f)' <=> InFlight(f)) /\ edit'[f] = edit[f]
      BY <1>1, <1>2, <2>2 DEF ImagesInv, InFlight
    <3>2. \A g \in Editor : edit'[g].saw \in {edit[g].saw, listing.photo}
      BY <1>1, <1>2
    <3>3. \A g \in Editor \ {f} : edit'[g].pc \in {"save", "discard new"} =>
              edit'[g].new = uploads + 1 \/ edit'[g] = edit[g]
      BY <1>1, <1>2
    <3>4. edit[f].new # uploads + 1  BY <1>3
    <3>5. SUFFICES ASSUME InFlight(f) PROVE Fresh(f)'  BY <3>1 DEF Fresh
    <3>6. /\ edit'[f].new # 0 /\ edit'[f].new # listing'.photo /\ edit'[f].new \notin doomed'
          /\ \A o \in Offer : offer'[o].photo # edit'[f].new
      <4>1. UNCHANGED <<listing, doomed, offer>>  BY <1>1
      <4>2. /\ edit[f].new # 0 /\ edit[f].new # listing.photo /\ edit[f].new \notin doomed
            /\ \A o \in Offer : offer[o].photo # edit[f].new
        BY <3>1, <3>5 DEF Fresh
      <4>3. QED  BY <3>1, <4>1, <4>2
    <3>7. \A g \in Editor : edit'[g].saw # edit'[f].new
      BY <1>1, <3>1, <3>2, <3>5 DEF Fresh
    <3>8. ASSUME NEW g \in Editor \ {f}, edit'[g].pc \in {"save", "discard new"}
          PROVE  edit'[g].new # edit'[f].new
      BY <3>1, <3>3, <3>4, <3>5, <3>8 DEF Fresh
    <3>9. QED  BY <3>6, <3>7, <3>8 DEF Fresh
  <2>3. QED  BY <2>1, <2>2
<1>8. ASSUME NEW f \in Editor PROVE Uploaded(f)'
  BY <1>1, <1>2 DEF ImagesInv, Uploaded, MayUpload
<1>9. ASSUME NEW f \in Editor PROVE Publishing(f)'
  BY <1>1, <1>2 DEF ImagesInv, Publishing, MayUpload
<1>10. ASSUME NEW o \in Offer PROVE OfferSound(o)'
  BY <1>1 DEF ImagesInv, OfferSound
<1>11. PhotosSound'
  <2>1. /\ \A p \in store : IsKept(p)
        /\ \A p : IsCurrent(p) => p \in store \/ p \in mistaken
    BY PhotoByPhoto DEF ImagesInv
  <2>2. \A p : IsCurrent(p)' <=> IsCurrent(p)  BY <1>1 DEF IsCurrent
  <2>3. ASSUME NEW p \in store PROVE IsKept(p)'
    <3>1. IsKept(p)  BY <2>1
    <3>2. \A f \in Editor : edit[f].pc # "idle" => edit'[f] = edit[f]  BY <1>1, <1>2
    <3>3. QED  BY <1>1, <2>2, <3>1, <3>2 DEF IsKept
  <2>4. ASSUME NEW p \in store' \ store PROVE IsKept(p)'
    BY <1>1, <1>2 DEF IsKept
  <2>5. QED  BY <1>1, <2>1, <2>2, <2>3, <2>4, PhotoByPhotoNext
<1>12. QED  BY <1>4, <1>5, <1>6, <1>7, <1>8, <1>9, <1>10, <1>11 DEF ImagesInv

LEMMA OwnerDeletesSteps ==
    ASSUME ImagesInv, NEW e \in Editor, OwnerDeletes(e)
    PROVE  ImagesInv'
<1>1. /\ edit[e].pc = "delete" /\ edit[e].kind = "edit" /\ Now(e, "idle")
      /\ UNCHANGED <<store, uploads, offer, cleaning, mistaken>>
  BY DEF OwnerDeletes, ImagesInv, Uploaded
<1>2. CASE listing.status \notin {"open", "booked", "deleted"}
  <2>1. UNCHANGED <<listing, doomed, strays>>  BY <1>2 DEF OwnerDeletes
  <2>2. QED  BY <1>1, <2>1, GoesOn
<1>3. CASE listing.status \in {"open", "booked", "deleted"}
  <2>1. /\ listing' \in ListingType /\ listing'.status = "deleted"
        /\ listing'.photo = listing.photo /\ listing'.linked = listing.linked
        /\ doomed' = doomed \cup ({edit[e].saw} \ {0})
        /\ strays' = strays \cup ({listing.photo} \ {edit[e].saw})
    BY <1>1, <1>3, ItemFields DEF OwnerDeletes, Crossed
  <2>2. /\ edit' \in [Editor -> UploadType] /\ edit'[e].pc = "idle"
        /\ edit'[e].new = edit[e].new /\ edit'[e].saw = edit[e].saw /\ edit'[e].kind = edit[e].kind
        /\ \A f \in Editor \ {e} : edit'[f] = edit[f]
    BY <1>1, NowMoves
  <2>3. ImagesTyped' /\ ItemSound'
    BY <1>1, <2>1, <2>2 DEF ImagesInv, ImagesTyped, ItemSound
  <2>4. edit[e].saw \in Nat /\ edit[e].saw <= uploads /\ uploads \in Nat
    BY DEF ImagesInv, ImagesTyped, Numbered, UploadType
  <2>5. \A p \in doomed' : p \in 1 .. uploads
    BY <2>1, <2>4 DEF ImagesInv, Numbered
  <2>6. Numbered'  BY <1>1, <2>1, <2>2, <2>5 DEF ImagesInv, Numbered
  <2>7. ASSUME NEW f \in Editor PROVE Fresh(f)'
    <3>1. Fresh(f) /\ (InFlight(f)' => InFlight(f))  BY <1>1, <2>2 DEF ImagesInv, InFlight
    <3>2. \A g \in Editor : /\ edit'[g].saw = edit[g].saw /\ edit'[g].new = edit[g].new
                            /\ edit'[g].pc \in {"save", "discard new"} => edit[g].pc \in {"save", "discard new"}
      BY <2>2
    <3>3. QED  BY <1>1, <2>1, <3>1, <3>2 DEF Fresh
  <2>8. ASSUME NEW f \in Editor PROVE Uploaded(f)'
    BY <1>1, <2>1, <2>2 DEF ImagesInv, Uploaded
  <2>9. ASSUME NEW f \in Editor PROVE Publishing(f)'
    BY <1>1, <1>3, <2>1, <2>2 DEF ImagesInv, Publishing
  <2>10. ASSUME NEW o \in Offer PROVE OfferSound(o)'
    BY <1>1, <1>3, <2>1 DEF ImagesInv, OfferSound
  <2>11. PhotosSound'
    <3>1. \A p \in store : IsKept(p) /\ p # 0
      BY PhotoByPhoto DEF ImagesInv, Numbered, ImagesTyped
    <3>2. \A p : ~IsCurrent(p)'
      BY <1>1, <1>3, <2>1 DEF ImagesInv, OfferSound, IsCurrent
    <3>3. \A p : IsCurrent(p) => p = listing.photo
      BY <1>3 DEF ImagesInv, OfferSound, IsCurrent
    <3>4. ASSUME NEW p \in store PROVE IsKept(p)'
      <4>1. CASE IsCurrent(p)  BY <2>1, <3>1, <3>3, <4>1 DEF IsKept
      <4>2. \A f \in Editor : edit[f].pc # "delete" => edit'[f] = edit[f]  BY <1>1, <2>2
      <4>3. CASE ~IsCurrent(p)
        <5>1. IsKept(p)  BY <3>1
        <5>2. QED  BY <1>1, <2>1, <4>2, <4>3, <5>1 DEF IsKept
      <4>4. QED  BY <4>1, <4>3
    <3>5. QED  BY <1>1, <3>2, <3>4, PhotoByPhotoNext
  <2>12. QED  BY <2>3, <2>6, <2>7, <2>8, <2>9, <2>10, <2>11 DEF ImagesInv
<1>4. QED  BY <1>2, <1>3

\* A save that went through, whatever its handler was told: it shows its photo, and the
\* one it replaces is removed or left behind.
LEMMA SaveLands ==
    ASSUME ImagesInv, NEW e \in Editor, edit[e].pc = "save", Saved(e),
           NEW pc \in {"idle", "discard old", "discard new"}, Now(e, pc),
           pc = "discard old" => edit[e].kind = "edit",
           pc = "discard new" => mistaken' = mistaken \cup {edit[e].new},
           pc # "discard new" => mistaken' = mistaken,
           UNCHANGED <<store, uploads, doomed, cleaning>>,
           strays \subseteq strays', Crossed(e) \subseteq strays',
           edit[e].kind = "edit" /\ pc # "discard old" => edit[e].saw \in strays'
    PROVE  ImagesInv'
<1>1. /\ edit' \in [Editor -> UploadType] /\ edit'[e].pc = pc
      /\ edit'[e].new = edit[e].new /\ edit'[e].saw = edit[e].saw /\ edit'[e].kind = edit[e].kind
      /\ \A f \in Editor \ {e} : edit'[f] = edit[f]
  BY NowMoves
<1>2. /\ edit[e].new # 0 /\ edit[e].new # listing.photo /\ edit[e].new \notin doomed
      /\ \A o \in Offer : offer[o].photo # edit[e].new
      /\ \A f \in Editor : edit[f].saw # edit[e].new
      /\ \A f \in Editor \ {e} : edit[f].pc \in {"save", "discard new"} => edit[f].new # edit[e].new
  BY DEF ImagesInv, Fresh, InFlight
<1>3. /\ edit[e].new \in store /\ edit[e].new \in Nat /\ edit[e].new <= uploads
      /\ edit[e].kind = "offer" => listing.linked
      /\ edit[e].kind = "publish" => ~listing.linked /\ listing.status = "awaited"
  BY DEF ImagesInv, Uploaded, Publishing, ImagesTyped, Numbered, UploadType
<1>4. CASE edit[e].kind \in {"publish", "edit"}
  <2>1. /\ offer' = offer /\ listing' \in ListingType /\ listing'.status = "open"
        /\ listing'.photo = edit[e].new /\ listing'.linked = listing.linked
    BY <1>3, <1>4, ItemFields DEF Saved, ListingType
  <2>2. \/ edit[e].kind = "publish" /\ ~listing.linked /\ listing.status = "awaited" /\ listing.photo = 0
        \/ edit[e].kind = "edit" /\ listing.status = "open"
    BY <1>3, <1>4 DEF Saved, ImagesInv, ItemSound
  <2>3. ImagesTyped' /\ Numbered'
    BY <1>1, <1>3, <2>1 DEF ImagesInv, ImagesTyped, Numbered
  <2>4. doomed = {} /\ (\A o \in Offer : offer[o].status # "pending")
    BY <2>2 DEF ImagesInv, ItemSound, OfferSound
  <2>5. ItemSound'  BY <2>1, <2>4 DEF ItemSound
  <2>6. ASSUME NEW f \in Editor PROVE Fresh(f)'
    <3>1. Fresh(f) /\ (InFlight(f)' => InFlight(f) /\ f # e)
      BY <1>1, <1>4 DEF ImagesInv, InFlight
    <3>2. \A g \in Editor : /\ edit'[g].saw = edit[g].saw /\ edit'[g].new = edit[g].new
                            /\ edit'[g].pc \in {"save", "discard new"} => edit[g].pc \in {"save", "discard new"}
      BY <1>1
    <3>3. InFlight(f)' => edit[f].new # edit[e].new  BY <1>2, <3>1 DEF InFlight
    <3>4. QED  BY <2>1, <3>1, <3>2, <3>3 DEF Fresh
  <2>7. ASSUME NEW f \in Editor PROVE Uploaded(f)'
    <3>1. CASE f = e  BY <1>1, <1>2, <2>1, <3>1 DEF Uploaded
    <3>2. CASE f # e
      <4>1. Uploaded(f) /\ edit'[f] = edit[f]  BY <1>1, <3>2 DEF ImagesInv
      <4>2. QED  BY <1>2, <2>1, <4>1 DEF Uploaded
    <3>3. QED  BY <3>1, <3>2
  <2>8. ASSUME NEW f \in Editor PROVE Publishing(f)'
    <3>1. Publishing(f) /\ Publishing(e)  BY DEF ImagesInv
    <3>2. CASE f = e  BY <1>1, <3>1, <3>2 DEF Publishing
    <3>3. CASE f # e
      <4>1. edit'[f] = edit[f]  BY <1>1, <3>3
      <4>2. \A g \in Editor : edit'[g].kind = edit[g].kind /\ (edit'[g].pc # "idle" => edit[g].pc # "idle")
        BY <1>1
      <4>3. QED  BY <2>1, <2>2, <3>1, <3>3, <4>1, <4>2 DEF Publishing
    <3>4. QED  BY <3>2, <3>3
  <2>9. ASSUME NEW o \in Offer PROVE OfferSound(o)'
    <3>1. OfferSound(o)  BY DEF ImagesInv
    <3>2. QED  BY <1>2, <2>1, <2>4, <3>1 DEF OfferSound
  <2>10. PhotosSound'
    <3>1. \A p \in store : IsKept(p)  BY PhotoByPhoto DEF ImagesInv
    <3>2. \A p : IsCurrent(p)' <=> p = edit[e].new  BY <2>1, <2>4 DEF IsCurrent
    <3>3. \A p : IsCurrent(p) => p = listing.photo /\ listing.status = "open"
      BY <2>2, <2>4 DEF IsCurrent
    <3>4. ASSUME NEW p \in store PROVE IsKept(p)'
      <4>1. CASE p = edit[e].new  BY <3>2, <4>1 DEF IsKept
      <4>2. CASE IsCurrent(p)
        <5>1. edit[e].kind = "edit" /\ p = listing.photo  BY <2>2, <3>3, <4>2
        <5>2. p = edit[e].saw \/ p \in strays'  BY <5>1 DEF Crossed
        <5>3. CASE p = edit[e].saw /\ pc = "discard old"  BY <1>1, <5>3 DEF IsKept
        <5>4. QED  BY <5>1, <5>2, <5>3 DEF IsKept
      <4>3. CASE ~IsCurrent(p) /\ p # edit[e].new
        <5>1. IsKept(p)  BY <3>1
        <5>2. \A f \in Editor : f # e => edit'[f] = edit[f]  BY <1>1
        <5>3. QED  BY <2>1, <4>3, <5>1, <5>2 DEF IsKept
      <4>4. QED  BY <4>1, <4>2, <4>3
    <3>5. QED  BY <1>3, <3>2, <3>4, PhotoByPhotoNext
  <2>11. QED  BY <2>3, <2>5, <2>6, <2>7, <2>8, <2>9, <2>10 DEF ImagesInv
<1>5. CASE edit[e].kind = "offer"
  <2>1. PICK o \in Offer : /\ offer[o].status = "none" /\ listing.status = "awaited"
                           /\ offer' = [offer EXCEPT ![o] = [status |-> "pending", photo |-> edit[e].new]]
                           /\ UNCHANGED listing
    BY <1>5 DEF Saved
  <2>2. /\ offer' \in [Offer -> OfferType]
        /\ offer'[o].status = "pending" /\ offer'[o].photo = edit[e].new
        /\ \A x \in Offer \ {o} : offer'[x] = offer[x]
    <3>1. [status |-> "pending", photo |-> edit[e].new] \in OfferType  BY <1>3 DEF OfferType
    <3>2. QED  BY <2>1, <3>1, ItemFields
  <2>3. ImagesTyped'  BY <1>1, <2>1, <2>2 DEF ImagesInv, ImagesTyped
  <2>4. \A x \in Offer : offer'[x].photo <= uploads
    BY <1>3, <2>2 DEF ImagesInv, Numbered
  <2>5. Numbered'  BY <1>1, <2>1, <2>4 DEF ImagesInv, Numbered
  <2>6. ItemSound'  BY <2>1 DEF ImagesInv, ItemSound
  <2>7. ASSUME NEW f \in Editor PROVE Fresh(f)'
    <3>1. Fresh(f) /\ (InFlight(f)' => InFlight(f) /\ f # e)
      BY <1>1, <1>5 DEF ImagesInv, InFlight
    <3>2. \A g \in Editor : /\ edit'[g].saw = edit[g].saw /\ edit'[g].new = edit[g].new
                            /\ edit'[g].pc \in {"save", "discard new"} => edit[g].pc \in {"save", "discard new"}
      BY <1>1
    <3>3. InFlight(f)' => edit[f].new # edit[e].new  BY <1>2, <3>1 DEF InFlight
    <3>4. \A x \in Offer : offer'[x].photo \in {offer[x].photo, edit[e].new}  BY <2>2
    <3>5. QED  BY <2>1, <3>1, <3>2, <3>3, <3>4 DEF Fresh
  <2>8. ASSUME NEW f \in Editor PROVE Uploaded(f)'
    BY <1>1, <1>5, <2>1 DEF ImagesInv, Uploaded
  <2>9. ASSUME NEW f \in Editor PROVE Publishing(f)'
    BY <1>1, <1>5, <2>1 DEF ImagesInv, Publishing
  <2>10. ASSUME NEW x \in Offer PROVE OfferSound(x)'
    <3>1. OfferSound(x)  BY DEF ImagesInv
    <3>2. o \notin cleaning  BY <2>1 DEF ImagesInv, OfferSound
    <3>3. CASE x = o  BY <1>2, <1>3, <1>5, <2>1, <2>2, <3>2, <3>3 DEF OfferSound
    <3>4. CASE x # o  BY <1>2, <2>1, <2>2, <3>1, <3>4 DEF OfferSound
    <3>5. QED  BY <3>3, <3>4
  <2>11. PhotosSound'
    <3>1. /\ \A p \in store : IsKept(p)
          /\ \A p : IsCurrent(p) => p \in store \/ p \in mistaken
      BY PhotoByPhoto DEF ImagesInv
    <3>2. \A p : IsCurrent(p)' <=> IsCurrent(p) \/ p = edit[e].new
      BY <2>1, <2>2 DEF IsCurrent
    <3>3. ASSUME NEW p \in store PROVE IsKept(p)'
      <4>1. IsKept(p)  BY <3>1
      <4>2. CASE IsCurrent(p) \/ p = edit[e].new  BY <3>2, <4>2 DEF IsKept
      <4>3. CASE p # edit[e].new /\ ~IsCurrent(p)
        <5>1. \A f \in Editor : f # e => edit'[f] = edit[f]  BY <1>1
        <5>2. \A x \in cleaning : offer'[x] = offer[x]
          BY <2>1, <2>2, ItemFields DEF ImagesInv, OfferSound
        <5>3. QED  BY <4>1, <4>3, <5>1, <5>2 DEF IsKept
      <4>4. QED  BY <4>2, <4>3
    <3>4. \A p \in mistaken : p \in mistaken'  OBVIOUS
    <3>5. QED  BY <1>3, <3>1, <3>2, <3>3, <3>4, PhotoByPhotoNext
  <2>12. QED  BY <2>3, <2>5, <2>6, <2>7, <2>8, <2>9, <2>10, <2>11 DEF ImagesInv
<1>6. QED  BY <1>4, <1>5 DEF Saved

LEMMA SaveSteps ==
    ASSUME ImagesInv, NEW e \in Editor, Save(e) \/ SaveReportsFailure(e)
    PROVE  ImagesInv'
<1>1. CASE Save(e)
  <2>1. CASE edit[e].kind = "edit"  BY <1>1, <2>1, SaveLands DEF Save
  <2>2. CASE edit[e].kind # "edit"  BY <1>1, <2>2, SaveLands DEF Save
  <2>3. QED  BY <2>1, <2>2
<1>2. CASE SaveReportsFailure(e)
  BY <1>2, SaveLands DEF SaveReportsFailure
<1>3. QED  BY <1>1, <1>2

LEMMA ImagesStep == ImagesInv /\ [ImagesNext]_imagesVars => ImagesInv'
<1> SUFFICES ASSUME ImagesInv, [ImagesNext]_imagesVars PROVE ImagesInv'  OBVIOUS
<1>1. CASE UNCHANGED imagesVars
  <2>1. ImagesTyped' /\ Numbered' /\ ItemSound'
    BY <1>1 DEF imagesVars, ImagesInv, ImagesTyped, Numbered, ItemSound
  <2>2. PhotosSound'
    <3>1. /\ \A p : IsCurrent(p)' <=> IsCurrent(p)
          /\ \A p : IsKept(p)' <=> IsKept(p)
      BY <1>1 DEF imagesVars, IsCurrent, IsKept
    <3>2. UNCHANGED <<store, mistaken>>  BY <1>1 DEF imagesVars
    <3>3. QED  BY <3>1, <3>2, PhotoByPhoto, PhotoByPhotoNext DEF ImagesInv
  <2>3. ASSUME NEW e \in Editor PROVE Fresh(e)' /\ Uploaded(e)' /\ Publishing(e)'
    <3>1. Fresh(e) /\ Uploaded(e) /\ Publishing(e)  BY DEF ImagesInv
    <3>2. QED  BY <1>1, <3>1 DEF imagesVars, Fresh, InFlight, Uploaded, Publishing
  <2>4. \A o \in Offer : OfferSound(o)'
    BY <1>1 DEF imagesVars, ImagesInv, OfferSound
  <2>5. QED  BY <2>1, <2>2, <2>3, <2>4 DEF ImagesInv
<1>2. ASSUME NEW e \in Editor,
             \/ OwnerReads(e) \/ OwnerDeletes(e) \/ Save(e) \/ SaveReportsFailure(e)
             \/ SaveRefused(e) \/ DiscardNew(e) \/ DiscardOld(e) \/ Abandon(e)
             \/ \E kind \in {"publish", "edit", "offer"} : Upload(e, kind)
      PROVE  ImagesInv'
  BY <1>2, UploadSteps, OwnerDeletesSteps, SaveSteps, EditEnds
<1>3. CASE \/ BookItem \/ ReleaseItem \/ DeliverItem \/ ModeratorDeletes
           \/ \E p \in Photo : Destroy(p) \/ ClearItem(p) \/ GiveUp(p)
  BY <1>3, ItemSteps, ItemLeft
<1>4. CASE CloseRequest \/ \E o \in Offer : EndOffer(o) \/ AcceptOffer(o)
  BY <1>4, OfferSteps
<1>5. ASSUME NEW o \in Offer, Wipe(o) \/ ClearOffer(o) \/ CleanupLost(o) PROVE ImagesInv'
  BY <1>5, CleanUpSteps
<1>6. QED  BY <1>1, <1>2, <1>3, <1>4, <1>5 DEF ImagesNext

(* The names that are left of photos that are no longer to be had *)

\* A deleted item names no photo but one whose removal is under way or failed, and so
\* does an ended offer.
NamesSound ==
    /\ listing.status = "closed" => listing.photo = 0
    /\ listing.status = "deleted" => listing.photo \in {0} \cup doomed \cup strays
    /\ \A o \in Offer :
          /\ offer[o].status = "none" => offer[o].photo = 0
          /\ offer[o].status = "ended" => offer[o].photo \in {0} \cup strays \/ o \in cleaning

LEMMA NamesStart == ImagesInit => NamesSound
<1> SUFFICES ASSUME ImagesInit PROVE NamesSound  OBVIOUS
<1>1. listing.status = "awaited" /\ \A o \in Offer : offer[o].photo = 0 /\ offer[o].status = "none"
  BY DEF ImagesInit
<1>2. QED  BY <1>1 DEF NamesSound

\* Steps that name nothing.
LEMMA NamesRest ==
    ASSUME NamesSound, UNCHANGED <<listing, offer, doomed, cleaning>>, strays \subseteq strays'
    PROVE  NamesSound'
BY DEF NamesSound

\* Steps of the item.
LEMMA ItemNames ==
    ASSUME ImagesInv, NamesSound,
           \/ BookItem \/ ReleaseItem \/ DeliverItem \/ ModeratorDeletes
           \/ \E e \in Editor : OwnerDeletes(e)
           \/ \E p \in Photo : ClearItem(p) \/ GiveUp(p)
    PROVE  NamesSound'
<1>1. /\ listing \in ListingType /\ offer \in [Offer -> OfferType]
      /\ \A o \in Offer : offer[o] \in OfferType
  BY ItemFields
<1>2. CASE BookItem \/ ReleaseItem \/ DeliverItem
  <2>1. /\ listing'.status \in {"open", "booked", "delivered"}
        /\ UNCHANGED <<doomed, strays, cleaning>>
    BY <1>2, ItemFields DEF BookItem, ReleaseItem, DeliverItem
  <2>2. ASSUME NEW o \in Offer
        PROVE  /\ offer'[o].photo = offer[o].photo
               /\ offer'[o].status \in {"none", "ended"} => offer'[o].status = offer[o].status
    <3>1. CASE ReleaseItem
      <4>1. offer'[o] = IF offer[o].status = "accepted" THEN [offer[o] EXCEPT !.status = "undone"]
                        ELSE offer[o]
        BY <3>1 DEF ReleaseItem
      <4>2. QED  BY <1>1, <4>1 DEF OfferType
    <3>2. QED  BY <1>2, <3>1 DEF BookItem, DeliverItem
  <2>3. QED  BY <2>1, <2>2 DEF NamesSound
<1>3. CASE ModeratorDeletes \/ \E e \in Editor : OwnerDeletes(e)
  <2>1. CASE UNCHANGED <<listing, offer, doomed, strays, cleaning>>  BY <2>1, NamesRest
  <2>2. CASE /\ listing' = [listing EXCEPT !.status = "deleted"]
             /\ listing.photo \in {0} \cup doomed' \cup strays'
             /\ UNCHANGED <<offer, cleaning>> /\ strays \subseteq strays'
    <3>1. listing'.status = "deleted" /\ listing'.photo = listing.photo  BY <2>2, ItemFields
    <3>2. QED  BY <2>2, <3>1 DEF NamesSound
  <2>3. CASE ModeratorDeletes  BY <2>2, <2>3 DEF ModeratorDeletes
  <2>4. ASSUME NEW e \in Editor, OwnerDeletes(e) PROVE NamesSound'
    <3>1. edit[e].kind = "edit"  BY <2>4 DEF OwnerDeletes, ImagesInv, Uploaded
    <3>2. QED  BY <2>1, <2>2, <2>4, <3>1 DEF OwnerDeletes, Crossed
  <2>5. QED  BY <1>3, <2>3, <2>4
<1>4. ASSUME NEW p \in Photo, ClearItem(p) \/ GiveUp(p) PROVE NamesSound'
  <2>1. CASE GiveUp(p)
    <3>1. doomed' = doomed \ {p} /\ strays' = strays \cup {p} /\ UNCHANGED <<listing, offer, cleaning>>
      BY <2>1 DEF GiveUp
    <3>2. QED  BY <3>1 DEF NamesSound
  <2>2. CASE ClearItem(p)
    <3>1. /\ doomed' = doomed \ {p} /\ UNCHANGED <<offer, strays, cleaning>>
          /\ listing' = IF listing.photo = p THEN [listing EXCEPT !.photo = 0] ELSE listing
      BY <2>2 DEF ClearItem
    <3>2. /\ listing'.status = listing.status
          /\ listing'.photo = IF listing.photo = p THEN 0 ELSE listing.photo
      BY <1>1, <3>1 DEF ListingType
    <3>3. QED  BY <3>1, <3>2 DEF NamesSound
  <2>3. QED  BY <1>4, <2>1, <2>2
<1>5. QED  BY <1>2, <1>3, <1>4

\* Steps of the offers.
LEMMA OfferNames ==
    ASSUME ImagesInv, NamesSound,
           \/ CloseRequest
           \/ \E o \in Offer : EndOffer(o) \/ AcceptOffer(o) \/ ClearOffer(o) \/ CleanupLost(o)
    PROVE  NamesSound'
<1>1. /\ listing \in ListingType /\ offer \in [Offer -> OfferType]
      /\ \A o \in Offer : offer[o] \in OfferType
  BY ItemFields
<1>2. ASSUME NEW os, offer' = Ending(os), cleaning' = cleaning \cup os
      PROVE  \A x \in Offer :
                /\ offer'[x].status = "none" => offer'[x].photo = 0
                /\ offer'[x].status = "ended" => offer'[x].photo \in {0} \cup strays \/ x \in cleaning'
  <2>1. TAKE x \in Offer
  <2>2. offer'[x] = IF x \in os THEN [offer[x] EXCEPT !.status = "ended"] ELSE offer[x]
    BY <1>2 DEF Ending
  <2>3. CASE x \in os  BY <1>1, <1>2, <2>2, <2>3 DEF OfferType
  <2>4. CASE x \notin os  BY <1>2, <2>2, <2>4 DEF NamesSound
  <2>5. QED  BY <2>3, <2>4
<1>3. CASE CloseRequest
  <2>1. /\ listing.status = "awaited" /\ listing' = [listing EXCEPT !.status = "closed"]
        /\ offer' = Ending(Awaiting) /\ cleaning' = cleaning \cup Awaiting /\ UNCHANGED strays
    BY <1>3 DEF CloseRequest
  <2>2. listing'.status = "closed" /\ listing'.photo = 0
    BY <2>1, ItemFields DEF ImagesInv, ItemSound
  <2>3. QED  BY <1>2, <2>1, <2>2 DEF NamesSound
<1>4. ASSUME NEW o \in Offer, EndOffer(o) PROVE NamesSound'
  <2>1. /\ offer' = Ending({o}) /\ cleaning' = cleaning \cup {o}
        /\ UNCHANGED <<listing, doomed, strays>>
    BY <1>4 DEF EndOffer
  <2>2. QED  BY <1>2, <2>1 DEF NamesSound
<1>5. ASSUME NEW o \in Offer, AcceptOffer(o) PROVE NamesSound'
  <2>1. PICK os : os = Awaiting \ {o}  OBVIOUS
  <2>2. /\ listing' = [listing EXCEPT !.status = "booked", !.photo = offer[o].photo]
        /\ offer' = [Ending(os) EXCEPT ![o].status = "accepted"]
        /\ cleaning' = cleaning \cup os /\ UNCHANGED strays
    BY <1>5, <2>1 DEF AcceptOffer
  <2>3. listing'.status = "booked"  BY <1>1, <2>2 DEF ListingType
  <2>4. ASSUME NEW x \in Offer
        PROVE  /\ offer'[x].status = "none" => offer'[x].photo = 0
               /\ offer'[x].status = "ended" => offer'[x].photo \in {0} \cup strays \/ x \in cleaning'
    <3>1. /\ Ending(os)[x] = IF x \in os THEN [offer[x] EXCEPT !.status = "ended"] ELSE offer[x]
          /\ offer'[x] = IF x = o THEN [Ending(os)[x] EXCEPT !.status = "accepted"] ELSE Ending(os)[x]
      BY <2>2 DEF Ending
    <3>2. CASE x = o  BY <1>1, <2>1, <3>1, <3>2 DEF OfferType
    <3>3. CASE x \in os  BY <1>1, <2>1, <2>2, <3>1, <3>3 DEF OfferType
    <3>4. CASE x # o /\ x \notin os  BY <2>2, <3>1, <3>4 DEF NamesSound
    <3>5. QED  BY <3>2, <3>3, <3>4
  <2>5. QED  BY <2>2, <2>3, <2>4 DEF NamesSound
<1>6. ASSUME NEW o \in Offer, ClearOffer(o) \/ CleanupLost(o) PROVE NamesSound'
  <2>1. CASE CleanupLost(o)
    <3>1. /\ cleaning' = cleaning \ {o} /\ strays' = strays \cup {offer[o].photo}
          /\ UNCHANGED <<listing, offer, doomed>>
      BY <2>1 DEF CleanupLost
    <3>2. QED  BY <3>1 DEF NamesSound
  <2>2. CASE ClearOffer(o)
    <3>1. /\ offer' = [offer EXCEPT ![o].photo = 0] /\ cleaning' = cleaning \ {o}
          /\ UNCHANGED <<listing, doomed, strays>>
      BY <2>2 DEF ClearOffer
    <3>2. /\ offer'[o].photo = 0 /\ offer'[o].status = offer[o].status
          /\ \A x \in Offer \ {o} : offer'[x] = offer[x]
      BY <1>1, <3>1 DEF OfferType
    <3>3. QED  BY <3>1, <3>2 DEF NamesSound
  <2>3. QED  BY <1>6, <2>1, <2>2
<1>7. QED  BY <1>3, <1>4, <1>5, <1>6

\* A save names a photo for an item that is open or an offer that is pending.
LEMMA SaveNames ==
    ASSUME ImagesInv, NamesSound, NEW e \in Editor, Save(e) \/ SaveReportsFailure(e)
    PROVE  NamesSound'
<1>1. /\ Saved(e) /\ UNCHANGED <<doomed, cleaning>> /\ strays \subseteq strays'
      /\ edit[e].new \in Nat
  BY DEF Save, SaveReportsFailure, ImagesInv, ImagesTyped, UploadType
<1>2. CASE UNCHANGED offer /\ listing'.status = "open"  BY <1>1, <1>2 DEF NamesSound
<1>3. ASSUME NEW o \in Offer, UNCHANGED listing,
             offer' = [offer EXCEPT ![o] = [status |-> "pending", photo |-> edit[e].new]]
      PROVE  NamesSound'
  <2>1. offer'[o].status = "pending" /\ \A x \in Offer \ {o} : offer'[x] = offer[x]
    BY <1>3, ItemFields
  <2>2. QED  BY <1>1, <1>3, <2>1 DEF NamesSound
<1>4. \/ UNCHANGED offer /\ listing'.status = "open"
      \/ \E o \in Offer :
            /\ UNCHANGED listing
            /\ offer' = [offer EXCEPT ![o] = [status |-> "pending", photo |-> edit[e].new]]
  BY <1>1, ItemFields DEF Saved, ListingType
<1>5. QED  BY <1>2, <1>3, <1>4

LEMMA NamesStep == ImagesInv /\ NamesSound /\ [ImagesNext]_imagesVars => NamesSound'
<1> SUFFICES ASSUME ImagesInv, NamesSound, [ImagesNext]_imagesVars PROVE NamesSound'  OBVIOUS
<1>1. CASE UNCHANGED imagesVars  BY <1>1, NamesRest DEF imagesVars
<1>2. ASSUME NEW e \in Editor,
             \/ OwnerReads(e) \/ SaveRefused(e) \/ DiscardNew(e) \/ DiscardOld(e) \/ Abandon(e)
             \/ \E kind \in {"publish", "edit", "offer"} : Upload(e, kind)
      PROVE  NamesSound'
  BY <1>2, NamesRest DEF OwnerReads, SaveRefused, DiscardNew, DiscardOld, Abandon, Upload
<1>3. ASSUME NEW e \in Editor, Save(e) \/ SaveReportsFailure(e) \/ OwnerDeletes(e)
      PROVE  NamesSound'
  BY <1>3, SaveNames, ItemNames
<1>4. ASSUME NEW p \in Photo, Destroy(p) PROVE NamesSound'  BY <1>4, NamesRest DEF Destroy
<1>5. ASSUME NEW o \in Offer, Wipe(o) PROVE NamesSound'  BY <1>5, NamesRest DEF Wipe
<1>6. QED  BY <1>1, <1>2, <1>3, <1>4, <1>5, ItemNames, OfferNames DEF ImagesNext

LEMMA NamedAreStored == ImagesInv /\ NamesSound => ShownIsStored
<1> SUFFICES ASSUME ImagesInv, NamesSound, NEW p \in Shown
             PROVE  p \in store \cup mistaken \cup doomed \cup PhotosOf(cleaning) \cup strays
                             \cup LeftBehind
  BY DEF ShownIsStored
<1>1. listing \in ListingType /\ \A o \in Offer : offer[o] \in OfferType  BY ItemFields
<1>2. p # 0 /\ (p = listing.photo \/ \E o \in Offer : p = offer[o].photo)  BY DEF Shown, PhotosOf
<1>3. Current \subseteq store \cup mistaken  BY DEF ImagesInv, PhotosSound, CurrentIsStored
<1>4. CASE p = listing.photo
  <2>1. CASE listing.status \in {"open", "booked", "delivered"}  BY <1>3, <1>4, <2>1 DEF Current
  <2>2. CASE listing.status \in {"awaited", "closed", "deleted"}
    BY <1>2, <1>4, <2>2 DEF NamesSound, ImagesInv, ItemSound
  <2>3. QED  BY <1>1, <2>1, <2>2 DEF ListingType
<1>5. ASSUME NEW o \in Offer, p = offer[o].photo, p # listing.photo
      PROVE  p \in store \cup mistaken \cup PhotosOf(cleaning) \cup strays \cup LeftBehind
  <2>1. CASE offer[o].status = "pending"  BY <1>3, <1>5, <2>1 DEF Current, Awaiting, PhotosOf
  <2>2. CASE offer[o].status \in {"none", "ended"}
    BY <1>2, <1>5, <2>2 DEF NamesSound, PhotosOf
  <2>3. CASE offer[o].status \in {"accepted", "undone"}  BY <1>5, <2>3 DEF LeftBehind, PhotosOf
  <2>4. QED  BY <1>1, <2>1, <2>2, <2>3 DEF OfferType
<1>6. QED  BY <1>2, <1>4, <1>5

\* Photos and the documents that name them agree, although no transaction covers both:
\* no photo of an item or an offer that is still to be had is removed, no other that is
\* shown is missing and none is left behind, but for the failures and for the accepted
\* offer that ImagesSound names (createItemLogic, updateItemLogic, cleanupOfferImages).
THEOREM PhotosStaySound == ImagesSpec => []ImagesSound
<1>1. ImagesInv /\ NamesSound => ImagesSound
  BY NamedAreStored DEF ImagesInv, PhotosSound, ImagesSound
<1>2. QED  BY <1>1, ImagesStart, ImagesStep, NamesStart, NamesStep, PTL DEF ImagesSpec
=============================================================================
