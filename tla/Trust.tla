-------------------------------- MODULE Trust --------------------------------
(***************************************************************************)
(* The trust level of one account, and what gives grounds for it: its       *)
(* student address, its phone, the registration policy, an administrator.   *)
(* Registration and login (services/authService.ts), phone verification     *)
(* (services/phoneService.ts, utils/trustPolicy.ts) and the profile read    *)
(* the account and write a level back; an administrator's decision          *)
(* (services/adminService.ts) is to stand until the next one.               *)
(*                                                                          *)
(* Administrators may edit universityEmailDomains and                       *)
(* studentDefaultTrustLevel while requests are under way, and every request *)
(* sees them through a cache of its own process: so each may see any value. *)
(***************************************************************************)
EXTENDS Naturals

CONSTANTS Call  \* requests under way: login, registration, profile

VARIABLES
    rules,     \* the environment of the deployment: see Rules
    account,   \* the user document
    call,      \* the requests, with the account they read
    crossed,   \* history: a new phone was stored over an account that had changed since it was read
    struck     \* history: a registration took the student mark off and kept the second level

lapses    == <<crossed, struck>>
trustVars == <<rules, account, call, lapses>>

Level    == {1, 2}
Override == {0} \cup Level      \* 0: no administrative decision

\* NEW_USER_DEFAULT_TRUST_LEVEL_2 and PHONE_VERIFICATION_PROMOTES_TRUST.
Rules == [newAtLevel2 : BOOLEAN, phonePromotes : BOOLEAN]

\* The settings a request sees: whether the address is a university's, and
\* studentDefaultTrustLevel.
Policy == [university : BOOLEAN, studentLevel : Level]

Account == [level : Level, override : Override, verified : BOOLEAN, student : BOOLEAN,
            phone : BOOLEAN, approved : BOOLEAN, policy : BOOLEAN]

Bigger(x, y) == IF x > y THEN x ELSE y

\* registerLogic of a new account.
NewLevel(p) == IF rules.newAtLevel2 THEN 2 ELSE IF p.university THEN p.studentLevel ELSE 1

TrustInit ==
    /\ rules \in Rules
    /\ \E p \in Policy :
         account = [level |-> NewLevel(p), override |-> 0, verified |-> FALSE, student |-> p.university,
                    phone |-> FALSE, approved |-> FALSE, policy |-> rules.newAtLevel2]
    /\ call = [c \in Call |-> [pc |-> "idle", saw |-> account]]
    /\ crossed = FALSE /\ struck = FALSE

-----------------------------------------------------------------------------
(* Automatic writes: one read, one update *)

Read(c, pc) ==
    /\ call[c].pc = "idle"
    /\ call' = [call EXCEPT ![c] = [pc |-> pc, saw |-> account]]
    /\ UNCHANGED <<rules, account, lapses>>

Ended(c) == [call EXCEPT ![c].pc = "idle", ![c].saw = account']

\* Mutant: the level that was computed is written whatever the document says now.
LevelComputed(level) == level

\* automaticTrustFields: the update itself looks at trustLevelOverride.
AutomaticLevel(level) == IF account.override = 0 THEN level ELSE account.override

\* _upgradeStudentTrust on the account that was read.
Upgraded(saw, p) ==
    IF ~p.university THEN saw
    ELSE [saw EXCEPT !.student = TRUE,
                     !.level = IF saw.override # 0 THEN saw.override ELSE Bigger(@, p.studentLevel)]

\* An unfinished registration is made again, under the settings of now: the student
\* mark is set to what they say and the level never goes down.  A new code replaces
\* the one that was sent.
Reregister(c) ==
    /\ call[c].pc = "register"
    /\ \E p \in Policy :
         /\ account' = [account EXCEPT !.student = p.university,
                          !.level = AutomaticLevel(IF p.university
                                                   THEN Bigger(call[c].saw.level, p.studentLevel)
                                                   ELSE call[c].saw.level)]
         /\ struck' = (struck \/ (call[c].saw.student /\ ~p.university /\ account'.level = 2))
    /\ call' = [d \in Call |-> IF call[d].pc = "verify" THEN [call[d] EXCEPT !.pc = "outdated"]
                                                        ELSE Ended(c)[d]]
    /\ UNCHANGED <<rules, crossed>>

\* atomicVerifyAndComplete: only while the code is still the one.
VerifyEmail(c) ==
    /\ call[c].pc \in {"verify", "outdated"}
    /\ \/ (account.verified \/ call[c].pc = "outdated") /\ UNCHANGED account
       \/ /\ ~account.verified /\ call[c].pc = "verify"
          /\ \E p \in Policy :
               LET up == Upgraded(call[c].saw, p)
               IN  account' = [account EXCEPT !.verified = TRUE, !.student = up.student,
                                              !.level = AutomaticLevel(up.level)]
    /\ call' = Ended(c)
    /\ UNCHANGED <<rules, lapses>>

\* A login writes only when it has something to change: the level, the student mark,
\* or the quota of a student, which is not kept here.
Login(c) ==
    /\ call[c].pc = "login"
    /\ \E p \in Policy :
         LET saw == call[c].saw
             up  == Upgraded(saw, p)
         IN  \/ up = saw /\ UNCHANGED account
             \/ /\ up # saw \/ (p.university /\ saw.override = 0)
                /\ account' = [account EXCEPT !.student = up.student, !.level = AutomaticLevel(up.level)]
    /\ call' = Ended(c)
    /\ UNCHANGED <<rules, lapses>>

\* Mutant: a new number takes nothing back.
KeepsLevel(saw) == FALSE

PhoneOnly(saw) == saw.phone /\ saw.level = 2 /\ ~saw.student /\ ~saw.approved /\ ~saw.policy

\* updateMe with another phone number.
ChangePhone(c) ==
    /\ call[c].pc = "profile"
    /\ account' = [account EXCEPT !.phone = FALSE,
                     !.level = IF PhoneOnly(call[c].saw) THEN AutomaticLevel(1) ELSE @]
    /\ crossed' = (crossed \/ (account.phone /\ call[c].saw # account))
    /\ call' = Ended(c)
    /\ UNCHANGED <<rules, struck>>

\* verifyPhoneWithFirebase, one transaction: deriveTrustLevel of what is there.
Derived ==
    IF account.override # 0 THEN account.override
    ELSE IF account.student \/ account.approved \/ account.policy \/ rules.phonePromotes
         THEN 2 ELSE 1

VerifyPhone ==
    /\ account.verified
    /\ account' = [account EXCEPT !.phone = TRUE, !.level = Derived]
    /\ UNCHANGED <<rules, call, lapses>>

-----------------------------------------------------------------------------
(* Administrators: one transaction each *)

Decided(level) ==
    account' = [account EXCEPT !.level = level, !.override = level,
                               !.approved = (level = 2), !.policy = FALSE]

Promote == account.level = 1 /\ Decided(2) /\ UNCHANGED <<rules, call, lapses>>

Demote == account.level # 1 /\ Decided(1) /\ UNCHANGED <<rules, call, lapses>>

TrustNext ==
    \/ VerifyPhone \/ Promote \/ Demote
    \/ \E c \in Call :
         \/ ~account.verified /\ (Read(c, "register") \/ Read(c, "verify"))
         \/ account.verified /\ (Read(c, "login") \/ Read(c, "profile"))
         \/ Reregister(c) \/ VerifyEmail(c) \/ Login(c) \/ ChangePhone(c)

TrustSpec == TrustInit /\ [][TrustNext]_trustVars

-----------------------------------------------------------------------------
(* Properties *)

TrustTypeOK ==
    /\ rules \in Rules /\ account \in Account /\ {crossed, struck} \subseteq BOOLEAN
    /\ call \in [Call -> [pc : {"idle", "register", "verify", "outdated", "login", "profile"}, saw : Account]]

\* An administrator's decision stands: no login, registration, profile change or
\* verification that read the account before it undoes it.
DecisionStands == account.override # 0 => account.level = account.override

\* The second level has grounds that hold now: a decision, the registration policy,
\* a student address, or a verified phone where that is enough.  Two things leave a
\* level without grounds: a new phone stored over an account that had changed since it
\* was read, and a registration made again after the settings stopped counting the
\* address as a student's, which takes the mark and keeps the level it gave.
LevelHasGrounds ==
    account.level = 2 =>
        \/ account.override = 2 \/ account.policy \/ crossed \/ struck
        \/ account.student \/ (account.phone /\ rules.phonePromotes)
=============================================================================
