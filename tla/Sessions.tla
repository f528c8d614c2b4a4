------------------------------ MODULE Sessions ------------------------------
(***************************************************************************)
(* Registration, e-mail verification, login, token refresh and the ends of *)
(* a session: services/authService.ts over repositories/userRepository.ts,  *)
(* with the refresh cookie of controllers/authController.ts.                *)
(*                                                                          *)
(* Every request concerns one account, so the module is about one account.  *)
(* A handler is a read of the user document followed by atomic updates of   *)
(* it, and other handlers may run in between.  A session is named by the    *)
(* sessionVersion it began with, a refresh token by its place in `tokens',  *)
(* an e-mailed code by its place in `guesses'.  Password hashes are left    *)
(* out: a login that reads is one whose password matched.  isFrozen, which  *)
(* no handler sets, acts like isBanned; isVerified is never unset, so the   *)
(* refusals that wait for either alone are not repeated here.               *)
(***************************************************************************)
EXTENDS Naturals, Sequences, FiniteSets

CONSTANTS
    Request,        \* requests in progress
    MaxAttempts,    \* SystemSettings.maxOtpAttempts
    MaxVersion, MaxTokens, MaxCodes   \* bounds of the model only

ASSUME SessionsAssumption ==
    /\ MaxAttempts \in Nat \ {0}
    /\ MaxVersion \in Nat /\ MaxTokens \in Nat /\ MaxCodes \in Nat

VARIABLES
    account,    \* the user document
    tokens,     \* the session of every refresh token handed out
    guesses,    \* how many guesses were compared with every code sent
    outworn,    \* tokens whose grace period ended
    op,         \* what every request is doing
    cookie,     \* the refresh cookie of one browser, 0 when it has none
    granted     \* the session of the latest access token handed out

sessionVars == <<account, tokens, guesses, outworn, op, cookie, granted>>

\* What a request does next.
Stage == {"idle", "register", "reissue", "matched", "checked", "begun", "rotate", "lost",
          "reused", "change", "forgot", "set cookie", "clear cookie", "clear blocked"}

Idle == [pc |-> "idle", arg |-> 0, session |-> 0]

Account ==
    [stage: {"none", "pending", "verified"}, banned: BOOLEAN, version: Nat,
     refresh: Nat, previous: Nat, grace: BOOLEAN,
     code: Nat, age: {"none", "cooling", "live", "lapsed"}, tries: Nat,
     link: BOOLEAN]

Blank ==
    [stage |-> "none", banned |-> FALSE, version |-> 0,
     refresh |-> 0, previous |-> 0, grace |-> FALSE,
     code |-> 0, age |-> "none", tries |-> 0, link |-> FALSE]

SessionsInit ==
    /\ account \in {Blank, [Blank EXCEPT !.stage = "verified"]}
    /\ tokens = <<>> /\ guesses = <<>> /\ outworn = {}
    /\ op = [r \in Request |-> Idle]
    /\ cookie = 0 /\ granted = 0

Become(r, pc, arg, session) ==
    op' = [op EXCEPT ![r] = [pc |-> pc, arg |-> arg, session |-> session]]

Done(r) == op' = [op EXCEPT ![r] = Idle]

\* A request that only reads, or is refused.
Quiet == UNCHANGED <<account, tokens, guesses, outworn, cookie, granted>>

-----------------------------------------------------------------------------
(* What the updates do to the user document *)

\* $inc sessionVersion, $unset of the three token fields: every session ends.
Bumped(a) == [a EXCEPT !.version = @ + 1, !.refresh = 0, !.previous = 0, !.grace = FALSE]

\* Mutant: a new session leaves the tokens of the one before in place.
BumpedOnly(a) == [a EXCEPT !.version = @ + 1]

EndSessions(a) == Bumped(a)

CanBump == account.version < MaxVersion

Issued(a) ==
    [a EXCEPT !.code = Len(guesses) + 1, !.age = "cooling", !.tries = 0]

-----------------------------------------------------------------------------
(* Registration and the e-mailed code *)

RegisterRead(r) ==
    /\ op[r].pc = "idle" /\ account.stage # "verified"
    /\ Become(r, IF account.stage = "none" THEN "register" ELSE "reissue", 0, 0)
    /\ Quiet

\* The user and the first code in one transaction; the unique index on email
\* refuses a second user.
Register(r) ==
    /\ op[r].pc = "register" /\ Len(guesses) < MaxCodes
    /\ Done(r)
    /\ IF account.stage = "none"
       THEN /\ account' = Issued([account EXCEPT !.stage = "pending"])
            /\ guesses' = Append(guesses, 0)
       ELSE UNCHANGED <<account, guesses>>
    /\ UNCHANGED <<tokens, outworn, cookie, granted>>

\* The minute after a code was sent no other is.
ResendRead(r) ==
    /\ op[r].pc = "idle" /\ account.stage = "pending"
    /\ ~account.banned /\ account.age # "cooling"
    /\ Become(r, "reissue", 0, 0)
    /\ Quiet

\* A login of an account that is not verified sends a code, unless one was just
\* sent or its attempts are used up.
LoginUnverified(r) ==
    /\ op[r].pc = "idle" /\ account.stage = "pending"
    /\ ~account.banned /\ account.age # "cooling" /\ account.tries < MaxAttempts
    /\ Become(r, "reissue", 0, 0)
    /\ Quiet

\* _issueVerificationOtp: unconditional, so the account may be verified by now.
Reissue(r) ==
    /\ op[r].pc = "reissue" /\ Len(guesses) < MaxCodes
    /\ account' = Issued(account)
    /\ guesses' = Append(guesses, 0)
    /\ Done(r)
    /\ UNCHANGED <<tokens, outworn, cookie, granted>>

\* Mutant: the attempts are read, and written one too many.
MayGuessOnceMore == account.stage = "pending" /\ account.tries <= MaxAttempts

MayGuess == account.stage = "pending" /\ account.tries < MaxAttempts

\* findAndIncrementOtpAttempts counts the attempt and returns the code it is
\* counted against in one update.
Submit(r, right) ==
    /\ op[r].pc = "idle" /\ MayGuess
    /\ account' = [account EXCEPT !.tries = @ + 1]
    /\ guesses' = [guesses EXCEPT ![account.code] = @ + 1]
    /\ IF right /\ account.age # "lapsed"
       THEN Become(r, "matched", account.code, 0)
       ELSE Done(r)
    /\ UNCHANGED <<tokens, outworn, cookie, granted>>

\* Mutant: the update that verifies does not name the code.
StillTheCodeAny(r) == TRUE

StillTheCode(r) == account.code = op[r].arg

\* atomicVerifyAndComplete: the first of two right guesses begins the session.
Complete(r) ==
    /\ op[r].pc = "matched" /\ CanBump
    /\ IF StillTheCode(r)
       THEN /\ account' = [EndSessions(account) EXCEPT
                             !.stage = "verified", !.code = 0, !.age = "none", !.tries = 0]
            /\ Become(r, "begun", 0, account.version + 1)
       ELSE Done(r) /\ UNCHANGED account
    /\ UNCHANGED <<tokens, guesses, outworn, cookie, granted>>

-----------------------------------------------------------------------------
(* Login *)

LoginRead(r) ==
    /\ op[r].pc = "idle" /\ account.stage = "verified" /\ ~account.banned
    /\ Become(r, "checked", 0, 0)
    /\ Quiet

\* beginUserSession is unconditional: the account may be banned by now.
Begin(r) ==
    /\ op[r].pc = "checked" /\ CanBump
    /\ account' = EndSessions(account)
    /\ Become(r, "begun", 0, account.version + 1)
    /\ UNCHANGED <<tokens, guesses, outworn, cookie, granted>>

\* Mutant: the token is stored whatever began meanwhile.
StillTheSessionAny(r) == TRUE

StillTheSession(r) == account.version = op[r].session

\* storeRefreshToken, then the tokens are handed out; of a session that another
\* one replaced no token ever leaves.
Store(r) ==
    /\ op[r].pc = "begun" /\ Len(tokens) < MaxTokens
    /\ IF StillTheSession(r)
       THEN /\ tokens' = Append(tokens, op[r].session)
            /\ account' = [account EXCEPT !.refresh = Len(tokens')]
            /\ granted' = op[r].session
            /\ Become(r, "set cookie", Len(tokens'), op[r].session)
       ELSE Done(r) /\ UNCHANGED <<account, tokens, granted>>
    /\ UNCHANGED <<guesses, outworn, cookie>>

-----------------------------------------------------------------------------
(* Refresh *)

InGrace(t) == account.previous = t /\ account.grace

\* The token is of another session, or the account is banned.
RefreshRefused(r, t) ==
    /\ op[r].pc = "idle"
    /\ \/ tokens[t] # account.version /\ Become(r, "clear cookie", t, tokens[t])
       \/ /\ tokens[t] = account.version /\ account.banned
          /\ Become(r, "clear blocked", t, tokens[t])
    /\ Quiet

Acceptable(t) == tokens[t] = account.version /\ ~account.banned

RefreshCurrent(r, t) ==
    /\ op[r].pc = "idle" /\ Acceptable(t) /\ account.refresh = t
    /\ Become(r, "rotate", t, tokens[t])
    /\ Quiet

\* Another tab rotated the token a moment ago: an access token, and the cookie
\* the other tab received is left alone.
RefreshRecovered(r, t) ==
    /\ op[r].pc = "idle" /\ Acceptable(t) /\ account.refresh # t /\ InGrace(t)
    /\ granted' = tokens[t]
    /\ UNCHANGED <<account, tokens, guesses, outworn, op, cookie>>

RefreshReused(r, t) ==
    /\ op[r].pc = "idle" /\ Acceptable(t) /\ account.refresh # t /\ ~InGrace(t)
    /\ Become(r, "reused", t, tokens[t])
    /\ Quiet

\* TOKEN_REUSE_DETECTED ends whatever session is live by now.
EndForReuse(r) ==
    /\ op[r].pc = "reused" /\ CanBump
    /\ account' = EndSessions(account)
    /\ Become(r, "clear cookie", op[r].arg, op[r].session)
    /\ UNCHANGED <<tokens, guesses, outworn, cookie, granted>>

\* Mutant: the token that was replaced is forgotten.
RotatedForgetting(a, t) == [a EXCEPT !.refresh = Len(tokens) + 1]

Rotated(a, t) ==
    [a EXCEPT !.refresh = Len(tokens) + 1, !.previous = t, !.grace = TRUE]

\* rotateRefreshToken, conditional on the token and the session that were read.
Rotate(r) ==
    /\ op[r].pc = "rotate" /\ Len(tokens) < MaxTokens
    /\ IF account.version = op[r].session /\ account.refresh = op[r].arg
       THEN /\ account' = Rotated(account, op[r].arg)
            /\ tokens' = Append(tokens, op[r].session)
            /\ granted' = op[r].session
            /\ outworn' = IF account.grace THEN outworn \cup {account.previous} ELSE outworn
            /\ Become(r, "set cookie", Len(tokens'), op[r].session)
       ELSE Become(r, "lost", op[r].arg, op[r].session)
            /\ UNCHANGED <<account, tokens, granted, outworn>>
    /\ UNCHANGED <<guesses, cookie>>

\* ROTATION_CONFLICT, clearCookie false.
Conflict(r) == Done(r)

\* The rotation was lost to another request: read again.
Reread(r) ==
    /\ op[r].pc = "lost"
    /\ IF account.version = op[r].session /\ InGrace(op[r].arg)
       THEN Done(r) /\ granted' = account.version
       ELSE Conflict(r) /\ UNCHANGED granted
    /\ UNCHANGED <<account, tokens, guesses, outworn, cookie>>

-----------------------------------------------------------------------------
(* The ends of a session *)

Logout(r) ==
    /\ op[r].pc = "idle" /\ granted # 0 /\ CanBump
    /\ account' = EndSessions(account)
    /\ Become(r, "clear cookie", 0, account.version)
    /\ UNCHANGED <<tokens, guesses, outworn, cookie, granted>>

\* updatePasswordLogic compares the old password, then hashes the new one.
ChangeRead(r) ==
    /\ op[r].pc = "idle" /\ granted # 0 /\ account.stage = "verified"
    /\ Become(r, "change", 0, account.version)
    /\ Quiet

ChangePassword(r) ==
    /\ op[r].pc = "change" /\ CanBump
    /\ account' = EndSessions(account)
    /\ Become(r, "clear cookie", 0, op[r].session)
    /\ UNCHANGED <<tokens, guesses, outworn, cookie, granted>>

ForgotRead(r) ==
    /\ op[r].pc = "idle" /\ account.stage = "verified" /\ ~account.banned
    /\ Become(r, "forgot", 0, 0)
    /\ Quiet

\* A new link replaces the one before.
Forgot(r) ==
    /\ op[r].pc = "forgot"
    /\ account' = [account EXCEPT !.link = TRUE]
    /\ Done(r)
    /\ UNCHANGED <<tokens, guesses, outworn, cookie, granted>>

\* consumeResetToken: one update checks the link, uses it up and ends the sessions.
ResetPassword ==
    /\ account.link /\ CanBump
    /\ account' = [EndSessions(account) EXCEPT !.link = FALSE]
    /\ UNCHANGED <<tokens, guesses, outworn, op, cookie, granted>>

\* A ban, manual or automatic, ends the sessions in its transaction.
Ban ==
    /\ account.stage # "none" /\ ~account.banned /\ CanBump
    /\ account' = [EndSessions(account) EXCEPT !.banned = TRUE]
    /\ UNCHANGED <<tokens, guesses, outworn, op, cookie, granted>>

Unban ==
    /\ account.banned
    /\ account' = [account EXCEPT !.banned = FALSE]
    /\ UNCHANGED <<tokens, guesses, outworn, op, cookie, granted>>

-----------------------------------------------------------------------------
(* Answers reach the browser in any order, or not at all; time passes *)

SetCookie(r) ==
    /\ op[r].pc = "set cookie"
    /\ cookie' = op[r].arg /\ Done(r)
    /\ UNCHANGED <<account, tokens, guesses, outworn, granted>>

ClearCookie(r) ==
    /\ op[r].pc \in {"clear cookie", "clear blocked"}
    /\ cookie' = 0 /\ Done(r)
    /\ UNCHANGED <<account, tokens, guesses, outworn, granted>>

\* The process dies with the request, or its answer is lost.
Vanish(r) == op[r].pc # "idle" /\ Done(r) /\ Quiet

GraceEnds ==
    /\ account.grace
    /\ account' = [account EXCEPT !.grace = FALSE]
    /\ outworn' = outworn \cup {account.previous}
    /\ UNCHANGED <<tokens, guesses, op, cookie, granted>>

CodeAges ==
    /\ account.age \in {"cooling", "live"}
    /\ account' = [account EXCEPT !.age = IF @ = "cooling" THEN "live" ELSE "lapsed"]
    /\ UNCHANGED <<tokens, guesses, outworn, op, cookie, granted>>

LinkLapses ==
    /\ account.link
    /\ account' = [account EXCEPT !.link = FALSE]
    /\ UNCHANGED <<tokens, guesses, outworn, op, cookie, granted>>

Time == GraceEnds \/ CodeAges \/ LinkLapses

\* Any token that was handed out may be presented, by a tab or another device.
Refresh(r) ==
    \E t \in DOMAIN tokens : \/ RefreshRefused(r, t)
                             \/ RefreshCurrent(r, t)
                             \/ RefreshRecovered(r, t)
                             \/ RefreshReused(r, t)

Handler(r) ==
    \/ RegisterRead(r) \/ Register(r) \/ ResendRead(r) \/ LoginUnverified(r)
    \/ Reissue(r) \/ (\E right \in BOOLEAN : Submit(r, right)) \/ Complete(r)
    \/ LoginRead(r) \/ Begin(r) \/ Store(r)
    \/ Refresh(r) \/ EndForReuse(r) \/ Rotate(r) \/ Reread(r)
    \/ Logout(r) \/ ChangeRead(r) \/ ChangePassword(r) \/ ForgotRead(r) \/ Forgot(r)
    \/ SetCookie(r) \/ ClearCookie(r) \/ Vanish(r)

SessionsNext == (\E r \in Request : Handler(r)) \/ ResetPassword \/ Ban \/ Unban \/ Time

SessionsSpec == SessionsInit /\ [][SessionsNext]_sessionVars

-----------------------------------------------------------------------------
(* Properties *)

\* The document and the requests keep their types, and only names tokens and
\* codes that exist.
SessionsTypeOK ==
    /\ account \in Account
    /\ tokens \in Seq(Nat) /\ guesses \in Seq(Nat)
    /\ outworn \subseteq DOMAIN tokens
    /\ op \in [Request -> [pc: Stage, arg: Nat, session: Nat]]
    /\ cookie \in Nat /\ granted \in Nat

\* The refresh token that is stored, and the one kept for the grace period, are
\* of the current session, whichever logins, password changes, bans and
\* rotations overlapped (storeRefreshToken, rotateRefreshToken).
TokensAreCurrent ==
    \A t \in {account.refresh, account.previous} \ {0} :
        t \in DOMAIN tokens /\ tokens[t] = account.version

\* However many submissions, resends, registrations and logins overlap, no code
\* is compared with more guesses than maxOtpAttempts (verifyEmailLogic).
GuessesBounded == \A c \in DOMAIN guesses : guesses[c] <= MaxAttempts

\* An account is verified with the last code sent and with none that a resend
\* replaced between the comparison and the update (atomicVerifyAndComplete).
OnlyTheLastCodeVerifies ==
    [][account.stage = "pending" /\ account'.stage = "verified"
       => \E r \in Request : /\ op[r].pc = "matched"
                             /\ op[r].arg = Len(guesses)]_sessionVars

\* Tabs that race for one rotation cost each other nothing.  A token is taken for a
\* stolen one only when its grace period is over, because of time or of a second
\* rotation, or its session was over anyway; and a cookie is cleared on behalf of its
\* own session only when that session is over or the account was blocked
\* (refreshLogic, refreshAccessToken).
RacersAreNotThieves ==
    [][\A r \in Request :
         /\ op[r].pc # "reused" /\ op'[r].pc = "reused" =>
               op'[r].arg \in outworn \/ op'[r].session # account.version
         /\ op[r].pc = "clear cookie" /\ cookie # 0 /\ cookie' = 0
               /\ op[r].session = tokens[cookie] /\ op'[r].pc = "idle" =>
               tokens[cookie] # account.version]_sessionVars

\* The tokens, rotations and races above implement one session at a time.
LiveSession == IF account.refresh = 0 THEN 0 ELSE tokens[account.refresh]

OneSession == INSTANCE OneSession WITH
    Session <- 1 .. MaxVersion, NoSession <- 0, live <- LiveSession,
    ended <- {tokens[t] : t \in DOMAIN tokens} \ {LiveSession}, granted <- granted

ImplementsOneSession == OneSession!Spec
=============================================================================
