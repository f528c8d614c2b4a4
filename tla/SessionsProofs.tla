--------------------------- MODULE SessionsProofs ---------------------------
(***************************************************************************)
(* For any number of requests and any maxOtpAttempts: whatever logins,      *)
(* refreshes, password changes and bans overlap, the tokens that are stored *)
(* are those of the current session, no code meets more guesses than        *)
(* allowed, and the sessions implement OneSession.                          *)
(***************************************************************************)
EXTENDS Sessions, TLAPS

\* The code that is in force was compared with no more guesses than were counted.
CodeCounted ==
    account.code # 0 =>
        account.code \in DOMAIN guesses /\ guesses[account.code] <= account.tries

\* Tokens are of sessions that began.
TokensOrdered ==
    /\ account.version <= MaxVersion
    /\ \A t \in DOMAIN tokens : tokens[t] \in 1 .. account.version

GraceHasBoth == account.grace => account.refresh # 0 /\ account.previous # 0

\* A request that presented a token names one that exists; a session that begins
\* has no token yet.
Sound(r) ==
    /\ op[r].pc \in {"rotate", "lost", "reused"} => op[r].arg \in DOMAIN tokens
    /\ op[r].pc = "begun" =>
          /\ op[r].session \in 1 .. account.version
          /\ \A t \in DOMAIN tokens : tokens[t] # op[r].session

\* No session is begun by two requests.
Apart(r, s) ==
    op[r].pc = "begun" /\ op[s].pc = "begun" => op[r].session # op[s].session

IInv ==
    /\ SessionsTypeOK /\ TokensAreCurrent /\ GuessesBounded
    /\ CodeCounted /\ TokensOrdered /\ GraceHasBoth
    /\ \A r \in Request : Sound(r)
    /\ \A r, s \in Request : r # s => Apart(r, s)

LEMMA Limits == MaxAttempts \in Nat \ {0} /\ MaxVersion \in Nat
BY SessionsAssumption

(* What the updates make of a document *)

LEMMA CodeFields ==
    ASSUME NEW a \in Account, NEW n \in Nat
    PROVE  [a EXCEPT !.code = n, !.age = "cooling", !.tries = 0] \in Account
BY DEF Account

LEMMA SessionFields ==
    ASSUME NEW a \in Account, NEW v \in Nat
    PROVE  [a EXCEPT !.version = v, !.refresh = 0, !.previous = 0, !.grace = FALSE] \in Account
<1>1. PICK b \in Account : b = [a EXCEPT !.version = v]  BY DEF Account
<1>2. PICK c \in Account : c = [b EXCEPT !.refresh = 0]  BY DEF Account
<1>3. PICK d \in Account : d = [c EXCEPT !.previous = 0]  BY DEF Account
<1>4. [d EXCEPT !.grace = FALSE] \in Account  BY DEF Account
<1>5. [a EXCEPT !.version = v, !.refresh = 0, !.previous = 0, !.grace = FALSE]
      = [[[[a EXCEPT !.version = v] EXCEPT !.refresh = 0] EXCEPT !.previous = 0]
            EXCEPT !.grace = FALSE]
  BY Zenon
<1>6. QED  BY <1>1, <1>2, <1>3, <1>4, <1>5

LEMMA TokenFields ==
    ASSUME NEW a \in Account, NEW n \in Nat, NEW t \in Nat
    PROVE  [a EXCEPT !.refresh = n, !.previous = t, !.grace = TRUE] \in Account
BY DEF Account

LEMMA CountUp ==
    ASSUME NEW g \in Seq(Nat), NEW c \in Nat
    PROVE  [g EXCEPT ![c] = g[c] + 1] \in Seq(Nat)
<1>1. PICK n \in Nat : g \in [1 .. n -> Nat]  OBVIOUS
<1>2. CASE c \in 1 .. n
  <2>1. g[c] + 1 \in Nat  BY <1>1, <1>2
  <2>2. PICK v \in Nat : v = g[c] + 1  BY <2>1
  <2>3. [g EXCEPT ![c] = v] \in [1 .. n -> Nat]  BY <1>1, <1>2
  <2>4. QED  BY <2>2, <2>3
<1>3. CASE c \notin 1 .. n
  <2>1. [g EXCEPT ![c] = g[c] + 1] = g  BY <1>1, <1>3
  <2>2. QED  BY <2>1
<1>4. QED  BY <1>2, <1>3

LEMMA InitSound == SessionsInit => IInv
<1> SUFFICES ASSUME SessionsInit PROVE IInv
  OBVIOUS
<1>1. account \in Account /\ account.refresh = 0 /\ account.previous = 0 /\ account.code = 0
      /\ account.version = 0 /\ ~account.grace
  <2>1. Blank \in Account  BY DEF Blank, Account
  <2>2. [Blank EXCEPT !.stage = "verified"] \in Account  BY DEF Blank, Account
  <2>3. account = Blank \/ account = [Blank EXCEPT !.stage = "verified"]
    BY DEF SessionsInit
  <2>4. CASE account = Blank  BY <2>1, <2>4 DEF Blank
  <2>5. CASE account = [Blank EXCEPT !.stage = "verified"]  BY <2>2, <2>5 DEF Blank
  <2>6. QED  BY <2>3, <2>4, <2>5
<1>2. SessionsTypeOK
  <2>1. <<>> \in Seq(Nat)  OBVIOUS
  <2>2. Idle \in [pc: Stage, arg: Nat, session: Nat]  BY DEF Idle, Stage
  <2>3. QED  BY <1>1, <2>1, <2>2, DOMAIN <<>> = {} DEF SessionsInit, SessionsTypeOK
<1>3. \A r \in Request : op[r].pc = "idle"
  BY DEF SessionsInit, Idle
<1>4. QED
  BY <1>1, <1>2, <1>3, Limits
  DEF SessionsInit, IInv, TokensAreCurrent, GuessesBounded, CodeCounted, TokensOrdered,
      GraceHasBoth, Sound, Apart

-----------------------------------------------------------------------------
(* Steps that leave codes and tokens alone *)

\* A request moves on, and no session begins.
LEMMA RequestMoves ==
    ASSUME IInv, NEW r \in Request, NEW pc \in Stage, NEW arg \in Nat, NEW session \in Nat,
           pc # "begun", pc \in {"rotate", "lost", "reused"} => arg \in DOMAIN tokens,
           Become(r, pc, arg, session), UNCHANGED <<account, tokens, guesses, outworn>>,
           cookie' \in Nat, granted' \in Nat
    PROVE  IInv'
<1>1. SessionsTypeOK'  BY DEF IInv, SessionsTypeOK, Become
<1>2. /\ op'[r] = [pc |-> pc, arg |-> arg, session |-> session]
      /\ \A s \in Request \ {r} : op'[s] = op[s]
  BY DEF IInv, SessionsTypeOK, Become
<1>3. \A s \in Request : Sound(s)'  BY <1>2 DEF IInv, Sound
<1>4. \A s, q \in Request : s # q => Apart(s, q)'  BY <1>2 DEF IInv, Apart
<1>5. QED
  BY <1>1, <1>3, <1>4 DEF IInv, TokensAreCurrent, GuessesBounded, CodeCounted,
     TokensOrdered, GraceHasBoth

\* The document changes in fields that name neither a session, a token nor a code.
LEMMA FieldsMove ==
    ASSUME IInv, NEW a \in Account, account' = a,
           a.version = account.version, a.refresh = account.refresh,
           a.previous = account.previous, a.grace => account.grace,
           a.code = account.code, a.tries = account.tries,
           UNCHANGED <<tokens, guesses, cookie, granted>>,
           outworn' \subseteq DOMAIN tokens,
           op' \in [Request -> [pc: Stage, arg: Nat, session: Nat]],
           \A s \in Request : op'[s] = op[s] \/ op'[s].pc = "idle"
    PROVE  IInv'
<1>1. SessionsTypeOK'  BY DEF IInv, SessionsTypeOK
<1>2. \A s \in Request : Sound(s)'  BY DEF IInv, Sound
<1>3. \A s, q \in Request : s # q => Apart(s, q)'  BY DEF IInv, Apart
<1>4. QED
  BY <1>1, <1>2, <1>3 DEF IInv, TokensAreCurrent, GuessesBounded, CodeCounted,
     TokensOrdered, GraceHasBoth

LEMMA Types ==
    ASSUME IInv
    PROVE  /\ account.version \in Nat /\ cookie \in Nat /\ granted \in Nat
           /\ \A t \in DOMAIN tokens : t \in Nat /\ tokens[t] \in Nat
           /\ \A r \in Request : op[r].arg \in Nat /\ op[r].session \in Nat
BY DEF IInv, SessionsTypeOK, Account

LEMMA StageNames ==
    {"idle", "register", "reissue", "matched", "checked", "begun", "rotate", "lost",
     "reused", "change", "forgot", "set cookie", "clear cookie", "clear blocked"} \subseteq Stage
BY DEF Stage

\* The answer of r is on its way, with a token.
Answers(r, n, v) ==
    \E pc \in Stage : /\ pc \notin {"begun", "rotate", "lost", "reused"}
                      /\ Become(r, pc, n, v)

LEMMA CookieIsSet ==
    ASSUME NEW r, NEW n, NEW v, op' = [op EXCEPT ![r] = [pc |-> "set cookie", arg |-> n, session |-> v]]
    PROVE  Answers(r, n, v)
<1>1. Become(r, "set cookie", n, v)  BY Zenon DEF Become
<1>2. "set cookie" \in Stage /\ "set cookie" \notin {"begun", "rotate", "lost", "reused"}
  BY StageNames
<1>3. QED  BY <1>1, <1>2, Zenon DEF Answers

LEMMA DoneIsIdle == ASSUME NEW r, Done(r) PROVE Become(r, "idle", 0, 0)
BY DEF Done, Become, Idle

\* An access token is handed out; the rest stays.
LEMMA GrantedOnly ==
    ASSUME IInv, granted' \in Nat, UNCHANGED <<account, tokens, guesses, outworn, op, cookie>>
    PROVE  IInv'
<1>1. SessionsTypeOK'  BY DEF IInv, SessionsTypeOK
<1>2. QED
  BY <1>1 DEF IInv, TokensAreCurrent, GuessesBounded, CodeCounted, TokensOrdered,
     GraceHasBoth, Sound, Apart

LEMMA QuietSteps ==
    ASSUME IInv, NEW r \in Request,
           \/ RegisterRead(r) \/ ResendRead(r) \/ LoginUnverified(r) \/ LoginRead(r)
           \/ Refresh(r) \/ Reread(r) \/ ChangeRead(r) \/ ForgotRead(r)
           \/ SetCookie(r) \/ ClearCookie(r) \/ Vanish(r)
    PROVE  IInv'
<1>1. CASE \E pc \in {"register", "reissue", "checked", "forgot"} : Become(r, pc, 0, 0) /\ Quiet
  <2>1. PICK pc \in {"register", "reissue", "checked", "forgot"} : Become(r, pc, 0, 0) /\ Quiet
    BY <1>1
  <2>2. pc \in Stage /\ pc \notin {"begun", "rotate", "lost", "reused"}  BY StageNames
  <2>3. QED  BY <2>1, <2>2, Types, RequestMoves DEF Quiet
<1>2. CASE RegisterRead(r)  BY <1>1, <1>2 DEF RegisterRead
<1>3. CASE ResendRead(r) \/ LoginUnverified(r) \/ LoginRead(r) \/ ForgotRead(r)
  BY <1>1, <1>3 DEF ResendRead, LoginUnverified, LoginRead, ForgotRead
<1>4. CASE ChangeRead(r)
  BY <1>4, Types, StageNames, RequestMoves DEF ChangeRead, Quiet
<1>5. CASE Refresh(r)
  <2>1. PICK t \in DOMAIN tokens : \/ RefreshRefused(r, t) \/ RefreshCurrent(r, t)
                                   \/ RefreshRecovered(r, t) \/ RefreshReused(r, t)
    BY <1>5 DEF Refresh
  <2>2. CASE \E pc \in {"clear cookie", "clear blocked", "rotate", "reused"} :
               Become(r, pc, t, tokens[t]) /\ Quiet
    <3>1. PICK pc \in {"clear cookie", "clear blocked", "rotate", "reused"} :
               Become(r, pc, t, tokens[t]) /\ Quiet
      BY <2>2
    <3>2. pc \in Stage /\ pc # "begun"  BY StageNames
    <3>3. QED  BY <3>1, <3>2, Types, RequestMoves DEF Quiet
  <2>3. CASE RefreshRefused(r, t) \/ RefreshCurrent(r, t) \/ RefreshReused(r, t)
    BY <2>2, <2>3 DEF RefreshRefused, RefreshCurrent, RefreshReused
  <2>4. CASE RefreshRecovered(r, t)
    BY <2>4, Types, GrantedOnly DEF RefreshRecovered
  <2>5. QED  BY <2>1, <2>3, <2>4
<1>6. CASE Reread(r)
  <2>1. Done(r) /\ granted' \in {granted, account.version}
        /\ UNCHANGED <<account, tokens, guesses, outworn, cookie>>
    BY <1>6 DEF Reread, Conflict
  <2>2. QED  BY <2>1, DoneIsIdle, Types, StageNames, RequestMoves
<1>7. CASE SetCookie(r) \/ ClearCookie(r) \/ Vanish(r)
  <2>1. Done(r) /\ cookie' \in Nat /\ UNCHANGED <<account, tokens, guesses, outworn, granted>>
    <3>1. op[r].arg \in Nat /\ cookie \in Nat  BY Types
    <3>2. CASE SetCookie(r)  BY <3>1, <3>2 DEF SetCookie
    <3>3. CASE ClearCookie(r)  BY <3>3 DEF ClearCookie
    <3>4. CASE Vanish(r)  BY <3>1, <3>4 DEF Vanish, Quiet
    <3>5. QED  BY <1>7, <3>2, <3>3, <3>4
  <2>2. QED  BY <2>1, DoneIsIdle, Types, StageNames, RequestMoves
<1>8. QED  BY <1>2, <1>3, <1>4, <1>5, <1>6, <1>7

LEMMA FieldSteps ==
    ASSUME IInv, Unban \/ Time \/ \E r \in Request : Forgot(r)
    PROVE  IInv'
<1>1. ASSUME NEW r \in Request, Forgot(r) PROVE IInv'
  <2>1. [account EXCEPT !.link = TRUE] \in Account  BY DEF IInv, SessionsTypeOK, Account
  <2>2. /\ op' \in [Request -> [pc: Stage, arg: Nat, session: Nat]]
        /\ \A s \in Request : op'[s] = op[s] \/ op'[s].pc = "idle"
    BY <1>1 DEF Forgot, Done, Idle, Stage, IInv, SessionsTypeOK
  <2>3. QED  BY <1>1, <2>1, <2>2, FieldsMove DEF Forgot, IInv, SessionsTypeOK, Account
<1>2. CASE Unban
  <2>1. [account EXCEPT !.banned = FALSE] \in Account  BY DEF IInv, SessionsTypeOK, Account
  <2>2. QED  BY <1>2, <2>1, FieldsMove DEF Unban, IInv, SessionsTypeOK, Account
<1>3. CASE LinkLapses
  <2>1. [account EXCEPT !.link = FALSE] \in Account  BY DEF IInv, SessionsTypeOK, Account
  <2>2. QED  BY <1>3, <2>1, FieldsMove DEF LinkLapses, IInv, SessionsTypeOK, Account
<1>4. CASE CodeAges
  <2>1. account' \in Account  BY <1>4 DEF CodeAges, IInv, SessionsTypeOK, Account
  <2>2. QED  BY <1>4, <2>1, FieldsMove DEF CodeAges, IInv, SessionsTypeOK, Account
<1>5. CASE GraceEnds
  <2>1. [account EXCEPT !.grace = FALSE] \in Account  BY DEF IInv, SessionsTypeOK, Account
  <2>2. account.previous \in DOMAIN tokens
    BY <1>5 DEF GraceEnds, IInv, GraceHasBoth, TokensAreCurrent
  <2>3. outworn' \subseteq DOMAIN tokens
    BY <1>5, <2>2 DEF GraceEnds, IInv, SessionsTypeOK
  <2>4. QED  BY <1>5, <2>1, <2>3, FieldsMove DEF GraceEnds, IInv, SessionsTypeOK, Account
<1>6. QED  BY <1>1, <1>2, <1>3, <1>4, <1>5 DEF Time

-----------------------------------------------------------------------------
(* Steps that end the session, and perhaps begin the next *)

\* Every session before is over; r, if it is a request, begins the next or none.
Unmoved(s) == op'[s] = op[s]

\* What a request may do in a step that ends the session.
MovesOn(s) ==
    \/ Unmoved(s) \/ op'[s].pc \in {"idle", "clear cookie"}
    \/ op'[s].pc = "begun" /\ op'[s].session = account.version + 1

LEMMA SessionEnds ==
    ASSUME IInv, CanBump, account' \in Account,
           account'.version = account.version + 1,
           account'.refresh = 0, account'.previous = 0, ~account'.grace,
           account'.code = 0 \/ (account'.code = account.code /\ account'.tries = account.tries),
           UNCHANGED <<tokens, guesses, outworn, cookie, granted>>,
           op' \in [Request -> [pc: Stage, arg: Nat, session: Nat]],
           \A s \in Request : MovesOn(s),
           \A s, q \in Request : s # q => Unmoved(s) \/ Unmoved(q)
    PROVE  IInv'
<1>1. SessionsTypeOK'  BY DEF IInv, SessionsTypeOK
<1>2. /\ account.version \in Nat /\ account'.version = account.version + 1
      /\ account.version + 1 <= MaxVersion
      /\ 1 .. account.version \subseteq 1 .. account'.version
  BY Limits, Types DEF CanBump
<1>3. TokensAreCurrent' /\ GraceHasBoth' /\ GuessesBounded'
  BY DEF IInv, TokensAreCurrent, GraceHasBoth, GuessesBounded
<1>4. CodeCounted'  BY DEF IInv, CodeCounted
<1>5. TokensOrdered'  BY <1>2 DEF IInv, TokensOrdered
<1>6. \A t \in DOMAIN tokens : tokens[t] # account.version + 1
  BY <1>2 DEF IInv, TokensOrdered
<1>7. ASSUME NEW s \in Request PROVE Sound(s)'
  <2>1. CASE Unmoved(s)
    <3>1. Sound(s)  BY DEF IInv
    <3>2. QED  BY <1>2, <2>1, <3>1 DEF Sound, Unmoved
  <2>2. CASE op'[s].pc \in {"idle", "clear cookie"}  BY <2>2 DEF Sound
  <2>3. CASE op'[s].pc = "begun" /\ op'[s].session = account.version + 1
    <3>1. account.version + 1 \in 1 .. account'.version  BY <1>2
    <3>2. QED  BY <1>6, <2>3, <3>1 DEF Sound
  <2>4. QED  BY <2>1, <2>2, <2>3 DEF MovesOn
<1>8. ASSUME NEW x \in Request, op[x].pc = "begun"
      PROVE  op[x].session # account.version + 1
  <2>1. Sound(x)  BY DEF IInv
  <2>2. QED  BY <1>2, <1>8, <2>1 DEF Sound
<1>9. ASSUME NEW s \in Request, NEW q \in Request, s # q PROVE Apart(s, q)'
  <2>1. Apart(s, q)  BY <1>9 DEF IInv
  <2>2. CASE Unmoved(s) /\ Unmoved(q)  BY <2>1, <2>2 DEF Apart, Unmoved
  <2>3. CASE Unmoved(s) /\ ~Unmoved(q)  BY <1>8, <2>3 DEF Apart, Unmoved, MovesOn
  <2>4. CASE ~Unmoved(s) /\ Unmoved(q)  BY <1>8, <2>4 DEF Apart, Unmoved, MovesOn
  <2>5. QED  BY <1>9, <2>2, <2>3, <2>4
<1>10. QED  BY <1>1, <1>3, <1>4, <1>5, <1>7, <1>9 DEF IInv

LEMMA OneBecomes ==
    ASSUME IInv, NEW r \in Request, NEW pc \in Stage, NEW arg \in Nat, NEW session \in Nat,
           Become(r, pc, arg, session)
    PROVE  /\ op' \in [Request -> [pc: Stage, arg: Nat, session: Nat]]
           /\ op'[r].pc = pc /\ op'[r].session = session
           /\ \A s \in Request \ {r} : op'[s] = op[s]
BY DEF IInv, SessionsTypeOK, Become

\* One request moves to a stage that asks nothing of it, or begins the session.
LEMMA OneMoves ==
    ASSUME IInv, NEW r \in Request, NEW pc \in {"idle", "clear cookie", "begun"},
           NEW arg \in Nat, NEW session \in Nat,
           pc = "begun" => session = account.version + 1, Become(r, pc, arg, session)
    PROVE  /\ op' \in [Request -> [pc: Stage, arg: Nat, session: Nat]]
           /\ \A s \in Request : MovesOn(s)
           /\ \A s, q \in Request : s # q => Unmoved(s) \/ Unmoved(q)
<1>1. pc \in Stage  BY StageNames
<1>2. \A s \in Request \ {r} : Unmoved(s)  BY <1>1, OneBecomes DEF Unmoved
<1>3. MovesOn(r)  BY <1>1, OneBecomes DEF MovesOn
<1>4. QED  BY <1>1, <1>2, <1>3, OneBecomes DEF MovesOn

LEMMA NobodyMoves ==
    ASSUME IInv, UNCHANGED op
    PROVE  /\ op' \in [Request -> [pc: Stage, arg: Nat, session: Nat]]
           /\ \A s \in Request : MovesOn(s) /\ Unmoved(s)
BY DEF IInv, SessionsTypeOK, MovesOn, Unmoved

\* What EndSessions does to the document.
LEMMA Ended ==
    ASSUME IInv
    PROVE  /\ EndSessions(account) \in Account
           /\ EndSessions(account).version = account.version + 1
           /\ EndSessions(account).refresh = 0 /\ EndSessions(account).previous = 0
           /\ ~EndSessions(account).grace
           /\ EndSessions(account).code = account.code
           /\ EndSessions(account).tries = account.tries
<1>1. account \in Account  BY DEF IInv, SessionsTypeOK
<1>2. account.version + 1 \in Nat  BY Types
<1>3. EndSessions(account) = [account EXCEPT !.version = account.version + 1, !.refresh = 0,
                                             !.previous = 0, !.grace = FALSE]
  BY <1>1 DEF Account, EndSessions, Bumped
<1>4. EndSessions(account) \in Account  BY <1>1, <1>2, <1>3, SessionFields
<1>5. /\ EndSessions(account).version = account.version + 1
      /\ EndSessions(account).refresh = 0 /\ EndSessions(account).previous = 0
      /\ EndSessions(account).grace = FALSE
      /\ EndSessions(account).code = account.code
      /\ EndSessions(account).tries = account.tries
  BY <1>1, <1>3 DEF Account
<1>6. QED  BY <1>4, <1>5

LEMMA EndSteps ==
    ASSUME IInv,
           \/ ResetPassword \/ Ban
           \/ \E r \in Request : \/ Complete(r) \/ Begin(r) \/ EndForReuse(r) \/ Logout(r)
                                 \/ ChangePassword(r)
    PROVE  IInv'
<1> DEFINE b == EndSessions(account)
<1>1. CASE ResetPassword
  <2>1. account' \in Account  BY <1>1, Ended DEF ResetPassword, Account
  <2>2. /\ account'.version = b.version /\ account'.refresh = b.refresh
        /\ account'.previous = b.previous /\ account'.grace = b.grace
        /\ account'.code = b.code /\ account'.tries = b.tries
    BY <1>1, Ended DEF ResetPassword, Account
  <2>3. CanBump /\ UNCHANGED <<tokens, guesses, outworn, op, cookie, granted>>
    BY <1>1 DEF ResetPassword
  <2>4. QED  BY <2>1, <2>2, <2>3, Ended, NobodyMoves, SessionEnds
<1>2. CASE Ban
  <2>1. account' \in Account  BY <1>2, Ended DEF Ban, Account
  <2>2. /\ account'.version = b.version /\ account'.refresh = b.refresh
        /\ account'.previous = b.previous /\ account'.grace = b.grace
        /\ account'.code = b.code /\ account'.tries = b.tries
    BY <1>2, Ended DEF Ban, Account
  <2>3. CanBump /\ UNCHANGED <<tokens, guesses, outworn, op, cookie, granted>>
    BY <1>2 DEF Ban
  <2>4. QED  BY <2>1, <2>2, <2>3, Ended, NobodyMoves, SessionEnds
<1>3. ASSUME NEW r \in Request, Begin(r) \/ EndForReuse(r) \/ Logout(r) \/ ChangePassword(r)
      PROVE  IInv'
  <2>1. PICK pc \in {"idle", "clear cookie", "begun"}, arg \in Nat, session \in Nat :
           Become(r, pc, arg, session) /\ (pc = "begun" => session = account.version + 1)
    <3>1. CASE Begin(r)
      <4>1. account.version + 1 \in Nat /\ 0 \in Nat  BY Types
      <4>2. Become(r, "begun", 0, account.version + 1)  BY <3>1 DEF Begin
      <4>3. QED  BY <4>1, <4>2
    <3>2. CASE EndForReuse(r)  BY <3>2, Types DEF EndForReuse
    <3>3. CASE Logout(r)  BY <3>3, Types DEF Logout
    <3>4. CASE ChangePassword(r)  BY <3>4, Types DEF ChangePassword
    <3>5. QED  BY <1>3, <3>1, <3>2, <3>3, <3>4
  <2>2. /\ CanBump /\ account' = b
        /\ UNCHANGED <<tokens, guesses, outworn, cookie, granted>>
    BY <1>3 DEF Begin, EndForReuse, Logout, ChangePassword
  <2>3. QED  BY <2>1, <2>2, Ended, OneMoves, SessionEnds
<1>4. ASSUME NEW r \in Request, Complete(r) PROVE IInv'
  <2>1. CASE StillTheCode(r)
    <3>1. account' \in Account  BY <1>4, <2>1, Ended DEF Complete, Account
    <3>2. /\ account'.version = b.version /\ account'.refresh = b.refresh
          /\ account'.previous = b.previous /\ account'.grace = b.grace /\ account'.code = 0
      BY <1>4, <2>1, Ended DEF Complete, Account
    <3>3. CanBump /\ UNCHANGED <<tokens, guesses, outworn, cookie, granted>>
      BY <1>4 DEF Complete
    <3>4. Become(r, "begun", 0, account.version + 1) /\ account.version + 1 \in Nat
      BY <1>4, <2>1, Types DEF Complete
    <3>5. /\ op' \in [Request -> [pc: Stage, arg: Nat, session: Nat]]
          /\ \A s \in Request : MovesOn(s)
          /\ \A s, q \in Request : s # q => Unmoved(s) \/ Unmoved(q)
      BY <3>4, OneMoves
    <3>6. QED  BY <3>1, <3>2, <3>3, <3>5, Ended, SessionEnds
  <2>2. CASE ~StillTheCode(r)
    <3>1. Become(r, "idle", 0, 0)  BY <1>4, <2>2, DoneIsIdle DEF Complete
    <3>2. QED  BY <1>4, <2>2, <3>1, Types, StageNames, RequestMoves DEF Complete
  <2>3. QED  BY <2>1, <2>2
<1>5. QED  BY <1>1, <1>2, <1>3, <1>4

-----------------------------------------------------------------------------
(* Steps that send or compare a code *)

\* A document whose sessions and tokens are left alone, with its guesses.
LEMMA CodesMove ==
    ASSUME IInv, account' \in Account, account'.version = account.version,
           account'.refresh = account.refresh, account'.previous = account.previous,
           account'.grace = account.grace,
           guesses' \in Seq(Nat), GuessesBounded', CodeCounted',
           UNCHANGED <<tokens, outworn, cookie, granted>>,
           NEW r \in Request, NEW pc \in {"idle", "matched"}, NEW arg \in Nat,
           Become(r, pc, arg, 0)
    PROVE  IInv'
<1>1. pc \in Stage /\ 0 \in Nat  BY StageNames
<1>2. SessionsTypeOK'  BY <1>1, OneBecomes DEF IInv, SessionsTypeOK
<1>3. ASSUME NEW s \in Request
      PROVE  op'[s].pc \in {"idle", "matched"} \/ op'[s] = op[s]
  BY <1>1, OneBecomes
<1>4. \A s \in Request : Sound(s)'  BY <1>3 DEF IInv, Sound
<1>5. \A s, q \in Request : s # q => Apart(s, q)'  BY <1>3 DEF IInv, Apart
<1>6. QED
  BY <1>2, <1>4, <1>5 DEF IInv, TokensAreCurrent, TokensOrdered, GraceHasBoth

\* A code is sent: nobody has guessed at it.
LEMMA CodeSent ==
    ASSUME IInv, NEW a \in Account, a.version = account.version, a.refresh = account.refresh,
           a.previous = account.previous, a.grace = account.grace,
           account' = Issued(a), guesses' = Append(guesses, 0),
           UNCHANGED <<tokens, outworn, cookie, granted>>,
           NEW r \in Request, Done(r)
    PROVE  IInv'
<1>1. guesses \in Seq(Nat) /\ Len(guesses) \in Nat  BY DEF IInv, SessionsTypeOK
<1>2. account' = [a EXCEPT !.code = Len(guesses) + 1, !.age = "cooling", !.tries = 0]
  BY DEF Issued
<1>3. account' \in Account
  <2>1. PICK n \in Nat : n = Len(guesses) + 1  BY <1>1
  <2>2. [a EXCEPT !.code = n, !.age = "cooling", !.tries = 0] \in Account  BY CodeFields
  <2>3. QED  BY <1>2, <2>1, <2>2
<1>4. /\ account'.version = account.version /\ account'.refresh = account.refresh
      /\ account'.previous = account.previous /\ account'.grace = account.grace
      /\ account'.code = Len(guesses) + 1 /\ account'.tries = 0
  BY <1>2 DEF Account
<1>5. /\ guesses' \in Seq(Nat) /\ DOMAIN guesses' = 1 .. Len(guesses) + 1
      /\ guesses'[Len(guesses) + 1] = 0
      /\ \A c \in DOMAIN guesses' \ {Len(guesses) + 1} :
            c \in DOMAIN guesses /\ guesses'[c] = guesses[c]
  BY <1>1
<1>6. GuessesBounded'
  <2>1. GuessesBounded  BY DEF IInv
  <2>2. QED  BY <1>5, <2>1, Limits DEF GuessesBounded
<1>7. CodeCounted'  BY <1>1, <1>4, <1>5 DEF CodeCounted
<1>8. QED  BY <1>3, <1>4, <1>5, <1>6, <1>7, DoneIsIdle, CodesMove

LEMMA SendSteps ==
    ASSUME IInv, NEW r \in Request, Register(r) \/ Reissue(r) PROVE IInv'
<1>1. account \in Account  BY DEF IInv, SessionsTypeOK
<1>2. CASE Reissue(r)  BY <1>1, <1>2, CodeSent DEF Reissue
<1>3. CASE Register(r) /\ account.stage = "none"
  <2>1. [account EXCEPT !.stage = "pending"] \in Account  BY <1>1 DEF Account
  <2>2. /\ [account EXCEPT !.stage = "pending"].version = account.version
        /\ [account EXCEPT !.stage = "pending"].refresh = account.refresh
        /\ [account EXCEPT !.stage = "pending"].previous = account.previous
        /\ [account EXCEPT !.stage = "pending"].grace = account.grace
    BY <1>1 DEF Account
  <2>3. QED  BY <1>3, <2>1, <2>2, CodeSent DEF Register
<1>4. CASE Register(r) /\ account.stage # "none"
  BY <1>4, DoneIsIdle, Types, StageNames, RequestMoves DEF Register
<1>5. QED  BY <1>2, <1>3, <1>4

LEMMA SubmitStep ==
    ASSUME IInv, NEW r \in Request, NEW right \in BOOLEAN, Submit(r, right) PROVE IInv'
<1>1. /\ account \in Account /\ guesses \in Seq(Nat)
      /\ account.tries \in Nat /\ account.code \in Nat
  BY DEF IInv, SessionsTypeOK, Account
<1>2. /\ account' = [account EXCEPT !.tries = account.tries + 1]
      /\ account.tries < MaxAttempts
      /\ UNCHANGED <<tokens, outworn, cookie, granted>>
  BY <1>1 DEF Submit, MayGuess, Account
<1>3. account' \in Account
  <2>1. PICK n \in Nat : n = account.tries + 1  BY <1>1
  <2>2. account' = [account EXCEPT !.tries = n]  BY <1>2, <2>1
  <2>3. QED  BY <1>1, <2>2 DEF Account
<1>4. /\ account'.version = account.version /\ account'.refresh = account.refresh
      /\ account'.previous = account.previous /\ account'.grace = account.grace
      /\ account'.code = account.code /\ account'.tries = account.tries + 1
  BY <1>1, <1>2 DEF Account
<1>5. /\ guesses' \in Seq(Nat) /\ DOMAIN guesses' = DOMAIN guesses
      /\ \A c \in DOMAIN guesses :
            guesses'[c] = IF c = account.code THEN guesses[c] + 1 ELSE guesses[c]
  <2>1. guesses' = [guesses EXCEPT ![account.code] = guesses[account.code] + 1]  BY DEF Submit
  <2>2. guesses' \in Seq(Nat)  BY <1>1, <2>1, CountUp
  <2>3. QED  BY <1>1, <2>1, <2>2
<1>6. CodeCounted  BY DEF IInv
<1>7. CodeCounted'
  <2>1. \A c \in DOMAIN guesses : guesses[c] \in Nat  BY <1>1
  <2>2. QED  BY <1>1, <1>4, <1>5, <1>6, <2>1 DEF CodeCounted
<1>8. GuessesBounded'
  <2>1. ASSUME NEW c \in DOMAIN guesses PROVE guesses'[c] <= MaxAttempts
    <3>1. guesses[c] \in Nat /\ c # 0 /\ guesses[c] <= MaxAttempts
      BY <1>1 DEF IInv, GuessesBounded
    <3>2. CASE c = account.code  BY <1>1, <1>2, <1>5, <1>6, <3>1, <3>2, Limits DEF CodeCounted
    <3>3. CASE c # account.code  BY <1>5, <3>1, <3>3
    <3>4. QED  BY <3>2, <3>3
  <2>2. QED  BY <1>5, <2>1 DEF GuessesBounded
<1>9. \E pc \in {"idle", "matched"}, arg \in Nat : Become(r, pc, arg, 0)
  BY <1>1, DoneIsIdle DEF Submit
<1>10. QED  BY <1>2, <1>3, <1>4, <1>5, <1>7, <1>8, <1>9, CodesMove

-----------------------------------------------------------------------------
(* Steps that hand out a refresh token *)

\* No other request is about to store a token for the current session.
OnlyStorer(r) ==
    \A s \in Request \ {r} : op[s].pc = "begun" => op[s].session # account.version

\* A token of the current session is appended and stored.
LEMMA TokenStored ==
    ASSUME IInv, NEW r \in Request, account' \in Account,
           account'.version = account.version,
           account'.code = account.code, account'.tries = account.tries,
           account'.refresh = Len(tokens) + 1,
           account'.previous # 0 =>
              account'.previous \in DOMAIN tokens
              /\ tokens[account'.previous] = account.version,
           account'.grace => account'.previous # 0,
           tokens' = Append(tokens, account.version), account.version # 0,
           outworn' \subseteq DOMAIN tokens,
           UNCHANGED <<guesses, cookie>>, granted' \in Nat,
           NEW n \in Nat, NEW v \in Nat, Answers(r, n, v), OnlyStorer(r)
    PROVE  IInv'
<1>1. /\ account.version \in Nat /\ tokens \in Seq(Nat) /\ Len(tokens) \in Nat
      /\ DOMAIN tokens' = 1 .. Len(tokens) + 1 /\ DOMAIN tokens = 1 .. Len(tokens)
      /\ tokens'[Len(tokens) + 1] = account.version
      /\ \A t \in DOMAIN tokens : tokens'[t] = tokens[t] /\ t \in DOMAIN tokens'
  BY Types DEF IInv, SessionsTypeOK
<1>2. PICK pc \in Stage : /\ pc \notin {"begun", "rotate", "lost", "reused"}
                         /\ Become(r, pc, n, v)
  BY DEF Answers
<1>3. SessionsTypeOK'
  <2>1. tokens' \in Seq(Nat) /\ outworn' \subseteq DOMAIN tokens'  BY <1>1
  <2>2. op' \in [Request -> [pc: Stage, arg: Nat, session: Nat]]  BY <1>2, OneBecomes
  <2>3. QED  BY <2>1, <2>2 DEF IInv, SessionsTypeOK
<1>4. TokensAreCurrent'
  <2>1. CASE account'.previous = 0  BY <1>1, <2>1 DEF TokensAreCurrent
  <2>2. CASE account'.previous # 0  BY <1>1, <2>2 DEF TokensAreCurrent
  <2>3. QED  BY <2>1, <2>2
<1>5. GuessesBounded' /\ CodeCounted'  BY DEF IInv, GuessesBounded, CodeCounted
<1>6. TokensOrdered'
  <2>1. account.version \in 1 .. account.version  BY <1>1
  <2>2. ASSUME NEW t \in DOMAIN tokens' PROVE tokens'[t] \in 1 .. account'.version
    <3>1. CASE t = Len(tokens) + 1  BY <1>1, <2>1, <3>1
    <3>2. CASE t # Len(tokens) + 1  BY <1>1, <3>2 DEF IInv, TokensOrdered
    <3>3. QED  BY <3>1, <3>2
  <2>3. QED  BY <2>2 DEF IInv, TokensOrdered
<1>7. GraceHasBoth'  BY <1>1 DEF GraceHasBoth
<1>8. ASSUME NEW s \in Request PROVE Sound(s)'
  <2>1. CASE s = r  BY <1>2, <2>1, OneBecomes DEF Sound
  <2>2. CASE s # r
    <3>1. Sound(s) /\ op'[s] = op[s]  BY <1>2, <2>2, OneBecomes DEF IInv
    <3>2. op[s].pc \in {"rotate", "lost", "reused"} => op[s].arg \in DOMAIN tokens'
      BY <1>1, <3>1 DEF Sound
    <3>3. ASSUME op[s].pc = "begun", NEW t \in DOMAIN tokens' PROVE tokens'[t] # op[s].session
      <4>1. CASE t = Len(tokens) + 1  BY <1>1, <2>2, <3>3, <4>1 DEF OnlyStorer
      <4>2. CASE t # Len(tokens) + 1  BY <1>1, <3>1, <3>3, <4>2 DEF Sound
      <4>3. QED  BY <4>1, <4>2
    <3>4. QED  BY <3>1, <3>2, <3>3 DEF Sound
  <2>3. QED  BY <2>1, <2>2
<1>9. ASSUME NEW s \in Request, NEW q \in Request, s # q PROVE Apart(s, q)'
  <2>1. op'[r].pc # "begun" /\ \A x \in Request \ {r} : op'[x] = op[x]
    BY <1>2, OneBecomes
  <2>2. Apart(s, q)  BY <1>9 DEF IInv
  <2>3. QED  BY <2>1, <2>2 DEF Apart
<1>10. QED  BY <1>3, <1>4, <1>5, <1>6, <1>7, <1>8, <1>9 DEF IInv

LEMMA StoreStep == ASSUME IInv, NEW r \in Request, Store(r) PROVE IInv'
<1>1. account \in Account /\ tokens \in Seq(Nat) /\ Len(tokens) + 1 \in Nat
  BY DEF IInv, SessionsTypeOK
<1>2. CASE StillTheSession(r)
  <2>1. /\ account' = [account EXCEPT !.refresh = Len(tokens) + 1]
        /\ tokens' = Append(tokens, account.version) /\ account.version = op[r].session
        /\ Answers(r, Len(tokens) + 1, op[r].session)
        /\ granted' = op[r].session /\ UNCHANGED <<guesses, outworn, cookie>>
    <3>1. tokens' = Append(tokens, op[r].session) /\ account.version = op[r].session
      BY <1>2 DEF Store, StillTheSession
    <3>2. Len(tokens') = Len(tokens) + 1  BY <1>1, <3>1, Types
    <3>3. op' = [op EXCEPT ![r] = [pc |-> "set cookie", arg |-> Len(tokens'),
                                   session |-> op[r].session]]
      BY <1>2 DEF Store, Become
    <3>4. Answers(r, Len(tokens) + 1, op[r].session)  BY <3>2, <3>3, CookieIsSet
    <3>5. QED  BY <1>2, <3>1, <3>2, <3>4 DEF Store
  <2>2. account' \in Account  BY <1>1, <2>1 DEF Account
  <2>3. /\ account'.version = account.version
        /\ account'.code = account.code /\ account'.tries = account.tries
        /\ account'.refresh = Len(tokens) + 1
        /\ account'.previous = account.previous /\ account'.grace = account.grace
    BY <1>1, <2>1 DEF Account
  <2>4. /\ account.previous # 0 => account.previous \in DOMAIN tokens
                                  /\ tokens[account.previous] = account.version
        /\ account.grace => account.previous # 0 /\ outworn \subseteq DOMAIN tokens
    BY DEF IInv, TokensAreCurrent, GraceHasBoth, SessionsTypeOK
  <2>5. op[r].pc = "begun" /\ Sound(r)  BY DEF Store, IInv
  <2>6. account.version # 0  BY <2>1, <2>5, Types DEF Sound
  <2>7. OnlyStorer(r)
    <3>1. ASSUME NEW s \in Request \ {r}, op[s].pc = "begun"
          PROVE  op[s].session # account.version
      <4>1. Apart(r, s)  BY <3>1 DEF IInv
      <4>2. QED  BY <2>1, <2>5, <3>1, <4>1 DEF Apart
    <3>2. QED  BY <3>1 DEF OnlyStorer
  <2>8. outworn' \subseteq DOMAIN tokens  BY <2>1 DEF IInv, SessionsTypeOK
  <2>9. QED  BY <1>1, <2>1, <2>2, <2>3, <2>4, <2>6, <2>7, <2>8, Types, TokenStored
<1>3. CASE ~StillTheSession(r)
  <2>1. Become(r, "idle", 0, 0)  BY <1>3, DoneIsIdle DEF Store
  <2>2. QED  BY <1>3, <2>1, Types, StageNames, RequestMoves DEF Store
<1>4. QED  BY <1>2, <1>3

LEMMA RotateStep == ASSUME IInv, NEW r \in Request, Rotate(r) PROVE IInv'
<1>1. account \in Account /\ tokens \in Seq(Nat) /\ Len(tokens) + 1 \in Nat
  BY DEF IInv, SessionsTypeOK
<1>2. op[r].pc = "rotate" /\ Sound(r)  BY DEF Rotate, IInv
<1>3. op[r].arg \in DOMAIN tokens /\ op[r].arg \in Nat /\ op[r].session \in Nat
      /\ op[r].arg # 0
  BY <1>1, <1>2, Types DEF Sound
<1>4. CASE account.version = op[r].session /\ account.refresh = op[r].arg
  <2>1. tokens[op[r].arg] = account.version /\ account.version # 0
    BY <1>3, <1>4, Types DEF IInv, TokensAreCurrent, TokensOrdered
  <2>2. /\ account' = [account EXCEPT !.refresh = Len(tokens) + 1, !.previous = op[r].arg,
                                       !.grace = TRUE]
        /\ tokens' = Append(tokens, account.version)
        /\ Answers(r, Len(tokens) + 1, op[r].session)
        /\ granted' = op[r].session /\ UNCHANGED <<guesses, cookie>>
    <3>1. tokens' = Append(tokens, op[r].session) /\ account.version = op[r].session
      BY <1>4 DEF Rotate
    <3>2. Len(tokens') = Len(tokens) + 1  BY <1>1, <3>1, Types
    <3>3. op' = [op EXCEPT ![r] = [pc |-> "set cookie", arg |-> Len(tokens'),
                                   session |-> op[r].session]]
      BY <1>4 DEF Rotate, Become
    <3>4. Answers(r, Len(tokens) + 1, op[r].session)  BY <3>2, <3>3, CookieIsSet
    <3>5. QED  BY <1>4, <3>1, <3>2, <3>4 DEF Rotate, Rotated
  <2>3. account' \in Account  BY <1>1, <1>3, <2>2, TokenFields
  <2>4. /\ account'.version = account.version
        /\ account'.code = account.code /\ account'.tries = account.tries
        /\ account'.refresh = Len(tokens) + 1
        /\ account'.previous = op[r].arg /\ account'.grace
    BY <1>1, <2>2 DEF Account
  <2>5. outworn' \subseteq DOMAIN tokens
    BY <1>4 DEF Rotate, IInv, SessionsTypeOK, GraceHasBoth, TokensAreCurrent
  <2>6. OnlyStorer(r)
    <3>1. ASSUME NEW s \in Request \ {r}, op[s].pc = "begun"
          PROVE  op[s].session # account.version
      <4>1. Sound(s)  BY DEF IInv
      <4>2. QED  BY <1>3, <2>1, <3>1, <4>1 DEF Sound
    <3>2. QED  BY <3>1 DEF OnlyStorer
  <2>7. QED  BY <1>1, <1>3, <2>1, <2>2, <2>3, <2>4, <2>5, <2>6, TokenStored
<1>5. CASE ~(account.version = op[r].session /\ account.refresh = op[r].arg)
  <2>1. Become(r, "lost", op[r].arg, op[r].session)
        /\ UNCHANGED <<account, tokens, guesses, outworn, cookie, granted>>
    BY <1>5 DEF Rotate
  <2>2. QED  BY <1>3, <2>1, Types, StageNames, RequestMoves
<1>6. QED  BY <1>4, <1>5

LEMMA StepKeeps == ASSUME IInv, [SessionsNext]_sessionVars PROVE IInv'
<1>1. ASSUME NEW r \in Request, Handler(r) PROVE IInv'
  <2>1. CASE \/ RegisterRead(r) \/ ResendRead(r) \/ LoginUnverified(r) \/ LoginRead(r)
             \/ Refresh(r) \/ Reread(r) \/ ChangeRead(r) \/ ForgotRead(r)
             \/ SetCookie(r) \/ ClearCookie(r) \/ Vanish(r)
    BY <2>1, QuietSteps
  <2>2. CASE Register(r) \/ Reissue(r)  BY <2>2, SendSteps
  <2>3. CASE \E right \in BOOLEAN : Submit(r, right)  BY <2>3, SubmitStep
  <2>4. CASE Complete(r) \/ Begin(r) \/ EndForReuse(r) \/ Logout(r) \/ ChangePassword(r)
    BY <2>4, EndSteps
  <2>5. CASE Store(r)  BY <2>5, StoreStep
  <2>6. CASE Rotate(r)  BY <2>6, RotateStep
  <2>7. CASE Forgot(r)  BY <2>7, FieldSteps
  <2>8. QED  BY <1>1, <2>1, <2>2, <2>3, <2>4, <2>5, <2>6, <2>7 DEF Handler
<1>2. CASE ResetPassword \/ Ban  BY <1>2, EndSteps
<1>3. CASE Unban \/ Time  BY <1>3, FieldSteps
<1>4. CASE UNCHANGED sessionVars
  BY <1>4 DEF sessionVars, IInv, SessionsTypeOK, TokensAreCurrent, GuessesBounded,
     CodeCounted, TokensOrdered, GraceHasBoth, Sound, Apart
<1>5. QED  BY <1>1, <1>2, <1>3, <1>4 DEF SessionsNext

LEMMA Invariance == SessionsSpec => []IInv
<1>1. IInv /\ [SessionsNext]_sessionVars => IInv'  BY StepKeeps
<1>2. QED  BY <1>1, InitSound, PTL DEF SessionsSpec

\* The user document, the tokens and the requests in progress are well formed in
\* every reachable state (models/User.ts, services/authService.ts).
THEOREM SessionsTyped == SessionsSpec => []SessionsTypeOK
<1>1. IInv => SessionsTypeOK  BY DEF IInv
<1>2. QED  BY <1>1, Invariance, PTL

\* The refresh tokens the document holds are of the current session, whichever
\* logins, rotations, password changes and bans overlapped (storeRefreshToken,
\* rotateRefreshToken).
THEOREM TokensStayCurrent == SessionsSpec => []TokensAreCurrent
<1>1. IInv => TokensAreCurrent  BY DEF IInv
<1>2. QED  BY <1>1, Invariance, PTL

\* No e-mailed code is compared with more guesses than maxOtpAttempts, however
\* many requests submit and resend at once (findAndIncrementOtpAttempts).
THEOREM GuessesStayBounded == SessionsSpec => []GuessesBounded
<1>1. IInv => GuessesBounded  BY DEF IInv
<1>2. QED  BY <1>1, Invariance, PTL

-----------------------------------------------------------------------------
(* The refinement: what every step is to OneSession *)

Handed == {tokens[t] : t \in DOMAIN tokens}

LEMMA Mapped ==
    ASSUME IInv
    PROVE  /\ 0 \notin Handed /\ OneSession!Past = Handed
           /\ account.refresh # 0 =>
                 /\ LiveSession = account.version /\ account.version # 0
                 /\ account.version \in Handed
<1>1. \A t \in DOMAIN tokens : tokens[t] # 0  BY Types DEF IInv, TokensOrdered
<1>2. 0 \notin Handed  BY <1>1 DEF Handed
<1>3. ASSUME account.refresh # 0
      PROVE  /\ LiveSession = account.version /\ account.version # 0
             /\ account.version \in Handed
  <2>1. account.refresh \in DOMAIN tokens /\ tokens[account.refresh] = account.version
    BY <1>3 DEF IInv, TokensAreCurrent
  <2>2. QED  BY <1>1, <1>3, <2>1 DEF LiveSession, Handed
<1>4. LiveSession = 0 \/ LiveSession \in Handed  BY <1>3 DEF LiveSession
<1>5. OneSession!Past = ((Handed \ {LiveSession}) \cup {LiveSession}) \ {0}
  BY DEF OneSession!Past, Handed
<1>6. QED  BY <1>2, <1>3, <1>4, <1>5

LEMMA StaysSame ==
    ASSUME account'.refresh = account.refresh, UNCHANGED <<tokens, granted>>
    PROVE  UNCHANGED OneSession!vars
BY DEF LiveSession, OneSession!vars

LEMMA Ending ==
    ASSUME IInv, account'.refresh = 0, UNCHANGED <<tokens, granted>>
    PROVE  OneSession!End
<1>1. LiveSession' = 0  BY DEF LiveSession
<1>2. {tokens[t] : t \in DOMAIN tokens}' \ {LiveSession'} = OneSession!Past
  BY <1>1, Mapped DEF Handed
<1>3. QED  BY <1>1, <1>2 DEF OneSession!End

LEMMA Renewing ==
    ASSUME IInv, account.refresh # 0, LiveSession' = LiveSession, Handed' = Handed,
           granted' = account.version
    PROVE  OneSession!Renew
BY Mapped DEF OneSession!Renew, Handed

LEMMA Beginning ==
    ASSUME IInv, NEW v \in 1 .. MaxVersion, v = account.version, v \notin Handed,
           LiveSession' = v, Handed' = Handed \cup {v}, granted' = v
    PROVE  OneSession!Begin(v)
BY Mapped DEF OneSession!Begin, Handed

\* A token of the current session is handed out and stored.
LEMMA TokenHanded ==
    ASSUME IInv, tokens' = Append(tokens, account.version),
           account'.refresh = Len(tokens) + 1
    PROVE  LiveSession' = account.version /\ Handed' = Handed \cup {account.version}
<1>1. account.version \in Nat /\ tokens \in Seq(Nat) /\ Len(tokens) \in Nat
  BY Types DEF IInv, SessionsTypeOK
<1>2. /\ DOMAIN tokens' = DOMAIN tokens \cup {Len(tokens) + 1}
      /\ tokens'[Len(tokens) + 1] = account.version
      /\ \A t \in DOMAIN tokens : tokens'[t] = tokens[t]
  BY <1>1
<1>3. LiveSession' = account.version  BY <1>1, <1>2 DEF LiveSession
<1>4. Handed' = Handed \cup {account.version}  BY <1>2 DEF Handed
<1>5. QED  BY <1>3, <1>4

LEMMA StoreRefines ==
    ASSUME IInv, NEW r \in Request, Store(r)
    PROVE  OneSession!Next \/ UNCHANGED OneSession!vars
<1>1. CASE StillTheSession(r)
  <2>1. /\ tokens' = Append(tokens, account.version) /\ account.version = op[r].session
        /\ granted' = account.version /\ op[r].pc = "begun"
    BY <1>1 DEF Store, StillTheSession
  <2>2. account'.refresh = Len(tokens) + 1
    <3>1. account' = [account EXCEPT !.refresh = Len(tokens')]  BY <1>1 DEF Store
    <3>2. Len(tokens') = Len(tokens) + 1  BY <2>1, Types DEF IInv, SessionsTypeOK
    <3>3. QED  BY <3>1, <3>2 DEF IInv, SessionsTypeOK, Account
  <2>3. account.version \in 1 .. MaxVersion /\ account.version \notin Handed
    <3>1. Sound(r) /\ account.version <= MaxVersion  BY DEF IInv, TokensOrdered
    <3>2. QED  BY <2>1, <3>1, Limits, Types DEF Sound, Handed
  <2>4. LiveSession' = account.version /\ Handed' = Handed \cup {account.version}
    BY <2>1, <2>2, TokenHanded
  <2>5. PICK v \in 1 .. MaxVersion : v = account.version  BY <2>3
  <2>6. OneSession!Begin(v)  BY <2>1, <2>3, <2>4, <2>5, Beginning
  <2>7. QED  BY <2>6 DEF OneSession!Next
<1>2. CASE ~StillTheSession(r)  BY <1>2, StaysSame DEF Store
<1>3. QED  BY <1>1, <1>2

LEMMA RotateRefines ==
    ASSUME IInv, NEW r \in Request, Rotate(r)
    PROVE  OneSession!Next \/ UNCHANGED OneSession!vars
<1>1. CASE account.version = op[r].session /\ account.refresh = op[r].arg
  <2>1. /\ tokens' = Append(tokens, account.version) /\ granted' = account.version
        /\ account' = Rotated(account, op[r].arg) /\ op[r].pc = "rotate"
    BY <1>1 DEF Rotate
  <2>2. account'.refresh = Len(tokens) + 1
    BY <2>1 DEF Rotated, IInv, SessionsTypeOK, Account
  <2>3. account.refresh # 0
    <3>1. Sound(r) /\ tokens \in Seq(Nat)  BY DEF IInv, SessionsTypeOK
    <3>2. QED  BY <1>1, <2>1, <3>1 DEF Sound
  <2>4. LiveSession' = LiveSession /\ Handed' = Handed
    BY <2>1, <2>2, <2>3, TokenHanded, Mapped
  <2>5. QED  BY <2>1, <2>3, <2>4, Renewing DEF OneSession!Next
<1>2. CASE ~(account.version = op[r].session /\ account.refresh = op[r].arg)
  BY <1>2, StaysSame DEF Rotate
<1>3. QED  BY <1>1, <1>2

LEMMA RefreshRefines ==
    ASSUME IInv, NEW r \in Request, Refresh(r) \/ Reread(r)
    PROVE  OneSession!Next \/ UNCHANGED OneSession!vars
<1>1. account.grace => account.refresh # 0  BY DEF IInv, GraceHasBoth
<1>2. CASE UNCHANGED <<account, tokens, granted>>  BY <1>2, StaysSame
<1>3. CASE account.grace /\ granted' = account.version /\ UNCHANGED <<account, tokens>>
  <2>1. LiveSession' = LiveSession /\ Handed' = Handed  BY <1>3 DEF LiveSession, Handed
  <2>2. QED  BY <1>1, <1>3, <2>1, Renewing DEF OneSession!Next
<1>4. CASE Reread(r)  BY <1>2, <1>3, <1>4 DEF Reread, InGrace, Conflict
<1>5. ASSUME NEW t \in DOMAIN tokens,
             \/ RefreshRefused(r, t) \/ RefreshCurrent(r, t) \/ RefreshReused(r, t)
             \/ RefreshRecovered(r, t)
      PROVE  OneSession!Next \/ UNCHANGED OneSession!vars
  <2>1. CASE RefreshRefused(r, t) \/ RefreshCurrent(r, t) \/ RefreshReused(r, t)
    BY <1>2, <2>1 DEF RefreshRefused, RefreshCurrent, RefreshReused, Quiet
  <2>2. CASE RefreshRecovered(r, t)
    BY <1>3, <2>2 DEF RefreshRecovered, Acceptable, InGrace
  <2>3. QED  BY <1>5, <2>1, <2>2
<1>6. QED  BY <1>4, <1>5 DEF Refresh

LEMMA StepRefines ==
    ASSUME IInv, SessionsNext PROVE OneSession!Next \/ UNCHANGED OneSession!vars
<1>1. account \in Account  BY DEF IInv, SessionsTypeOK
<1>2. CASE account'.refresh = 0 /\ UNCHANGED <<tokens, granted>>
  BY <1>2, Ending DEF OneSession!Next
<1>3. CASE account'.refresh = account.refresh /\ UNCHANGED <<tokens, granted>>
  BY <1>3, StaysSame
<1>4. ASSUME NEW r \in Request, Handler(r) PROVE OneSession!Next \/ UNCHANGED OneSession!vars
  <2>1. CASE \/ RegisterRead(r) \/ ResendRead(r) \/ LoginUnverified(r) \/ LoginRead(r)
             \/ ChangeRead(r) \/ ForgotRead(r) \/ SetCookie(r) \/ ClearCookie(r) \/ Vanish(r)
    BY <1>3, <2>1 DEF RegisterRead, ResendRead, LoginUnverified, LoginRead, ChangeRead,
       ForgotRead, SetCookie, ClearCookie, Vanish, Quiet
  <2>2. CASE Register(r) \/ Reissue(r)
    <3>1. ASSUME NEW a \in Account, a.refresh = account.refresh, account' = Issued(a)
          PROVE  account'.refresh = account.refresh
      BY <3>1 DEF Issued, Account
    <3>2. [account EXCEPT !.stage = "pending"] \in Account
          /\ [account EXCEPT !.stage = "pending"].refresh = account.refresh
      BY <1>1 DEF Account
    <3>3. QED  BY <1>1, <1>3, <2>2, <3>1, <3>2 DEF Register, Reissue
  <2>3. CASE (\E right \in BOOLEAN : Submit(r, right)) \/ Forgot(r)
    BY <1>1, <1>3, <2>3 DEF Submit, Forgot, Account
  <2>4. CASE Begin(r) \/ EndForReuse(r) \/ Logout(r) \/ ChangePassword(r)
    BY <1>2, <2>4, Ended DEF Begin, EndForReuse, Logout, ChangePassword
  <2>5. CASE Complete(r)
    <3>1. CASE StillTheCode(r)
      <4>1. account'.refresh = 0  BY <2>5, <3>1, Ended DEF Complete, Account
      <4>2. QED  BY <1>2, <2>5, <4>1 DEF Complete
    <3>2. CASE ~StillTheCode(r)  BY <1>3, <2>5, <3>2 DEF Complete
    <3>3. QED  BY <3>1, <3>2
  <2>6. CASE Store(r)  BY <2>6, StoreRefines
  <2>7. CASE Rotate(r)  BY <2>7, RotateRefines
  <2>8. CASE Refresh(r) \/ Reread(r)  BY <2>8, RefreshRefines
  <2>9. QED  BY <1>4, <2>1, <2>2, <2>3, <2>4, <2>5, <2>6, <2>7, <2>8 DEF Handler
<1>5. CASE ResetPassword  BY <1>2, <1>5, Ended DEF ResetPassword, Account
<1>6. CASE Ban  BY <1>2, <1>6, Ended DEF Ban, Account
<1>7. CASE Unban  BY <1>1, <1>3, <1>7 DEF Unban, Account
<1>8. CASE Time
  BY <1>1, <1>3, <1>8 DEF Time, GraceEnds, CodeAges, LinkLapses, Account
<1>9. QED  BY <1>4, <1>5, <1>6, <1>7, <1>8 DEF SessionsNext

\* Logins, verifications, rotations, races of two tabs, password changes and bans
\* together behave as one account with at most one live session: a session that
\* ended never lives again, and an access token is for the live one
\* (services/authService.ts over repositories/userRepository.ts).
THEOREM SessionsImplementOne == SessionsSpec => ImplementsOneSession
<1>1. SessionsInit => OneSession!Init
  <2> SUFFICES ASSUME SessionsInit PROVE OneSession!Init
    OBVIOUS
  <2>1. account.refresh = 0 /\ tokens = <<>> /\ granted = 0
    BY DEF SessionsInit, Blank
  <2>2. LiveSession = 0 /\ {tokens[t] : t \in DOMAIN tokens} = {}
    BY <2>1, DOMAIN <<>> = {} DEF LiveSession
  <2>3. QED  BY <2>1, <2>2 DEF OneSession!Init
<1>2. IInv /\ [SessionsNext]_sessionVars => [OneSession!Next]_OneSession!vars
  <2> SUFFICES ASSUME IInv, [SessionsNext]_sessionVars PROVE [OneSession!Next]_OneSession!vars
    OBVIOUS
  <2>1. CASE SessionsNext  BY <2>1, StepRefines
  <2>2. CASE UNCHANGED sessionVars  BY <2>2, StaysSame DEF sessionVars
  <2>3. QED  BY <2>1, <2>2
<1>3. QED
  BY <1>1, <1>2, Invariance, PTL DEF SessionsSpec, ImplementsOneSession, OneSession!Spec

-----------------------------------------------------------------------------
(* Races: which code verifies, and whose token counts as stolen *)

\* A token of the current session is the one stored, the one in its grace period,
\* or one whose grace period ended.
Worn ==
    \A t \in DOMAIN tokens :
        tokens[t] = account.version => t = account.refresh \/ InGrace(t) \/ t \in outworn

\* Of an account that waits for its code, the code in force is the last one sent.
LastCode == account.stage = "pending" => account.code = Len(guesses)

\* A request that is to end the sessions met one that began, and one that clears
\* the cookie of a session comes after its end.
Past(r) ==
    /\ op[r].pc \in {"reused", "change"} => op[r].session <= account.version
    /\ op[r].pc = "clear cookie" => op[r].session < account.version

RaceInv == Worn /\ LastCode /\ \A r \in Request : Past(r)

LEMMA RaceInit == SessionsInit => RaceInv
<1> SUFFICES ASSUME SessionsInit PROVE RaceInv
  OBVIOUS
<1>1. account.stage \in {"none", "verified"}  BY DEF SessionsInit, Blank
<1>2. \A r \in Request : op[r].pc = "idle"  BY DEF SessionsInit, Idle
<1>3. DOMAIN tokens = {}  BY DOMAIN <<>> = {} DEF SessionsInit
<1>4. QED  BY <1>1, <1>2, <1>3 DEF RaceInv, Worn, LastCode, Past

\* The step leaves the session, its tokens and the code in force as they are.
SessionStays ==
    /\ account'.version = account.version /\ account'.refresh = account.refresh
    /\ account'.previous = account.previous /\ account'.grace = account.grace
    /\ account'.stage = account.stage
    /\ UNCHANGED <<tokens, outworn>>

\* Requests that moved are sound where they are.
RequestsPast == \A s \in Request : op'[s] = op[s] \/ Past(s)'

LEMMA PastStays ==
    ASSUME IInv, RaceInv, RequestsPast, account'.version \in Nat,
           account'.version >= account.version
    PROVE  \A s \in Request : Past(s)'
<1> SUFFICES ASSUME NEW s \in Request, op'[s] = op[s] PROVE Past(s)'
  BY DEF RequestsPast
<1>1. Past(s)  BY DEF RaceInv
<1>2. account.version \in Nat /\ op[s].session \in Nat  BY Types
<1>3. /\ op[s].session <= account.version => op[s].session <= account'.version
      /\ op[s].session < account.version => op[s].session < account'.version
  BY <1>2
<1>4. QED  BY <1>1, <1>3 DEF Past

LEMMA RaceStays ==
    ASSUME IInv, RaceInv, SessionStays, RequestsPast,
           account'.code = account.code /\ Len(guesses') = Len(guesses)
    PROVE  RaceInv'
<1>1. Worn'  BY DEF RaceInv, Worn, SessionStays, InGrace
<1>2. LastCode'  BY DEF RaceInv, LastCode, SessionStays
<1>3. \A s \in Request : Past(s)'  BY PastStays, Types DEF SessionStays
<1>4. QED  BY <1>1, <1>2, <1>3 DEF RaceInv

\* Every session ends: no token is of the next one yet.
LEMMA RaceEnds ==
    ASSUME IInv, RaceInv, account'.version = account.version + 1, RequestsPast,
           UNCHANGED <<tokens, guesses>>, account'.stage # "pending" \/
           (account'.stage = account.stage /\ account'.code = account.code)
    PROVE  RaceInv'
<1>1. account.version \in Nat /\ account'.version \in Nat /\ account'.version >= account.version
  BY Types
<1>2. Worn'
  <2>1. \A t \in DOMAIN tokens : tokens[t] # account.version + 1
    BY <1>1 DEF IInv, TokensOrdered
  <2>2. QED  BY <2>1 DEF Worn
<1>3. LastCode'  BY DEF RaceInv, LastCode
<1>4. \A s \in Request : Past(s)'  BY <1>1, PastStays
<1>5. QED  BY <1>2, <1>3, <1>4 DEF RaceInv

\* r moves on to where nothing is asked of it, or stays sound.
LEMMA MovesPast ==
    ASSUME IInv, NEW r \in Request, NEW pc \in Stage, NEW arg \in Nat, NEW session \in Nat,
           Become(r, pc, arg, session),
           pc \in {"reused", "change"} => session <= account'.version,
           pc = "clear cookie" => session < account'.version
    PROVE  RequestsPast
<1>1. /\ op'[r].pc = pc /\ op'[r].session = session
      /\ \A s \in Request \ {r} : op'[s] = op[s]
  BY OneBecomes
<1>2. Past(r)'  BY <1>1 DEF Past
<1>3. QED  BY <1>1, <1>2 DEF RequestsPast

LEMMA DonePast == ASSUME IInv, NEW r \in Request, Done(r) PROVE RequestsPast
BY DoneIsIdle, Types, StageNames, MovesPast

LEMMA NobodyPast == ASSUME UNCHANGED op PROVE RequestsPast
BY DEF RequestsPast

LEMMA StrictlyLess == ASSUME NEW m \in Nat, NEW n \in Nat, m <= n, m # n PROVE m < n
OBVIOUS

LEMMA OneLonger ==
    ASSUME NEW s \in Seq(Nat), NEW n \in Nat
    PROVE  /\ Len(Append(s, n)) = Len(s) + 1
           /\ DOMAIN Append(s, n) = DOMAIN s \cup {Len(s) + 1}
           /\ \A i \in DOMAIN s : Append(s, n)[i] = s[i]
OBVIOUS

\* Steps of a request that leave the document alone.
LEMMA RaceQuiet ==
    ASSUME IInv, RaceInv, NEW r \in Request,
           \/ RegisterRead(r) \/ ResendRead(r) \/ LoginUnverified(r) \/ LoginRead(r)
           \/ Refresh(r) \/ Reread(r) \/ ChangeRead(r) \/ ForgotRead(r)
           \/ SetCookie(r) \/ ClearCookie(r) \/ Vanish(r)
    PROVE  RaceInv'
<1>1. ASSUME UNCHANGED <<account, tokens, guesses, outworn>>, RequestsPast PROVE RaceInv'
  BY <1>1, RaceStays DEF SessionStays
<1>2. CASE \E pc \in {"register", "reissue", "checked", "forgot"} : Become(r, pc, 0, 0) /\ Quiet
  <2>1. PICK pc \in {"register", "reissue", "checked", "forgot"} : Become(r, pc, 0, 0) /\ Quiet
    BY <1>2
  <2>2. pc \in Stage /\ pc \notin {"reused", "change", "clear cookie"}  BY StageNames
  <2>3. QED  BY <1>1, <2>1, <2>2, MovesPast DEF Quiet
<1>3. CASE RegisterRead(r)  BY <1>2, <1>3 DEF RegisterRead
<1>4. CASE ResendRead(r) \/ LoginUnverified(r) \/ LoginRead(r) \/ ForgotRead(r)
  BY <1>2, <1>4 DEF ResendRead, LoginUnverified, LoginRead, ForgotRead
<1>5. CASE ChangeRead(r)
  <2>1. Become(r, "change", 0, account.version) /\ Quiet  BY <1>5 DEF ChangeRead
  <2>2. account.version \in Nat /\ account.version <= account'.version  BY <2>1, Types DEF Quiet
  <2>3. QED  BY <1>1, <2>1, <2>2, StageNames, MovesPast DEF Quiet
<1>6. CASE Refresh(r)
  <2>1. PICK t \in DOMAIN tokens : \/ RefreshRefused(r, t) \/ RefreshCurrent(r, t)
                                   \/ RefreshRecovered(r, t) \/ RefreshReused(r, t)
    BY <1>6 DEF Refresh
  <2>2. /\ t \in Nat /\ tokens[t] \in Nat /\ account.version \in Nat
        /\ tokens[t] <= account.version
    BY Types DEF IInv, TokensOrdered
  <2>3. CASE RefreshRefused(r, t)
    <3>1. PICK pc \in {"clear cookie", "clear blocked"} :
             /\ Become(r, pc, t, tokens[t]) /\ Quiet
             /\ pc = "clear cookie" => tokens[t] # account.version
      BY <2>3 DEF RefreshRefused
    <3>2. tokens[t] # account.version => tokens[t] < account.version  BY <2>2, StrictlyLess
    <3>3. pc = "clear cookie" => tokens[t] < account'.version  BY <3>1, <3>2 DEF Quiet
    <3>4. QED  BY <1>1, <2>2, <3>1, <3>3, StageNames, MovesPast DEF Quiet
  <2>4. CASE RefreshCurrent(r, t)
    BY <1>1, <2>2, <2>4, StageNames, MovesPast DEF RefreshCurrent, Quiet
  <2>5. CASE RefreshReused(r, t)
    BY <1>1, <2>2, <2>5, StageNames, MovesPast DEF RefreshReused, Quiet
  <2>6. CASE RefreshRecovered(r, t)  BY <1>1, <2>6, NobodyPast DEF RefreshRecovered
  <2>7. QED  BY <2>1, <2>3, <2>4, <2>5, <2>6
<1>7. CASE Reread(r)  BY <1>1, <1>7, DonePast DEF Reread, Conflict
<1>8. CASE SetCookie(r) \/ ClearCookie(r) \/ Vanish(r)
  BY <1>1, <1>8, DonePast DEF SetCookie, ClearCookie, Vanish, Quiet
<1>9. QED  BY <1>3, <1>4, <1>5, <1>6, <1>7, <1>8

LEMMA RaceFields ==
    ASSUME IInv, RaceInv, Unban \/ Time \/ \E r \in Request : Forgot(r)
    PROVE  RaceInv'
<1>1. account \in Account  BY DEF IInv, SessionsTypeOK
<1>2. CASE Unban \/ LinkLapses \/ CodeAges
  <2>1. /\ SessionStays /\ account'.code = account.code
        /\ UNCHANGED <<guesses, op>>
    BY <1>1, <1>2 DEF Unban, LinkLapses, CodeAges, SessionStays, Account
  <2>2. QED  BY <2>1, NobodyPast, RaceStays
<1>3. ASSUME NEW r \in Request, Forgot(r) PROVE RaceInv'
  <2>1. /\ SessionStays /\ account'.code = account.code
        /\ UNCHANGED guesses /\ Done(r)
    BY <1>1, <1>3 DEF Forgot, SessionStays, Account
  <2>2. QED  BY <2>1, DonePast, RaceStays
<1>4. CASE GraceEnds
  <2>1. /\ account'.version = account.version /\ account'.refresh = account.refresh
        /\ account'.stage = account.stage /\ account'.code = account.code
        /\ outworn' = outworn \cup {account.previous} /\ UNCHANGED <<tokens, guesses, op>>
    BY <1>1, <1>4 DEF GraceEnds, Account
  <2>2. Worn'  BY <2>1 DEF RaceInv, Worn, InGrace
  <2>3. LastCode'  BY <2>1 DEF RaceInv, LastCode
  <2>4. \A s \in Request : Past(s)'  BY <2>1, Types, NobodyPast, PastStays
  <2>5. QED  BY <2>2, <2>3, <2>4 DEF RaceInv
<1>5. QED  BY <1>2, <1>3, <1>4 DEF Time

LEMMA RaceEndSteps ==
    ASSUME IInv, RaceInv,
           \/ ResetPassword \/ Ban
           \/ \E r \in Request : \/ Complete(r) \/ Begin(r) \/ EndForReuse(r) \/ Logout(r)
                                 \/ ChangePassword(r)
    PROVE  RaceInv'
<1>1. /\ account \in Account /\ EndSessions(account).stage = account.stage
      /\ account.version \in Nat
  BY Types DEF IInv, SessionsTypeOK, EndSessions, Bumped, Account
<1>2. CASE ResetPassword \/ Ban
  <2>1. /\ account'.version = account.version + 1 /\ account'.stage = account.stage
        /\ account'.code = account.code /\ UNCHANGED <<tokens, guesses, op>>
    BY <1>1, <1>2, Ended DEF ResetPassword, Ban, Account
  <2>2. QED  BY <2>1, NobodyPast, RaceEnds
<1>3. ASSUME NEW r \in Request, Begin(r) \/ EndForReuse(r) \/ Logout(r) \/ ChangePassword(r)
      PROVE  RaceInv'
  <2>1. /\ account'.version = account.version + 1 /\ account'.stage = account.stage
        /\ account'.code = account.code /\ UNCHANGED <<tokens, guesses>>
    BY <1>1, <1>3, Ended DEF Begin, EndForReuse, Logout, ChangePassword
  <2>2. Past(r) /\ op[r].session \in Nat /\ op[r].arg \in Nat  BY Types DEF RaceInv
  <2>3. op[r].session <= account.version => op[r].session < account'.version
    BY <1>1, <2>1, <2>2
  <2>4. CASE Begin(r)
    <3>1. Become(r, "begun", 0, account.version + 1) /\ account.version + 1 \in Nat
      BY <1>1, <2>4 DEF Begin
    <3>2. QED  BY <2>1, <3>1, RaceEnds, StageNames, MovesPast
  <2>5. CASE EndForReuse(r)
    <3>1. op[r].session < account'.version  BY <2>2, <2>3, <2>5 DEF EndForReuse, Past
    <3>2. Become(r, "clear cookie", op[r].arg, op[r].session)  BY <2>5 DEF EndForReuse
    <3>3. QED  BY <2>1, <2>2, <3>1, <3>2, RaceEnds, StageNames, MovesPast
  <2>6. CASE Logout(r)
    <3>1. account.version < account'.version  BY <1>1, <2>1
    <3>2. Become(r, "clear cookie", 0, account.version)  BY <2>6 DEF Logout
    <3>3. QED  BY <1>1, <2>1, <3>1, <3>2, RaceEnds, StageNames, MovesPast
  <2>7. CASE ChangePassword(r)
    <3>1. op[r].session < account'.version  BY <2>2, <2>3, <2>7 DEF ChangePassword, Past
    <3>2. Become(r, "clear cookie", 0, op[r].session)  BY <2>7 DEF ChangePassword
    <3>3. QED  BY <2>1, <2>2, <3>1, <3>2, RaceEnds, StageNames, MovesPast
  <2>8. QED  BY <1>3, <2>4, <2>5, <2>6, <2>7
<1>4. ASSUME NEW r \in Request, Complete(r) PROVE RaceInv'
  <2>1. CASE StillTheCode(r)
    <3>1. /\ account'.version = account.version + 1 /\ account'.stage = "verified"
          /\ UNCHANGED <<tokens, guesses>>
      BY <1>1, <1>4, <2>1, Ended DEF Complete, Account
    <3>2. Become(r, "begun", 0, account.version + 1) /\ account.version + 1 \in Nat
      BY <1>1, <1>4, <2>1 DEF Complete
    <3>3. QED  BY <3>1, <3>2, RaceEnds, StageNames, MovesPast
  <2>2. CASE ~StillTheCode(r)
    <3>1. Done(r) /\ UNCHANGED <<account, tokens, guesses, outworn>>
      BY <1>4, <2>2 DEF Complete
    <3>2. QED  BY <3>1, DonePast, RaceStays DEF SessionStays
  <2>3. QED  BY <2>1, <2>2
<1>5. QED  BY <1>2, <1>3, <1>4

LEMMA RaceCodes ==
    ASSUME IInv, RaceInv, NEW r \in Request,
           Register(r) \/ Reissue(r) \/ \E right \in BOOLEAN : Submit(r, right)
    PROVE  RaceInv'
<1>1. account \in Account /\ guesses \in Seq(Nat) /\ account.code \in Nat
  BY DEF IInv, SessionsTypeOK, Account
<1>2. ASSUME NEW a \in Account, a.version = account.version, a.refresh = account.refresh,
             a.previous = account.previous, a.grace = account.grace,
             account' = Issued(a), guesses' = Append(guesses, 0),
             UNCHANGED <<tokens, outworn>>, Done(r)
      PROVE  RaceInv'
  <2>1. /\ account'.version = account.version /\ account'.refresh = account.refresh
        /\ account'.previous = account.previous /\ account'.grace = account.grace
        /\ account'.code = Len(guesses) + 1
    BY <1>2 DEF Issued, Account
  <2>2. Len(guesses') = Len(guesses) + 1  BY <1>1, <1>2
  <2>3. Worn'  BY <1>2, <2>1 DEF RaceInv, Worn, InGrace
  <2>4. LastCode'  BY <2>1, <2>2 DEF LastCode
  <2>5. \A s \in Request : Past(s)'  BY <1>2, <2>1, Types, DonePast, PastStays
  <2>6. QED  BY <2>3, <2>4, <2>5 DEF RaceInv
<1>3. CASE Reissue(r)  BY <1>1, <1>2, <1>3 DEF Reissue
<1>4. CASE Register(r) /\ account.stage = "none"
  <2>1. [account EXCEPT !.stage = "pending"] \in Account  BY <1>1 DEF Account
  <2>2. /\ [account EXCEPT !.stage = "pending"].version = account.version
        /\ [account EXCEPT !.stage = "pending"].refresh = account.refresh
        /\ [account EXCEPT !.stage = "pending"].previous = account.previous
        /\ [account EXCEPT !.stage = "pending"].grace = account.grace
    BY <1>1 DEF Account
  <2>3. QED  BY <1>2, <1>4, <2>1, <2>2 DEF Register
<1>5. CASE Register(r) /\ account.stage # "none"
  BY <1>5, DonePast, RaceStays DEF Register, SessionStays
<1>6. ASSUME NEW right \in BOOLEAN, Submit(r, right) PROVE RaceInv'
  <2>1. SessionStays /\ account'.code = account.code
    BY <1>1, <1>6 DEF Submit, SessionStays, Account
  <2>2. Len(guesses') = Len(guesses)
    <3>1. guesses' = [guesses EXCEPT ![account.code] = guesses[account.code] + 1]
      BY <1>6 DEF Submit
    <3>2. guesses' \in Seq(Nat) /\ DOMAIN guesses' = DOMAIN guesses  BY <1>1, <3>1, CountUp
    <3>3. QED  BY <1>1, <3>2
  <2>3. \E pc \in {"idle", "matched"} : Become(r, pc, IF pc = "idle" THEN 0 ELSE account.code, 0)
    BY <1>6, DoneIsIdle DEF Submit
  <2>4. RequestsPast  BY <1>1, <2>3, StageNames, MovesPast
  <2>5. QED  BY <2>1, <2>2, <2>4, RaceStays
<1>7. QED  BY <1>3, <1>4, <1>5, <1>6

LEMMA RaceStores == ASSUME IInv, RaceInv, NEW r \in Request, Store(r) PROVE RaceInv'
<1>1. account \in Account /\ tokens \in Seq(Nat) /\ Len(tokens) \in Nat
      /\ op[r].session \in Nat /\ account.version \in Nat
  BY Types DEF IInv, SessionsTypeOK
<1>2. CASE StillTheSession(r)
  <2>1. /\ tokens' = Append(tokens, op[r].session) /\ account.version = op[r].session
        /\ account' = [account EXCEPT !.refresh = Len(tokens')]
        /\ Become(r, "set cookie", Len(tokens'), op[r].session)
        /\ op[r].pc = "begun" /\ UNCHANGED <<guesses, outworn>>
    BY <1>2 DEF Store, StillTheSession
  <2>2. /\ Len(tokens') = Len(tokens) + 1 /\ DOMAIN tokens' = DOMAIN tokens \cup {Len(tokens')}
        /\ \A t \in DOMAIN tokens : tokens'[t] = tokens[t]
    BY <1>1, <2>1, OneLonger
  <2>3. /\ account'.version = account.version /\ account'.refresh = Len(tokens')
        /\ account'.stage = account.stage /\ account'.code = account.code
    BY <1>1, <2>1 DEF Account
  <2>4. \A t \in DOMAIN tokens : tokens[t] # account.version
    <3>1. Sound(r)  BY DEF IInv
    <3>2. QED  BY <2>1, <3>1 DEF Sound
  <2>5. Worn'  BY <2>2, <2>3, <2>4 DEF Worn
  <2>6. LastCode'  BY <2>1, <2>3 DEF RaceInv, LastCode
  <2>7. RequestsPast
    <3>1. Len(tokens') \in Nat  BY <1>1, <2>2
    <3>2. QED  BY <1>1, <2>1, <3>1, StageNames, MovesPast
  <2>8. \A s \in Request : Past(s)'  BY <1>1, <2>3, <2>7, PastStays
  <2>9. QED  BY <2>5, <2>6, <2>8 DEF RaceInv
<1>3. CASE ~StillTheSession(r)
  BY <1>3, DonePast, RaceStays DEF Store, SessionStays
<1>4. QED  BY <1>2, <1>3

\* The token that is replaced has its grace period, and the one before wears out.
LEMMA RaceRotates == ASSUME IInv, RaceInv, NEW r \in Request, Rotate(r) PROVE RaceInv'
<1>1. account \in Account /\ tokens \in Seq(Nat) /\ Len(tokens) \in Nat
      /\ op[r].session \in Nat /\ op[r].arg \in Nat /\ account.version \in Nat
  BY Types DEF IInv, SessionsTypeOK
<1>2. CASE account.version = op[r].session /\ account.refresh = op[r].arg
  <2>1. /\ tokens' = Append(tokens, op[r].session)
        /\ account' = Rotated(account, op[r].arg)
        /\ outworn' = IF account.grace THEN outworn \cup {account.previous} ELSE outworn
        /\ Become(r, "set cookie", Len(tokens'), op[r].session)
        /\ UNCHANGED guesses
    BY <1>2 DEF Rotate
  <2>2. /\ Len(tokens') = Len(tokens) + 1 /\ DOMAIN tokens' = DOMAIN tokens \cup {Len(tokens')}
        /\ \A t \in DOMAIN tokens : tokens'[t] = tokens[t]
    BY <1>1, <2>1, OneLonger
  <2>3. /\ account'.version = account.version /\ account'.refresh = Len(tokens')
        /\ account'.previous = account.refresh /\ account'.grace
        /\ account'.stage = account.stage /\ account'.code = account.code
    <3>1. account' = [account EXCEPT !.refresh = Len(tokens) + 1, !.previous = op[r].arg,
                                     !.grace = TRUE]
      BY <2>1 DEF Rotated
    <3>2. QED  BY <1>1, <1>2, <2>2, <3>1 DEF Account
  <2>4. ASSUME NEW t \in DOMAIN tokens, tokens[t] = account.version
        PROVE  t = account'.previous \/ t \in outworn'
    <3>1. t = account.refresh \/ InGrace(t) \/ t \in outworn  BY <2>4 DEF RaceInv, Worn
    <3>2. QED  BY <2>1, <2>3, <3>1 DEF InGrace
  <2>5. Worn'  BY <2>2, <2>3, <2>4 DEF Worn, InGrace
  <2>6. LastCode'  BY <2>1, <2>3 DEF RaceInv, LastCode
  <2>7. RequestsPast
    <3>1. Len(tokens') \in Nat  BY <1>1, <2>2
    <3>2. QED  BY <1>1, <2>1, <3>1, StageNames, MovesPast
  <2>8. \A s \in Request : Past(s)'  BY <1>1, <2>3, <2>7, PastStays
  <2>9. QED  BY <2>5, <2>6, <2>8 DEF RaceInv
<1>3. CASE ~(account.version = op[r].session /\ account.refresh = op[r].arg)
  <2>1. Become(r, "lost", op[r].arg, op[r].session)
        /\ UNCHANGED <<account, tokens, guesses, outworn>>
    BY <1>3 DEF Rotate
  <2>2. RequestsPast  BY <1>1, <2>1, StageNames, MovesPast
  <2>3. QED  BY <2>1, <2>2, RaceStays DEF SessionStays
<1>4. QED  BY <1>2, <1>3

LEMMA RaceStep == ASSUME IInv, RaceInv, [SessionsNext]_sessionVars PROVE RaceInv'
<1>1. ASSUME NEW r \in Request, Handler(r) PROVE RaceInv'
  <2>1. CASE \/ RegisterRead(r) \/ ResendRead(r) \/ LoginUnverified(r) \/ LoginRead(r)
             \/ Refresh(r) \/ Reread(r) \/ ChangeRead(r) \/ ForgotRead(r)
             \/ SetCookie(r) \/ ClearCookie(r) \/ Vanish(r)
    BY <2>1, RaceQuiet
  <2>2. CASE Register(r) \/ Reissue(r) \/ \E right \in BOOLEAN : Submit(r, right)
    BY <2>2, RaceCodes
  <2>3. CASE Complete(r) \/ Begin(r) \/ EndForReuse(r) \/ Logout(r) \/ ChangePassword(r)
    BY <2>3, RaceEndSteps
  <2>4. CASE Store(r)  BY <2>4, RaceStores
  <2>5. CASE Rotate(r)  BY <2>5, RaceRotates
  <2>6. CASE Forgot(r)  BY <2>6, RaceFields
  <2>7. QED  BY <1>1, <2>1, <2>2, <2>3, <2>4, <2>5, <2>6 DEF Handler
<1>2. CASE ResetPassword \/ Ban  BY <1>2, RaceEndSteps
<1>3. CASE Unban \/ Time  BY <1>3, RaceFields
<1>4. CASE UNCHANGED sessionVars
  BY <1>4, NobodyPast, RaceStays DEF sessionVars, SessionStays
<1>5. QED  BY <1>1, <1>2, <1>3, <1>4 DEF SessionsNext

LEMMA RaceInvariance == SessionsSpec => [](IInv /\ RaceInv)
<1>1. IInv /\ RaceInv /\ [SessionsNext]_sessionVars => RaceInv'  BY RaceStep
<1>2. QED  BY <1>1, RaceInit, Invariance, PTL DEF SessionsSpec

\* An account is verified with the last code that was sent, never with one that a
\* resend replaced between the comparison and the update (atomicVerifyAndComplete).
THEOREM LastCodeVerifies == SessionsSpec => OnlyTheLastCodeVerifies
<1>1. ASSUME IInv, RaceInv, SessionsNext,
             account.stage = "pending", account'.stage = "verified"
      PROVE  \E r \in Request : op[r].pc = "matched" /\ op[r].arg = Len(guesses)
  <2>1. account \in Account  BY <1>1 DEF IInv, SessionsTypeOK
  <2>2. PICK r \in Request : Complete(r)
    <3>1. EndSessions(account).stage = account.stage  BY <2>1 DEF EndSessions, Bumped, Account
    <3>2. ASSUME ResetPassword \/ Ban \/ Unban \/ Time PROVE FALSE
      BY <1>1, <2>1, <3>1, <3>2, Ended
      DEF ResetPassword, Ban, Unban, Time, GraceEnds, CodeAges, LinkLapses, Account
    <3>3. ASSUME NEW r \in Request, Handler(r) PROVE Complete(r)
      <4>1. ASSUME UNCHANGED account PROVE FALSE  BY <1>1, <4>1
      <4>2. CASE \/ RegisterRead(r) \/ ResendRead(r) \/ LoginUnverified(r) \/ LoginRead(r)
                 \/ Refresh(r) \/ Reread(r) \/ ChangeRead(r) \/ ForgotRead(r)
                 \/ SetCookie(r) \/ ClearCookie(r) \/ Vanish(r)
        BY <4>1, <4>2 DEF RegisterRead, ResendRead, LoginUnverified, LoginRead, Refresh,
           RefreshRefused, RefreshCurrent, RefreshRecovered, RefreshReused, Reread,
           ChangeRead, ForgotRead, SetCookie, ClearCookie, Vanish, Quiet
      <4>3. CASE Register(r)  BY <1>1, <4>1, <4>3 DEF Register
      <4>4. CASE Reissue(r)  BY <1>1, <2>1, <4>4 DEF Reissue, Issued, Account
      <4>5. CASE (\E right \in BOOLEAN : Submit(r, right)) \/ Forgot(r)
        BY <1>1, <2>1, <4>5 DEF Submit, Forgot, Account
      <4>6. CASE Begin(r) \/ EndForReuse(r) \/ Logout(r) \/ ChangePassword(r)
        BY <1>1, <3>1, <4>6 DEF Begin, EndForReuse, Logout, ChangePassword
      <4>7. CASE Store(r) \/ Rotate(r)
        BY <1>1, <2>1, <4>7 DEF Store, Rotate, Rotated, Account
      <4>8. QED  BY <3>3, <4>2, <4>3, <4>4, <4>5, <4>6, <4>7 DEF Handler
    <3>4. QED  BY <1>1, <3>2, <3>3 DEF SessionsNext
  <2>3. op[r].pc = "matched" /\ StillTheCode(r)  BY <1>1, <2>2 DEF Complete
  <2>4. account.code = Len(guesses)  BY <1>1 DEF RaceInv, LastCode
  <2>5. QED  BY <2>3, <2>4 DEF StillTheCode
<1>2. ASSUME IInv, RaceInv, [SessionsNext]_sessionVars
      PROVE  [account.stage = "pending" /\ account'.stage = "verified"
                => \E r \in Request : /\ op[r].pc = "matched"
                                      /\ op[r].arg = Len(guesses)]_sessionVars
  BY <1>1, <1>2
<1>3. QED  BY <1>2, RaceInvariance, PTL DEF SessionsSpec, OnlyTheLastCodeVerifies

\* Only RefreshReused takes a token for a stolen one.
LEMMA ReuseIsMet ==
    ASSUME IInv, SessionsNext, NEW r \in Request, op[r].pc # "reused", op'[r].pc = "reused"
    PROVE  \E t \in DOMAIN tokens : RefreshReused(r, t)
<1>1. ASSUME NEW q \in Request, NEW pc \in Stage, NEW arg \in Nat, NEW session \in Nat,
             Become(q, pc, arg, session), pc # "reused"
      PROVE  FALSE
  BY <1>1, OneBecomes
<1>2. ASSUME NEW q \in Request, Done(q) PROVE FALSE
  BY <1>1, <1>2, DoneIsIdle, StageNames
<1>3. ASSUME UNCHANGED op PROVE FALSE  BY <1>3
<1>4. ASSUME ResetPassword \/ Ban \/ Unban \/ Time PROVE FALSE
  BY <1>3, <1>4 DEF ResetPassword, Ban, Unban, Time, GraceEnds, CodeAges, LinkLapses
<1>5. ASSUME NEW q \in Request, Handler(q), ~Refresh(q) PROVE FALSE
  <2>1. op[q].arg \in Nat /\ op[q].session \in Nat /\ account.version + 1 \in Nat
        /\ account.version \in Nat /\ account.code \in Nat
    BY Types DEF IInv, SessionsTypeOK, Account
  <2>2. CASE \E pc \in {"register", "reissue", "checked", "forgot"} : Become(q, pc, 0, 0)
    BY <1>1, <2>2, StageNames
  <2>3. CASE RegisterRead(q) \/ ResendRead(q) \/ LoginUnverified(q) \/ LoginRead(q)
             \/ ForgotRead(q)
    BY <2>2, <2>3 DEF RegisterRead, ResendRead, LoginUnverified, LoginRead, ForgotRead
  <2>4. CASE Register(q) \/ Reissue(q) \/ Forgot(q) \/ Reread(q) \/ SetCookie(q)
             \/ ClearCookie(q) \/ Vanish(q)
    BY <1>2, <2>4 DEF Register, Reissue, Forgot, Reread, Conflict, SetCookie, ClearCookie, Vanish
  <2>5. CASE \E right \in BOOLEAN : Submit(q, right)
    BY <1>1, <1>2, <2>1, <2>5, StageNames DEF Submit
  <2>6. CASE Complete(q) \/ Begin(q)
    BY <1>1, <1>2, <2>1, <2>6, StageNames DEF Complete, Begin
  <2>7. CASE EndForReuse(q) \/ Logout(q) \/ ChangeRead(q) \/ ChangePassword(q)
    BY <1>1, <2>1, <2>7, StageNames DEF EndForReuse, Logout, ChangeRead, ChangePassword
  <2>8. CASE Store(q) \/ Rotate(q)
    <3>1. ASSUME NEW n, Become(q, "set cookie", n, op[q].session) PROVE FALSE
      BY <3>1 DEF Become, IInv, SessionsTypeOK
    <3>2. ASSUME Become(q, "lost", op[q].arg, op[q].session) PROVE FALSE
      BY <1>1, <2>1, <3>2, StageNames
    <3>3. QED  BY <1>2, <2>8, <3>1, <3>2 DEF Store, Rotate
  <2>9. QED  BY <1>5, <2>3, <2>4, <2>5, <2>6, <2>7, <2>8 DEF Handler
<1>6. PICK q \in Request : Refresh(q)  BY <1>4, <1>5 DEF SessionsNext
<1>7. PICK t \in DOMAIN tokens : \/ RefreshRefused(q, t) \/ RefreshCurrent(q, t)
                                 \/ RefreshRecovered(q, t) \/ RefreshReused(q, t)
  BY <1>6 DEF Refresh
<1>8. t \in Nat /\ tokens[t] \in Nat  BY Types
<1>9. ~RefreshRefused(q, t) /\ ~RefreshCurrent(q, t) /\ ~RefreshRecovered(q, t)
  BY <1>1, <1>3, <1>8, StageNames DEF RefreshRefused, RefreshCurrent, RefreshRecovered
<1>10. RefreshReused(q, t)  BY <1>7, <1>9
<1>11. q = r
  BY <1>8, <1>10, StageNames, OneBecomes DEF RefreshReused
<1>12. QED  BY <1>10, <1>11

\* Tabs that race for a rotation cost each other nothing: a token counts as stolen
\* only when its grace period is over or its session was, and a cookie is cleared for
\* its own session only when that one is over (refreshLogic, refreshAccessToken).
THEOREM RacersKeepTheirSession == SessionsSpec => RacersAreNotThieves
<1>1. ASSUME IInv, RaceInv, SessionsNext, NEW r \in Request,
             op[r].pc # "reused", op'[r].pc = "reused"
      PROVE  op'[r].arg \in outworn
  <2>1. PICK t \in DOMAIN tokens : RefreshReused(r, t)  BY <1>1, ReuseIsMet
  <2>2. t \in outworn
    BY <1>1, <2>1 DEF RefreshReused, Acceptable, RaceInv, Worn
  <2>3. op'[r].arg = t
    BY <1>1, <2>1 DEF RefreshReused, Become, IInv, SessionsTypeOK
  <2>4. QED  BY <2>2, <2>3
<1>2. ASSUME IInv, RaceInv, NEW r \in Request, op[r].pc = "clear cookie",
             op[r].session = tokens[cookie]
      PROVE  tokens[cookie] # account.version
  <2>1. op[r].session < account.version  BY <1>2 DEF RaceInv, Past
  <2>2. op[r].session \in Nat /\ account.version \in Nat  BY <1>2, Types
  <2>3. op[r].session # account.version  BY <2>1, <2>2
  <2>4. QED  BY <1>2, <2>3
<1>3. ASSUME IInv, RaceInv, [SessionsNext]_sessionVars
      PROVE  [\A r \in Request :
                /\ op[r].pc # "reused" /\ op'[r].pc = "reused" =>
                      op'[r].arg \in outworn \/ op'[r].session # account.version
                /\ op[r].pc = "clear cookie" /\ cookie # 0 /\ cookie' = 0
                      /\ op[r].session = tokens[cookie] /\ op'[r].pc = "idle" =>
                      tokens[cookie] # account.version]_sessionVars
  BY <1>1, <1>2, <1>3
<1>4. QED  BY <1>3, RaceInvariance, PTL DEF SessionsSpec, RacersAreNotThieves
=============================================================================
