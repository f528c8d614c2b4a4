----------------------------- MODULE Admission ------------------------------
(***************************************************************************)
(* Who is let in, over HTTP and over a socket: resolveAccessIdentity of     *)
(* middlewares/auth.ts over the session cache of every server process, the  *)
(* runtime bus that carries invalidations between them, and the sockets.    *)
(*                                                                          *)
(* One account is modelled.  A write to it (login, the end of a session, a  *)
(* ban, its lifting) commits, and then the process that wrote drops its own *)
(* entry, publishes the invalidation and, for a ban, disconnects; a login   *)
(* commits twice first.  A check that misses the cache reads the account    *)
(* and fills the cache later.  The message may be lost, and a handler may   *)
(* end with an error or its process die at any step.                        *)
(***************************************************************************)
EXTENDS Naturals, FiniteSets

CONSTANTS
    Node,          \* server processes
    Connection,    \* HTTP requests and socket connections
    Ttl,           \* SESSION_CACHE_TTL_MS, in ticks
    MaxSession     \* bound of the model only

ASSUME AdmissionAssumption == Ttl \in Nat \ {0} /\ MaxSession \in Nat

VARIABLES
    account,   \* sessionVersion and isBanned of the user document
    begun,     \* sessions an access token was handed out for
    cache,     \* the entry of each process that has one
    bus,       \* processes an invalidation is on its way to
    missed,    \* processes whose entry an invalidation never reached, or was never sent to
    writer,    \* what a process still has to do after a commit
    fresh,     \* the session its login has begun, 0 is none
    conn       \* the requests and connections there are

writing       == <<writer, fresh>>
admissionVars == <<account, begun, cache, bus, missed, writing, conn>>

AdmissionInit ==
    /\ account = [session |-> 1, banned |-> FALSE]
    /\ begun = {1}
    /\ cache = <<>> /\ bus = {} /\ missed = {}
    /\ writer = [n \in Node |-> "idle"] /\ fresh = [n \in Node |-> 0]
    /\ conn = <<>>

Idle(k) == k \notin DOMAIN conn

At(k, pc) == k \in DOMAIN conn /\ conn[k].pc = pc

\* The connections that are left when those that satisfy some test are closed.
Closing(ks) == [k \in DOMAIN conn \ ks |-> conn[k]]

\* f with the value v at x, new or not.
With(f, x, v) == [y \in DOMAIN f \cup {x} |-> IF y = x THEN v ELSE f[y]]

Become(k, c) == conn' = With(conn, k, c)

\* The cache without the entries of some processes.
Without(ns) == [n \in DOMAIN cache \ ns |-> cache[n]]

-----------------------------------------------------------------------------
(* The cache: a fixed time to live, and invalidation *)

Hit(n) == n \in DOMAIN cache /\ cache[n].age < Ttl

\* Mutant: reading an entry renews it.
ReadRenewing(n) == [cache EXCEPT ![n].age = 0]

\* Reading an entry never renews its time to live.
Read(n) == cache

\* `late' records that the account has changed since it was read.
Fill(n, state) == With(cache, n, [state |-> state, age |-> 0, late |-> state # account])

\* Mutant: only the process itself forgets.
ToldNobody(n) == bus

Told(n) == bus \cup (Node \ {n})

\* invalidate: drop the entry here, publish to the others.
Invalidate(n, c) ==
    /\ cache' = [m \in DOMAIN c \ {n} |-> c[m]]
    /\ missed' = missed \ {n}
    /\ bus' = Told(n)

Tick ==
    /\ \E n \in DOMAIN cache : cache[n].age < Ttl
    /\ cache' = [n \in DOMAIN cache |->
                   [cache[n] EXCEPT !.age = IF @ < Ttl THEN @ + 1 ELSE @]]
    /\ UNCHANGED <<account, begun, bus, missed, writing, conn>>

\* prune, and the eviction that makes room: an entry may go at any time.
Prune(n) ==
    /\ n \in DOMAIN cache
    /\ cache' = Without({n}) /\ missed' = missed \ {n}
    /\ UNCHANGED <<account, begun, bus, writing, conn>>

Deliver(n) ==
    /\ n \in bus
    /\ bus' = bus \ {n} /\ cache' = Without({n}) /\ missed' = missed \ {n}
    /\ UNCHANGED <<account, begun, writing, conn>>

\* publish fails or the subscriber is away; the failure is only logged.
Lose(n) ==
    /\ n \in bus
    /\ bus' = bus \ {n}
    /\ missed' = missed \cup ({n} \cap DOMAIN cache)
    /\ UNCHANGED <<account, begun, cache, writing, conn>>

-----------------------------------------------------------------------------
(* Checks *)

\* What resolveAccessIdentity makes of the state it got, cache c in place.
Decide(k, n, s, state, c) ==
    IF ~state.banned /\ state.session # s
    THEN Invalidate(n, c) /\ conn' = Closing({k})
    ELSE /\ cache' = c /\ UNCHANGED <<missed, bus>>
         /\ IF state.banned THEN conn' = Closing({k})
            ELSE Become(k, [pc |-> "admitted", node |-> n])

CheckCached(k, n, s) ==
    /\ Idle(k) /\ Hit(n)
    /\ Decide(k, n, s, cache[n].state, Read(n))
    /\ UNCHANGED <<account, begun, writing>>

\* A miss; get has deleted an entry past its time.
CheckMisses(k, n, s) ==
    /\ Idle(k) /\ ~Hit(n)
    /\ cache' = Without({n}) /\ missed' = missed \ {n}
    /\ Become(k, [pc |-> "read", node |-> n, session |-> s, state |-> account])
    /\ UNCHANGED <<account, begun, bus, writing>>

\* The answer of findAuthStateById arrives, and the entry is set whatever was
\* invalidated since the account was read.
CheckLoaded(k) ==
    /\ At(k, "read")
    /\ LET n == conn[k].node
           c == Fill(n, conn[k].state)
       IN  /\ Decide(k, n, conn[k].session, conn[k].state, c)
    /\ UNCHANGED <<account, begun, writing>>

\* A connection enters the room of its user.
Join(k) ==
    /\ At(k, "admitted")
    /\ conn' = [conn EXCEPT ![k].pc = "joined"]
    /\ UNCHANGED <<account, begun, cache, bus, missed, writing>>

\* A request is answered, or a client hangs up.
Leave(k) ==
    /\ At(k, "admitted") \/ At(k, "joined")
    /\ conn' = Closing({k})
    /\ UNCHANGED <<account, begun, cache, bus, missed, writing>>

\* Mutant: the timer only warns.
TimerFiresIdly(k) == FALSE

TimerFires(k) == At(k, "joined")

\* scheduleTokenLifecycle: the access token the socket came with expires.
TokenExpires(k) ==
    /\ TimerFires(k)
    /\ conn' = Closing({k})
    /\ UNCHANGED <<account, begun, cache, bus, missed, writing>>

-----------------------------------------------------------------------------
(* Writes *)

Commit(n, state, todo) ==
    /\ writer[n] = "idle" /\ state.session <= MaxSession
    /\ account' = state
    /\ writer' = [writer EXCEPT ![n] = todo]
    /\ UNCHANGED <<cache, bus, missed, conn>>

\* A login, or a verified address: beginUserSession, or atomicVerifyAndComplete.
BeginSession(n) ==
    /\ ~account.banned
    /\ Commit(n, [account EXCEPT !.session = @ + 1], "store")
    /\ fresh' = [fresh EXCEPT ![n] = account.session + 1]
    /\ UNCHANGED begun

\* storeRefreshToken: while the session is still the one that was begun.  Otherwise
\* the answer is a conflict, and nothing is invalidated.
StoreSession(n) ==
    /\ writer[n] = "store"
    /\ IF fresh[n] = account.session
       THEN begun' = begun \cup {fresh[n]} /\ writer' = [writer EXCEPT ![n] = "invalidate"]
       ELSE UNCHANGED begun /\ writer' = [writer EXCEPT ![n] = "idle"]
    /\ fresh' = [fresh EXCEPT ![n] = 0]
    /\ UNCHANGED <<account, cache, bus, missed, conn>>

\* Logout, a new password, a reused refresh token.
SessionEnds(n) ==
    /\ Commit(n, [account EXCEPT !.session = @ + 1], "invalidate")
    /\ UNCHANGED <<begun, fresh>>

Ban(n) ==
    /\ ~account.banned
    /\ Commit(n, [session |-> account.session + 1, banned |-> TRUE], "invalidate, disconnect")
    /\ UNCHANGED <<begun, fresh>>

Unban(n) ==
    /\ account.banned
    /\ Commit(n, [account EXCEPT !.banned = FALSE], "invalidate")
    /\ UNCHANGED <<begun, fresh>>

\* What n committed is still to be announced; a session begun since has another
\* writer to announce it.
Announcing(n) ==
    \/ writer[n] \in {"invalidate", "invalidate, disconnect"}
    \/ writer[n] = "store" /\ fresh[n] = account.session

\* The handler ends with an error: the second commit of a login fails, or a commit
\* that was applied is reported as failed.  Nothing is announced.
GivesUp(n) ==
    /\ writer[n] \in {"store", "invalidate", "invalidate, disconnect"}
    /\ missed' = IF Announcing(n) THEN missed \cup DOMAIN cache ELSE missed
    /\ writer' = [writer EXCEPT ![n] = "idle"]
    /\ fresh' = [fresh EXCEPT ![n] = 0]
    /\ UNCHANGED <<account, begun, cache, bus, conn>>

Invalidates(n) ==
    /\ writer[n] \in {"invalidate", "invalidate, disconnect"}
    /\ Invalidate(n, cache)
    /\ writer' = [writer EXCEPT ![n] = IF @ = "invalidate" THEN "idle" ELSE "disconnect"]
    /\ UNCHANGED <<account, begun, fresh, conn>>

\* disconnectUserSockets: every socket in the user's room, on any process.
Disconnects(n) ==
    /\ writer[n] = "disconnect"
    /\ conn' = Closing({k \in DOMAIN conn : At(k, "joined")})
    /\ writer' = [writer EXCEPT ![n] = "idle"]
    /\ UNCHANGED <<account, begun, cache, bus, missed, fresh>>

\* The process dies, and what it had to do with it; a new one takes its place.
Crash(n) ==
    /\ writer[n] # "idle" \/ n \in DOMAIN cache
    /\ cache' = Without({n})
    /\ bus' = bus \ {n}
    /\ missed' = (IF Announcing(n) THEN missed \cup DOMAIN cache ELSE missed) \ {n}
    /\ writer' = [writer EXCEPT ![n] = "idle"]
    /\ fresh' = [fresh EXCEPT ![n] = 0]
    /\ conn' = Closing({k \in DOMAIN conn : conn[k].node = n})
    /\ UNCHANGED <<account, begun>>

Check(k) ==
    \E n \in Node, s \in begun : CheckCached(k, n, s) \/ CheckMisses(k, n, s)

Write(n) == BeginSession(n) \/ SessionEnds(n) \/ Ban(n) \/ Unban(n)

AdmissionNext ==
    \/ Tick
    \/ \E n \in Node :
         \/ Prune(n) \/ Deliver(n) \/ Lose(n) \/ Write(n)
         \/ StoreSession(n) \/ Invalidates(n) \/ Disconnects(n) \/ GivesUp(n) \/ Crash(n)
    \/ \E k \in Connection :
         Check(k) \/ CheckLoaded(k) \/ Join(k) \/ Leave(k) \/ TokenExpires(k)

\* Time passes, the database answers and timers fire.  Neither the writer nor
\* the bus is fair: both may fail.
AdmissionFairness ==
    /\ WF_admissionVars(Tick)
    /\ \A k \in Connection :
         WF_admissionVars(CheckLoaded(k)) /\ WF_admissionVars(Join(k))
         /\ WF_admissionVars(TokenExpires(k))

AdmissionSpec == AdmissionInit /\ [][AdmissionNext]_admissionVars /\ AdmissionFairness

-----------------------------------------------------------------------------
(* Properties *)

AdmissionTypeOK ==
    /\ account \in [session: Nat, banned: BOOLEAN] /\ begun \subseteq Nat
    /\ DOMAIN cache \subseteq Node /\ bus \subseteq Node /\ missed \subseteq DOMAIN cache
    /\ \A n \in DOMAIN cache : cache[n].age \in 0 .. Ttl

\* An entry that could still be used and disagrees with the account has one of
\* four reasons: the write that made it stale is still being announced; the
\* announcement was lost on the way to that process; it was never made, since the
\* handler ended with an error or died between its write and the announcement; or a
\* check had read the account before the write and filled the cache after it.
\* Committing before invalidating, and publishing after dropping one's own entry,
\* leave no other: a login whose session was replaced before it was stored ends
\* without announcing, and leaves nothing stale that the other login will not announce.
StaleHasAReason ==
    \A n \in DOMAIN cache :
        Hit(n) /\ cache[n].state # account =>
            cache[n].late \/ n \in missed \/ n \in bus \/ \E m \in Node : Announcing(m)

\* Lost or overtaken invalidations notwithstanding, once the account stops
\* changing every process comes to see it as it is: an entry lives its time and
\* is never renewed by being read (TtlSessionCache.get).
CachesConverge ==
    <>[](\A n \in Node : Hit(n) => cache[n].state = account)

\* An account that stays banned ends with no request being served and no socket
\* open, even if the process that banned it died before it disconnected anybody
\* or a socket passed its check before the ban and joined after the disconnect.
BannedAreGone ==
    <>[]account.banned => <>[](\A k \in Connection : ~At(k, "admitted") /\ ~At(k, "joined"))
=============================================================================
