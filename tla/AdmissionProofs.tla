--------------------------- MODULE AdmissionProofs ---------------------------
(***************************************************************************)
(* For any number of processes and connections, any time to live and any     *)
(* losses, crashes and races: an entry of the session cache that disagrees   *)
(* with the account has one of the reasons StaleHasAReason names.            *)
(***************************************************************************)
EXTENDS Admission, TLAPS

State == [session: Nat, banned: BOOLEAN]

Entry == [state: State, age: 0 .. Ttl, late: BOOLEAN]

\* A connection belongs to a process; one that read the account has what it read.
Admitted == [pc: {"admitted", "joined"}, node: Node]

Reading == [pc: {"read"}, node: Node, session: Nat, state: State]

Connected(c) == c \in Admitted \cup Reading

OfProcesses ==
    /\ writer \in [Node -> {"idle", "store", "invalidate", "invalidate, disconnect", "disconnect"}]
    /\ fresh \in [Node -> Nat]
    /\ \A k \in DOMAIN conn : Connected(conn[k])

\* The entry of n is accounted for.
Reasoned(n) ==
    Hit(n) /\ cache[n].state # account =>
        cache[n].late \/ n \in missed \/ n \in bus \/ \E m \in Node : Announcing(m)

IInv ==
    /\ AdmissionTypeOK /\ OfProcesses
    /\ \A n \in DOMAIN cache : cache[n] \in Entry /\ Reasoned(n)

LEMMA InitSound == AdmissionInit => IInv
<1> SUFFICES ASSUME AdmissionInit PROVE IInv
  OBVIOUS
<1>1. DOMAIN cache = {} /\ DOMAIN conn = {}  BY DOMAIN <<>> = {} DEF AdmissionInit
<1>2. AdmissionTypeOK  BY <1>1 DEF AdmissionInit, AdmissionTypeOK
<1>3. OfProcesses  BY <1>1 DEF AdmissionInit, OfProcesses
<1>4. QED  BY <1>1, <1>2, <1>3 DEF IInv

-----------------------------------------------------------------------------
(* The cache *)

\* A process whose entry is new or gone, and everybody else's that stays.
LEMMA ReasonsStay ==
    ASSUME IInv, UNCHANGED account,
           DOMAIN cache' \subseteq DOMAIN cache,
           \A m \in DOMAIN cache' :
              /\ cache'[m].state = cache[m].state /\ (cache[m].late => cache'[m].late)
              /\ cache'[m].age < Ttl => cache[m].age < Ttl
              /\ m \in missed => m \in missed' \/ m \in bus'
              /\ m \in bus => m \in bus' \/ m \in missed'
              /\ (\E p \in Node : Announcing(p)) =>
                    m \in bus' \/ m \in missed' \/ \E p \in Node : Announcing(p)'
    PROVE  \A m \in DOMAIN cache' : Reasoned(m)'
<1> SUFFICES ASSUME NEW m \in DOMAIN cache', Hit(m)', cache'[m].state # account'
             PROVE  \/ cache'[m].late \/ m \in missed' \/ m \in bus'
                    \/ \E p \in Node : Announcing(p)'
  BY DEF Reasoned
<1>1. Hit(m) /\ cache[m].state # account  BY DEF Hit
<1>2. Reasoned(m)  BY DEF IInv
<1>3. QED  BY <1>1, <1>2 DEF Reasoned

LEMMA WithoutShape ==
    ASSUME NEW ns
    PROVE  /\ DOMAIN Without(ns) = DOMAIN cache \ ns
           /\ \A m \in DOMAIN cache \ ns : Without(ns)[m] = cache[m]
BY DEF Without

LEMMA FillShape ==
    ASSUME NEW n, NEW state
    PROVE  /\ DOMAIN Fill(n, state) = {n} \cup DOMAIN cache
           /\ Fill(n, state)[n] = [state |-> state, age |-> 0, late |-> state # account]
           /\ \A m \in DOMAIN cache \ {n} : Fill(n, state)[m] = cache[m]
BY DEF Fill, With

LEMMA BecomeShape ==
    ASSUME NEW k, NEW c, Become(k, c)
    PROVE  /\ DOMAIN conn' = {k} \cup DOMAIN conn /\ conn'[k] = c
           /\ \A j \in DOMAIN conn \ {k} : conn'[j] = conn[j]
BY DEF Become, With

LEMMA ClosingShape ==
    ASSUME NEW ks
    PROVE  /\ DOMAIN Closing(ks) = DOMAIN conn \ ks
           /\ \A k \in DOMAIN conn \ ks : Closing(ks)[k] = conn[k]
BY DEF Closing

LEMMA Facts ==
    ASSUME IInv
    PROVE  /\ account \in State /\ begun \subseteq Nat
           /\ DOMAIN cache \subseteq Node /\ bus \subseteq Node /\ missed \subseteq DOMAIN cache
           /\ \A n \in DOMAIN cache : cache[n] \in Entry
           /\ writer \in [Node -> {"idle", "store", "invalidate", "invalidate, disconnect", "disconnect"}]
           /\ fresh \in [Node -> Nat]
           /\ \A k \in DOMAIN conn : Connected(conn[k])
BY DEF IInv, AdmissionTypeOK, OfProcesses, State

LEMMA Assembled ==
    ASSUME account' \in State, begun' \subseteq Nat, DOMAIN cache' \subseteq Node,
           bus' \subseteq Node, missed' \subseteq DOMAIN cache', OfProcesses',
           \A n \in DOMAIN cache' : cache'[n] \in Entry,
           \A n \in DOMAIN cache' : Reasoned(n)'
    PROVE  IInv'
<1>1. \A n \in DOMAIN cache' : cache'[n].age \in 0 .. Ttl  BY DEF Entry
<1>2. AdmissionTypeOK'  BY <1>1 DEF AdmissionTypeOK, State
<1>3. QED  BY <1>2 DEF IInv

\* Entries go, others stay as they are.
LEMMA EntriesGo ==
    ASSUME IInv, NEW ns, cache' = Without(ns), UNCHANGED <<account, begun>>,
           missed \ ns \subseteq missed', missed' \subseteq DOMAIN cache \ ns,
           bus' \subseteq Node, bus \ ns \subseteq bus',
           \A m \in DOMAIN cache \ ns :
              (\E p \in Node : Announcing(p)) =>
                 m \in bus' \/ m \in missed' \/ \E p \in Node : Announcing(p)',
           OfProcesses'
    PROVE  IInv'
<1>1. /\ DOMAIN cache' = DOMAIN cache \ ns
      /\ \A m \in DOMAIN cache' : cache'[m] = cache[m]
  BY WithoutShape
<1>2. \A m \in DOMAIN cache' : cache'[m] \in Entry  BY <1>1, Facts
<1>3. \A m \in DOMAIN cache' : Reasoned(m)'  BY <1>1, ReasonsStay
<1>4. QED  BY <1>1, <1>2, <1>3, Facts, Assembled

\* The step leaves the cache and its invalidations alone.
LEMMA CacheStays ==
    ASSUME IInv, UNCHANGED <<account, begun, cache, bus, missed>>, OfProcesses',
           (\E p \in Node : Announcing(p)) => \E p \in Node : Announcing(p)'
    PROVE  IInv'
<1>1. \A m \in DOMAIN cache' : Reasoned(m)'  BY ReasonsStay
<1>2. QED  BY <1>1, Facts, Assembled

LEMMA WriterStays ==
    ASSUME UNCHANGED <<writer, fresh, account>>
    PROVE  (\E p \in Node : Announcing(p)) <=> \E p \in Node : Announcing(p)'
BY DEF Announcing

LEMMA TickStep == ASSUME IInv, Tick PROVE IInv'
<1>1. /\ DOMAIN cache' = DOMAIN cache
      /\ \A m \in DOMAIN cache :
            cache'[m] = [cache[m] EXCEPT !.age = IF cache[m].age < Ttl THEN cache[m].age + 1
                                                ELSE cache[m].age]
      /\ UNCHANGED <<account, begun, bus, missed, writer, fresh, conn>>
  <2>1. \A m \in DOMAIN cache : cache[m] \in Entry  BY Facts
  <2>2. QED  BY <2>1 DEF Tick, Entry, writing
<1>2. ASSUME NEW e \in Entry, NEW f,
             f = [e EXCEPT !.age = IF e.age < Ttl THEN e.age + 1 ELSE e.age]
      PROVE  f \in Entry /\ f.state = e.state /\ f.late = e.late /\ f.age >= e.age
  <2>1. Ttl \in Nat /\ e.age \in 0 .. Ttl  BY AdmissionAssumption DEF Entry
  <2>2. PICK a \in 0 .. Ttl : a = (IF e.age < Ttl THEN e.age + 1 ELSE e.age) /\ a >= e.age
    BY <2>1
  <2>3. f = [e EXCEPT !.age = a]  BY <1>2, <2>2
  <2>4. QED  BY <2>2, <2>3 DEF Entry
<1>3. ASSUME NEW m \in DOMAIN cache
      PROVE  /\ cache'[m] \in Entry /\ cache'[m].state = cache[m].state
             /\ cache'[m].late = cache[m].late /\ cache'[m].age >= cache[m].age
  <2>1. cache[m] \in Entry  BY Facts
  <2>2. QED  BY <1>1, <1>2, <2>1
<1>4. \A m \in DOMAIN cache : cache'[m].age < Ttl => cache[m].age < Ttl
  <2>1. ASSUME NEW m \in DOMAIN cache, cache'[m].age < Ttl PROVE cache[m].age < Ttl
    <3>1. cache[m].age \in 0 .. Ttl /\ cache'[m].age \in 0 .. Ttl /\ Ttl \in Nat
      BY <1>3, Facts, AdmissionAssumption DEF Entry
    <3>2. cache'[m].age >= cache[m].age  BY <1>3
    <3>3. QED  BY <2>1, <3>1, <3>2
  <2>2. QED  BY <2>1
<1>5. OfProcesses'  BY <1>1, Facts DEF OfProcesses
<1>6. \A m \in DOMAIN cache' : Reasoned(m)'
  BY <1>1, <1>3, <1>4, WriterStays, ReasonsStay
<1>7. QED  BY <1>1, <1>3, <1>5, <1>6, Facts, Assembled

LEMMA DropSteps ==
    ASSUME IInv, NEW n \in Node, Prune(n) \/ Deliver(n) PROVE IInv'
<1>1. /\ cache' = Without({n}) /\ missed' = missed \ {n}
      /\ UNCHANGED <<account, begun, writer, fresh, conn>> /\ bus \ {n} \subseteq bus' /\ bus' \subseteq bus
  BY DEF Prune, Deliver, writing
<1>2. OfProcesses'  BY <1>1, Facts DEF OfProcesses
<1>3. QED  BY <1>1, <1>2, Facts, WriterStays, EntriesGo

LEMMA LoseStep == ASSUME IInv, NEW n \in Node, Lose(n) PROVE IInv'
<1>1. /\ UNCHANGED <<account, begun, cache, writer, fresh, conn>> /\ bus' = bus \ {n}
      /\ missed' = missed \cup ({n} \cap DOMAIN cache)
  BY DEF Lose, writing
<1>2. OfProcesses'  BY <1>1, Facts DEF OfProcesses
<1>3. \A m \in DOMAIN cache' : Reasoned(m)'  BY <1>1, WriterStays, ReasonsStay
<1>4. QED  BY <1>1, <1>2, <1>3, Facts, Assembled

-----------------------------------------------------------------------------
(* Checks *)

\* The process drops its own entry and tells the others.
LEMMA InvalidateTold ==
    ASSUME IInv, NEW n \in Node, Invalidate(n, cache)
    PROVE  /\ cache' = Without({n}) /\ missed' = missed \ {n}
           /\ bus \subseteq bus' /\ bus' \subseteq Node
           /\ \A m \in DOMAIN cache \ {n} : m \in bus'
BY Facts DEF Invalidate, Without, Told

LEMMA CheckCachedStep ==
    ASSUME IInv, NEW k, NEW n \in Node, NEW s, CheckCached(k, n, s) PROVE IInv'
<1>1. Decide(k, n, s, cache[n].state, cache) /\ UNCHANGED <<account, begun, writer, fresh>>
  BY DEF CheckCached, Read, writing
<1>2. ASSUME \/ conn' = Closing({k}) \/ Become(k, [pc |-> "admitted", node |-> n])
      PROVE  OfProcesses'
  <2>1. CASE conn' = Closing({k})  BY <1>1, <2>1, Facts, ClosingShape DEF OfProcesses
  <2>2. CASE Become(k, [pc |-> "admitted", node |-> n])
    <3>1. /\ DOMAIN conn' = {k} \cup DOMAIN conn /\ conn'[k] = [pc |-> "admitted", node |-> n]
          /\ \A j \in DOMAIN conn \ {k} : conn'[j] = conn[j]
      BY <2>2, BecomeShape
    <3>2. Connected([pc |-> "admitted", node |-> n])  BY DEF Connected, Admitted, Reading
    <3>3. QED  BY <1>1, <3>1, <3>2, Facts DEF OfProcesses
  <2>3. QED  BY <1>2, <2>1, <2>2
<1>3. CASE Invalidate(n, cache) /\ conn' = Closing({k})
  BY <1>1, <1>2, <1>3, InvalidateTold, Facts, EntriesGo
<1>4. CASE /\ UNCHANGED <<cache, missed, bus>>
           /\ conn' = Closing({k}) \/ Become(k, [pc |-> "admitted", node |-> n])
  BY <1>1, <1>2, <1>4, WriterStays, CacheStays
<1>5. QED  BY <1>1, <1>3, <1>4 DEF Decide

LEMMA CheckMissesStep ==
    ASSUME IInv, NEW k, NEW n \in Node, NEW s \in begun, CheckMisses(k, n, s) PROVE IInv'
<1>1. /\ cache' = Without({n}) /\ missed' = missed \ {n}
      /\ Become(k, [pc |-> "read", node |-> n, session |-> s, state |-> account])
      /\ UNCHANGED <<account, begun, bus, writer, fresh>>
  BY DEF CheckMisses, writing
<1>2. OfProcesses'
  <2>1. /\ DOMAIN conn' = {k} \cup DOMAIN conn
        /\ conn'[k] = [pc |-> "read", node |-> n, session |-> s, state |-> account]
        /\ \A j \in DOMAIN conn \ {k} : conn'[j] = conn[j]
    BY <1>1, BecomeShape
  <2>2. Connected([pc |-> "read", node |-> n, session |-> s, state |-> account])
    BY Facts DEF Connected, Admitted, Reading
  <2>3. QED  BY <1>1, <2>1, <2>2, Facts DEF OfProcesses
<1>3. QED  BY <1>1, <1>2, Facts, WriterStays, EntriesGo

\* The entry is set to what was read, whatever was invalidated since; the others
\* stay as they are.
LEMMA CheckLoadedStep == ASSUME IInv, NEW k, CheckLoaded(k) PROVE IInv'
<1>1. PICK n : /\ n = conn[k].node
               /\ Decide(k, n, conn[k].session, conn[k].state, Fill(n, conn[k].state))
               /\ UNCHANGED <<account, begun, writer, fresh>>
  BY DEF CheckLoaded, writing
<1>2. n \in Node /\ conn[k].state \in State  BY <1>1, Facts DEF CheckLoaded, At, Connected, Admitted, Reading
<1>3. PICK e : e = [state |-> conn[k].state, age |-> 0, late |-> conn[k].state # account]
  OBVIOUS
<1>4. e \in Entry /\ (e.state # account => e.late)
  <2>1. 0 \in 0 .. Ttl  BY AdmissionAssumption
  <2>2. (conn[k].state # account) \in BOOLEAN  OBVIOUS
  <2>3. e \in Entry  BY <1>2, <1>3, <2>1, <2>2 DEF Entry
  <2>4. QED  BY <1>3, <2>3
<1>5. PICK c : c = Fill(n, conn[k].state)  OBVIOUS
<1>6. /\ DOMAIN c = {n} \cup DOMAIN cache /\ c[n] = e
      /\ \A m \in DOMAIN cache \ {n} : c[m] = cache[m]
  BY <1>3, <1>5 DEF Fill, With
<1>7. ASSUME \/ conn' = Closing({k}) \/ Become(k, [pc |-> "admitted", node |-> n])
      PROVE  OfProcesses'
  <2>1. CASE conn' = Closing({k})  BY <1>1, <2>1, Facts, ClosingShape DEF OfProcesses
  <2>2. CASE Become(k, [pc |-> "admitted", node |-> n])
    <3>1. /\ DOMAIN conn' = {k} \cup DOMAIN conn /\ conn'[k] = [pc |-> "admitted", node |-> n]
          /\ \A j \in DOMAIN conn \ {k} : conn'[j] = conn[j]
      BY <2>2, BecomeShape
    <3>2. Connected([pc |-> "admitted", node |-> n])  BY <1>2 DEF Connected, Admitted, Reading
    <3>3. QED  BY <1>1, <3>1, <3>2, Facts DEF OfProcesses
  <2>3. QED  BY <1>7, <2>1, <2>2
<1>8. CASE Invalidate(n, c) /\ conn' = Closing({k})
  <2>1. /\ cache' = Without({n}) /\ missed' = missed \ {n}
        /\ bus \subseteq bus' /\ bus' \subseteq Node
    <3>1. \A m \in DOMAIN c \ {n} : c[m] = cache[m]  BY <1>6
    <3>2. DOMAIN c \ {n} = DOMAIN cache \ {n}  BY <1>6
    <3>3. cache' = [m \in DOMAIN cache \ {n} |-> cache[m]]
      BY <1>8, <3>1, <3>2 DEF Invalidate
    <3>4. QED  BY <1>8, <3>3, Facts DEF Invalidate, Without, Told
  <2>2. QED  BY <1>1, <1>7, <1>8, <2>1, Facts, WriterStays, EntriesGo
<1>9. CASE /\ cache' = c /\ UNCHANGED <<missed, bus>>
           /\ conn' = Closing({k}) \/ Become(k, [pc |-> "admitted", node |-> n])
  <2>1. \A m \in DOMAIN cache' : cache'[m] \in Entry  BY <1>4, <1>6, <1>9, Facts
  <2>2. ASSUME NEW m \in DOMAIN cache' PROVE Reasoned(m)'
    <3>1. CASE m = n  BY <1>1, <1>4, <1>6, <1>9, <3>1 DEF Reasoned
    <3>2. CASE m # n
      <4>1. m \in DOMAIN cache /\ cache'[m] = cache[m]  BY <1>6, <1>9, <3>2
      <4>2. Reasoned(m)  BY <4>1 DEF IInv
      <4>3. QED  BY <1>1, <1>9, <4>1, <4>2, WriterStays DEF Reasoned, Hit
    <3>3. QED  BY <3>1, <3>2
  <2>3. DOMAIN cache' \subseteq Node /\ missed' \subseteq DOMAIN cache'
    BY <1>2, <1>6, <1>9, Facts
  <2>4. QED  BY <1>1, <1>7, <1>9, <2>1, <2>2, <2>3, Facts, Assembled
<1>10. QED  BY <1>1, <1>5, <1>8, <1>9 DEF Decide

\* Requests are answered, connections join and go.
LEMMA ConnectionSteps ==
    ASSUME IInv, NEW k, Join(k) \/ Leave(k) \/ TokenExpires(k) PROVE IInv'
<1>1. UNCHANGED <<account, begun, cache, bus, missed, writer, fresh>>
  BY DEF Join, Leave, TokenExpires, writing
<1>2. OfProcesses'
  <2>1. CASE conn' = Closing({k})  BY <1>1, <2>1, Facts, ClosingShape DEF OfProcesses
  <2>2. CASE Join(k)
    <3>1. k \in DOMAIN conn /\ conn' = [conn EXCEPT ![k].pc = "joined"]
      BY <2>2 DEF Join, At
    <3>2. PICK c : c = [conn[k] EXCEPT !.pc = "joined"]  OBVIOUS
    <3>3. conn' = [conn EXCEPT ![k] = c]  BY <3>1, <3>2
    <3>4. conn[k] \in Admitted
      BY <2>2, <3>1, Facts DEF Join, At, Connected, Admitted, Reading
    <3>5. Connected(c)  BY <3>2, <3>4 DEF Connected, Admitted
    <3>6. QED  BY <1>1, <3>1, <3>3, <3>5, Facts DEF OfProcesses
  <2>3. QED  BY <2>1, <2>2 DEF Join, Leave, TokenExpires
<1>3. QED  BY <1>1, <1>2, WriterStays, CacheStays

-----------------------------------------------------------------------------
(* Writes *)

\* The session a commit leaves behind.
LEMMA NextSession ==
    ASSUME IInv PROVE account \in State /\ account.session + 1 \in Nat
<1>1. account \in State  BY Facts
<1>2. account.session \in Nat  BY <1>1 DEF State
<1>3. QED  BY <1>1, <1>2

\* A commit makes entries stale, and its announcement is the reason.
LEMMA CommitStep ==
    ASSUME IInv, NEW n \in Node, NEW state \in State, begun' \subseteq Nat,
           NEW todo \in {"store", "invalidate", "invalidate, disconnect"},
           Commit(n, state, todo), fresh' \in [Node -> Nat], Announcing(n)'
    PROVE  IInv'
<1>1. /\ account' = state /\ writer' = [writer EXCEPT ![n] = todo]
      /\ UNCHANGED <<cache, bus, missed, conn>>
  BY DEF Commit
<1>2. OfProcesses'  BY <1>1, Facts DEF OfProcesses
<1>3. \A m \in DOMAIN cache' : Reasoned(m)'  BY DEF Reasoned
<1>4. QED  BY <1>1, <1>2, <1>3, Facts, Assembled

LEMMA BeginSessionStep == ASSUME IInv, NEW n \in Node, BeginSession(n) PROVE IInv'
<1>1. PICK v \in Nat : v = account.session + 1  BY NextSession
<1>2. [account EXCEPT !.session = v] \in State  BY NextSession DEF State
<1>3. /\ Commit(n, [account EXCEPT !.session = v], "store")
      /\ fresh' = [fresh EXCEPT ![n] = v] /\ begun' = begun
  BY <1>1, NextSession DEF BeginSession, State
<1>4. writer'[n] = "store" /\ fresh'[n] = v /\ account'.session = v
  BY <1>3, NextSession, Facts DEF Commit, State
<1>5. Announcing(n)'  BY <1>4 DEF Announcing
<1>6. fresh' \in [Node -> Nat] /\ begun' \subseteq Nat  BY <1>3, Facts
<1>7. QED  BY <1>2, <1>3, <1>5, <1>6, CommitStep

LEMMA WriteStep == ASSUME IInv, NEW n \in Node, Write(n) PROVE IInv'
<1>1. CASE BeginSession(n)  BY <1>1, BeginSessionStep
<1>2. CASE SessionEnds(n) \/ Ban(n) \/ Unban(n)
  <2>1. PICK state \in State, todo \in {"invalidate", "invalidate, disconnect"} :
           Commit(n, state, todo) /\ UNCHANGED <<begun, fresh>>
    <3>1. CASE SessionEnds(n)
      <4>1. PICK v \in Nat : v = account.session + 1  BY NextSession
      <4>2. [account EXCEPT !.session = v] \in State  BY NextSession DEF State
      <4>3. Commit(n, [account EXCEPT !.session = v], "invalidate")
        BY <3>1, <4>1, NextSession DEF SessionEnds, State
      <4>4. QED  BY <3>1, <4>2, <4>3 DEF SessionEnds
    <3>2. CASE Ban(n)
      <4>1. [session |-> account.session + 1, banned |-> TRUE] \in State  BY NextSession DEF State
      <4>2. QED  BY <3>2, <4>1 DEF Ban
    <3>3. CASE Unban(n)
      <4>1. [account EXCEPT !.banned = FALSE] \in State  BY NextSession DEF State
      <4>2. QED  BY <3>3, <4>1 DEF Unban
    <3>4. QED  BY <1>2, <3>1, <3>2, <3>3
  <2>2. Announcing(n)'  BY <2>1, Facts DEF Announcing, Commit
  <2>3. QED  BY <2>1, <2>2, Facts, CommitStep
<1>3. QED  BY <1>1, <1>2 DEF Write

\* The session it began is announced next, or another writer's is.
LEMMA StoreSessionStep == ASSUME IInv, NEW n \in Node, StoreSession(n) PROVE IInv'
<1>1. /\ writer[n] = "store" /\ fresh' = [fresh EXCEPT ![n] = 0]
      /\ UNCHANGED <<account, cache, bus, missed, conn>>
      /\ \/ /\ writer' = [writer EXCEPT ![n] = "invalidate"] /\ begun' = begun \cup {fresh[n]}
         \/ /\ fresh[n] # account.session /\ begun' = begun
            /\ writer' = [writer EXCEPT ![n] = "idle"]
  BY DEF StoreSession
<1>2. OfProcesses' /\ begun' \subseteq Nat  BY <1>1, Facts DEF OfProcesses
<1>3. \A p \in Node : Announcing(p) => Announcing(p)'  BY <1>1, Facts DEF Announcing
<1>4. \A m \in DOMAIN cache' : Reasoned(m)'  BY <1>1, <1>3, ReasonsStay
<1>5. QED  BY <1>1, <1>2, <1>4, Facts, Assembled

\* What a handler that ends with an error did not announce has missed every entry.
LEMMA GivesUpStep == ASSUME IInv, NEW n \in Node, GivesUp(n) PROVE IInv'
<1>1. /\ missed' = IF Announcing(n) THEN missed \cup DOMAIN cache ELSE missed
      /\ writer' = [writer EXCEPT ![n] = "idle"] /\ fresh' = [fresh EXCEPT ![n] = 0]
      /\ UNCHANGED <<account, begun, cache, bus, conn>>
  BY DEF GivesUp
<1>2. OfProcesses'  BY <1>1, Facts DEF OfProcesses
<1>3. \A p \in Node \ {n} : Announcing(p) => Announcing(p)'  BY <1>1, Facts DEF Announcing
<1>4. ASSUME NEW m \in DOMAIN cache', \E p \in Node : Announcing(p)
      PROVE  m \in missed' \/ \E p \in Node : Announcing(p)'
  <2>1. CASE Announcing(n)  BY <1>1, <1>4, <2>1
  <2>2. CASE ~Announcing(n)  BY <1>3, <1>4, <2>2
  <2>3. QED  BY <2>1, <2>2
<1>5. missed \subseteq missed' /\ missed' \subseteq DOMAIN cache'  BY <1>1, Facts
<1>6. \A m \in DOMAIN cache' : Reasoned(m)'  BY <1>1, <1>4, <1>5, ReasonsStay
<1>7. QED  BY <1>1, <1>2, <1>5, <1>6, Facts, Assembled

LEMMA InvalidatesStep == ASSUME IInv, NEW n \in Node, Invalidates(n) PROVE IInv'
<1>1. /\ Invalidate(n, cache) /\ UNCHANGED <<account, begun, fresh, conn>>
      /\ writer' = [writer EXCEPT ![n] = IF writer[n] = "invalidate" THEN "idle"
                                                                    ELSE "disconnect"]
  BY Facts DEF Invalidates
<1>2. OfProcesses'  BY <1>1, Facts DEF OfProcesses
<1>3. QED  BY <1>1, <1>2, InvalidateTold, Facts, EntriesGo

LEMMA DisconnectsStep == ASSUME IInv, NEW n \in Node, Disconnects(n) PROVE IInv'
<1>1. /\ writer[n] = "disconnect" /\ writer' = [writer EXCEPT ![n] = "idle"]
      /\ UNCHANGED <<account, begun, cache, bus, missed, fresh>>
  BY DEF Disconnects
<1>2. PICK ks : conn' = Closing(ks)  BY DEF Disconnects
<1>3. OfProcesses'
  <2>1. writer' \in [Node -> {"idle", "store", "invalidate", "invalidate, disconnect", "disconnect"}]
    BY <1>1, Facts
  <2>2. \A k \in DOMAIN conn' : Connected(conn'[k])  BY <1>2, Facts, ClosingShape
  <2>3. QED  BY <1>1, <2>1, <2>2, Facts DEF OfProcesses
<1>4. \A p \in Node : Announcing(p) => Announcing(p)'
  <2>1. \A p \in Node \ {n} : writer'[p] = writer[p]  BY <1>1, Facts
  <2>2. ~Announcing(n)  BY <1>1 DEF Announcing
  <2>3. QED  BY <1>1, <2>1, <2>2 DEF Announcing
<1>5. QED  BY <1>1, <1>3, <1>4, CacheStays

\* An announcement that dies with its process has missed every entry.
LEMMA CrashStep == ASSUME IInv, NEW n \in Node, Crash(n) PROVE IInv'
<1>1. /\ cache' = Without({n}) /\ bus' = bus \ {n}
      /\ missed' = (IF Announcing(n) THEN missed \cup DOMAIN cache ELSE missed) \ {n}
      /\ writer' = [writer EXCEPT ![n] = "idle"] /\ fresh' = [fresh EXCEPT ![n] = 0]
      /\ UNCHANGED <<account, begun>>
  BY DEF Crash
<1>2. PICK ks : conn' = Closing(ks)  BY DEF Crash
<1>3. OfProcesses'  BY <1>1, <1>2, Facts, ClosingShape DEF OfProcesses
<1>4. \A p \in Node \ {n} : Announcing(p) => Announcing(p)'  BY <1>1, Facts DEF Announcing
<1>5. ASSUME NEW m \in DOMAIN cache \ {n}, \E p \in Node : Announcing(p)
      PROVE  m \in missed' \/ \E p \in Node : Announcing(p)'
  <2>1. CASE Announcing(n)  BY <1>1, <1>5, <2>1
  <2>2. CASE ~Announcing(n)  BY <1>4, <1>5, <2>2
  <2>3. QED  BY <2>1, <2>2
<1>6. missed' \subseteq DOMAIN cache \ {n} /\ missed \ {n} \subseteq missed'  BY <1>1, Facts
<1>7. QED  BY <1>1, <1>3, <1>5, <1>6, Facts, EntriesGo

LEMMA StepKeeps == ASSUME IInv, [AdmissionNext]_admissionVars PROVE IInv'
<1>1. CASE Tick  BY <1>1, TickStep
<1>2. ASSUME NEW n \in Node,
             \/ Prune(n) \/ Deliver(n) \/ Lose(n) \/ Write(n)
             \/ StoreSession(n) \/ Invalidates(n) \/ Disconnects(n) \/ GivesUp(n) \/ Crash(n)
      PROVE  IInv'
  BY <1>2, DropSteps, LoseStep, WriteStep, StoreSessionStep, InvalidatesStep,
     DisconnectsStep, GivesUpStep, CrashStep
<1>3. ASSUME NEW k \in Connection,
             Check(k) \/ CheckLoaded(k) \/ Join(k) \/ Leave(k) \/ TokenExpires(k)
      PROVE  IInv'
  BY <1>3, CheckCachedStep, CheckMissesStep, CheckLoadedStep, ConnectionSteps DEF Check
<1>4. CASE UNCHANGED admissionVars
  BY <1>4, Facts, WriterStays, CacheStays DEF admissionVars, writing, OfProcesses
<1>5. QED  BY <1>1, <1>2, <1>3, <1>4 DEF AdmissionNext

LEMMA Invariance == AdmissionSpec => []IInv
<1>1. IInv /\ [AdmissionNext]_admissionVars => IInv'  BY StepKeeps
<1>2. QED  BY <1>1, InitSound, PTL DEF AdmissionSpec

\* An entry of the session cache that could still be used and disagrees with the
\* account is one whose invalidation is under way, was lost or never made, or was
\* overtaken by the check that filled it: a write that commits, drops its own entry and
\* then publishes, and a login that commits twice before it does, leave no other
\* (utils/sessionCache.ts, utils/runtimeBus.ts, services/authService.ts).
THEOREM StaleEntriesExplained == AdmissionSpec => []StaleHasAReason
<1>1. IInv => StaleHasAReason  BY DEF IInv, Reasoned, StaleHasAReason, Announcing
<1>2. QED  BY <1>1, Invariance, PTL
=============================================================================
