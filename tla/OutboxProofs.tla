----------------------------- MODULE OutboxProofs -----------------------------
(***************************************************************************)
(* For any number of events and workers, and any maxAttempts: the outbox    *)
(* implements Delivery.  The inductive invariant is the conjunction of the  *)
(* three invariants of Outbox; fencing is what makes the other one hold.    *)
(***************************************************************************)
EXTENDS Outbox, TLAPS

LEMMA Limits == MaxAttempts \in Nat \ {0} /\ MaxAttempts <= 20 /\ BatchSize \in Nat \ {0}
BY OutboxAssumption

LEMMA OffIsIdle == Off \in Process /\ Off.pc = "off"
BY Limits DEF Off, Process

\* What a worker that has event e in hand must satisfy.
Held(w) ==
    LET e == worker[w].event IN
    /\ e \in Event /\ worker[w].left > 0
    /\ worker[w].attempt \in 1 .. attempts[e]
    /\ Owns(w) => worker[w].attempt = attempts[e]
    /\ worker[w].pc = "deliver" => worker[w].attempt \notin acted[e]
    /\ worker[w].pc = "complete" => worker[w].attempt \in acted[e]

Apart(v, w) ==
    worker[v].event = worker[w].event => worker[v].attempt # worker[w].attempt

ActedInRange == \A e \in Event :
    acted[e] \subseteq 1 .. attempts[e] /\ (status[e] = "completed" => acted[e] # {})

IInv ==
    /\ TypeOK
    /\ \A w \in Worker : Busy(w) => Held(w)
    /\ \A v, w \in Worker : v # w /\ Busy(v) /\ Busy(w) => Apart(v, w)
    /\ ActedInRange

LEMMA Implied == IInv => TypeOK /\ ClaimsAreFenced /\ ActsBeforeCompleting
BY DEF IInv, ClaimsAreFenced, ActsBeforeCompleting, Held, Apart, ActedInRange, Busy

-----------------------------------------------------------------------------
(* Steps that begin no try and do not reach the provider *)

\* Worker v keeps, or lets go of, what it has in hand, and gains no lock.
Keeps(v) == Busy(v)' =>
    /\ Busy(v)
    /\ worker'[v].event = worker[v].event
    /\ worker'[v].attempt = worker[v].attempt
    /\ worker'[v].left = worker[v].left
    /\ worker'[v].pc \in {"deliver", "complete"} => worker'[v].pc = worker[v].pc
    /\ Owns(v)' => Owns(v)

LEMMA Quiet ==
    ASSUME IInv, TypeOK', UNCHANGED <<attempts, acted>>,
           \A v \in Worker : Keeps(v),
           \A e \in Event : status'[e] = "completed" => acted[e] # {}
    PROVE  IInv'
<1>1. \A v \in Worker : Busy(v)' => Held(v)'
  BY DEF IInv, Held, Keeps, Busy
<1>2. \A u, v \in Worker : u # v /\ Busy(u)' /\ Busy(v)' => Apart(u, v)'
  BY DEF IInv, Apart, Keeps
<1>3. ActedInRange'  BY DEF IInv, ActedInRange
<1>4. QED  BY <1>1, <1>2, <1>3 DEF IInv

\* The documents change and no worker moves.
LEMMA DocumentsOnly ==
    ASSUME IInv, TypeOK', UNCHANGED <<attempts, acted, worker>>,
           \A e \in Event : /\ status'[e] \in {status[e], "pending", "dead"}
                            /\ lockedBy'[e] \in {lockedBy[e], NoWorker}
    PROVE  IInv'
<1>1. \A v \in Worker : Keeps(v)
  <2>1. SUFFICES ASSUME NEW v \in Worker, Busy(v)' PROVE Keeps(v)
    BY DEF Keeps
  <2>2. Busy(v) /\ worker[v].event \in Event /\ v # NoWorker
    BY <2>1, OutboxAssumption DEF IInv, Held, Busy
  <2>3. Owns(v)' => Owns(v)  BY <2>2 DEF Owns
  <2>4. QED  BY <2>2, <2>3 DEF Keeps
<1>2. \A e \in Event : status'[e] = "completed" => acted[e] # {}
  BY DEF IInv, ActedInRange
<1>3. QED  BY <1>1, <1>2, Quiet

\* Worker w turns to r, in which it has no event in hand; nothing else changes.
LEMMA TurnsAway ==
    ASSUME IInv, NEW w \in Worker, NEW r \in Process,
           r.pc \notin {"deliver", "complete", "fail"},
           Become(w, r), UNCHANGED <<events, acted>>
    PROVE  IInv'
<1>1. TypeOK'  BY DEF IInv, TypeOK, Become, events
<1>2. \A v \in Worker : Busy(v)' => v # w /\ Busy(v) /\ worker'[v] = worker[v]
  BY DEF IInv, TypeOK, Become, Busy
<1>3. \A v \in Worker : Keeps(v)
  BY <1>2 DEF Keeps, Owns, events
<1>4. \A e \in Event : status'[e] = "completed" => acted[e] # {}
  BY DEF IInv, ActedInRange, events
<1>5. QED  BY <1>1, <1>3, <1>4, Quiet DEF events

LEMMA EnqueueKeeps == ASSUME IInv, NEW e \in Event, Enqueue(e) PROVE IInv'
<1>1. TypeOK'  BY DEF IInv, TypeOK, Enqueue
<1>2. \A f \in Event : status'[f] \in {status[f], "pending"}
  BY DEF IInv, TypeOK, Enqueue
<1>3. QED  BY <1>1, <1>2, DocumentsOnly DEF Enqueue

LEMMA TimePasses ==
    ASSUME IInv, NEW e \in Event, BackoffEnds(e) \/ LockExpires(e) PROVE IInv'
<1>1. TypeOK'  BY DEF IInv, TypeOK, BackoffEnds, LockExpires
<1>2. QED  BY <1>1, DocumentsOnly DEF BackoffEnds, LockExpires

LEMMA RecoverKeeps ==
    ASSUME IInv, NEW w \in Worker, NEW e \in Event, RecoverExhausted(w, e) PROVE IInv'
<1>1. TypeOK'  BY DEF IInv, TypeOK, RecoverExhausted
<1>2. \A f \in Event : /\ status'[f] \in {status[f], "dead"}
                       /\ lockedBy'[f] \in {lockedBy[f], NoWorker}
  BY DEF IInv, TypeOK, RecoverExhausted
<1>3. QED  BY <1>1, <1>2, DocumentsOnly DEF RecoverExhausted

\* The records a worker becomes.
LEMMA Turned ==
    /\ \A r \in Process : LET q == [r EXCEPT !.pc = "idle"]
                          IN  q \in Process /\ q.pc = "idle"
    /\ \A r \in Process : LET q == [r EXCEPT !.pc = "claim", !.left = BatchSize]
                          IN  q \in Process /\ q.pc = "claim"
<1>1. BatchSize \in 0 .. BatchSize  BY Limits
<1>2. ASSUME NEW r \in Process
      PROVE  LET q == [r EXCEPT !.pc = "idle"] IN q \in Process /\ q.pc = "idle"
  BY DEF Process
<1>3. ASSUME NEW r \in Process
      PROVE  LET q == [r EXCEPT !.pc = "claim", !.left = BatchSize]
             IN  q \in Process /\ q.pc = "claim"
  BY <1>1 DEF Process
<1>4. QED  BY <1>2, <1>3

LEMMA EndTickTurnsAway ==
    ASSUME IInv, NEW w \in Worker, EndTick(w), UNCHANGED <<events, acted>> PROVE IInv'
<1>1. CASE worker[w].stopping
  BY <1>1, OffIsIdle, TurnsAway DEF EndTick
<1>2. CASE ~worker[w].stopping
  BY <1>2, OffIsIdle, Turned, TurnsAway DEF EndTick
<1>3. QED  BY <1>1, <1>2

\* Every step in which a worker without an event in hand goes on without one.
LEMMA TurnsKeep ==
    ASSUME IInv, NEW w \in Worker,
           \/ Start(w) \/ Tick(w) \/ BatchEnds(w) \/ TickEnds(w) \/ TickFails(w) \/ Crash(w)
    PROVE  IInv'
<1> worker[w] \in Process  BY DEF IInv, TypeOK
<1> UNCHANGED <<events, acted>>
  BY DEF Start, Tick, BatchEnds, TickEnds, TickFails, Crash, events
<1>1. CASE Start(w)
  <2> DEFINE r == [Off EXCEPT !.pc = "claim", !.left = BatchSize]
  <2>1. r \in Process /\ r.pc = "claim"  BY OffIsIdle, Turned
  <2>2. Become(w, r)  BY <1>1 DEF Start
  <2> HIDE DEF r
  <2>3. QED  BY <2>1, <2>2, TurnsAway
<1>2. CASE Tick(w)
  <2> DEFINE r == IF worker[w].stopping THEN Off
                  ELSE [worker[w] EXCEPT !.pc = "claim", !.left = BatchSize]
  <2>1. r \in Process /\ r.pc \in {"off", "claim"}  BY OffIsIdle, Turned
  <2>2. Become(w, r)  BY <1>2 DEF Tick
  <2> HIDE DEF r
  <2>3. QED  BY <2>1, <2>2, TurnsAway
<1>3. CASE BatchEnds(w)
  <2> DEFINE r == [worker[w] EXCEPT !.pc = "recover"]
  <2>1. r \in Process /\ r.pc = "recover"  BY DEF Process
  <2>2. QED  BY <1>3, <2>1, TurnsAway DEF BatchEnds, Goto
<1>4. CASE TickEnds(w) \/ TickFails(w)
  BY <1>4, EndTickTurnsAway DEF TickEnds, TickFails
<1>5. CASE Crash(w)
  BY <1>5, OffIsIdle, TurnsAway DEF Crash
<1>6. QED  BY <1>1, <1>2, <1>3, <1>4, <1>5

\* A worker that is asked to stop keeps the event it has in hand.
LEMMA StopKeeps == ASSUME IInv, NEW w \in Worker, Stop(w) PROVE IInv'
<1>1. TypeOK'  BY DEF IInv, TypeOK, Stop, Become, Process
<1>2. \A v \in Worker : Keeps(v)
  BY DEF IInv, TypeOK, Stop, Become, Process, Keeps, Busy, Owns
<1>3. \A e \in Event : status'[e] = "completed" => acted[e] # {}
  BY DEF IInv, ActedInRange, Stop
<1>4. QED  BY <1>1, <1>2, <1>3, Quiet DEF Stop

-----------------------------------------------------------------------------
(* A worker settles the event it has in hand *)

\* What a worker turns to after complete() or fail(): without the event, or to
\* fail() with it.
AfterSettling(w, r) ==
    /\ r \in Process
    /\ Become(w, r)
    /\ \/ r.pc \notin {"deliver", "complete", "fail"}
       \/ /\ r.pc = "fail" /\ r.event = worker[w].event
          /\ r.attempt = worker[w].attempt /\ r.left = worker[w].left

LEMMA SettleKeeps ==
    ASSUME IInv, NEW w \in Worker, Busy(w), NEW st \in {"completed", "pending", "dead"},
           Settle(w, st) \/ UNCHANGED events,
           st = "completed" => acted[worker[w].event] # {},
           NEW r, AfterSettling(w, r), UNCHANGED acted
    PROVE  IInv'
<1> DEFINE e == worker[w].event
<1>0. e \in Event  BY DEF IInv, Held
<1>1. UNCHANGED attempts  BY DEF Settle, events
<1>2. TypeOK'
  <2>1. worker' \in [Worker -> Process]  BY DEF IInv, TypeOK, AfterSettling, Become
  <2>2. CASE UNCHANGED events  BY <2>1, <2>2 DEF IInv, TypeOK, events
  <2>3. CASE Settle(w, st)
    BY <1>0, <2>1, <2>3 DEF IInv, TypeOK, Settle, events
  <2>4. QED  BY <2>2, <2>3
<1>3. \A f \in Event : /\ status'[f] = status[f] \/ (f = e /\ status'[f] = st)
                       /\ lockedBy'[f] \in {lockedBy[f], NoWorker}
  BY <1>0 DEF IInv, TypeOK, Settle, events
<1>4. \A v \in Worker : Keeps(v)
  <2>1. SUFFICES ASSUME NEW v \in Worker, Busy(v)' PROVE Keeps(v)
    BY DEF Keeps
  <2>2. /\ Busy(v) /\ worker'[v].event = worker[v].event
        /\ worker'[v].attempt = worker[v].attempt /\ worker'[v].left = worker[v].left
        /\ worker'[v].pc \in {"deliver", "complete"} => worker'[v].pc = worker[v].pc
    BY <2>1 DEF IInv, TypeOK, AfterSettling, Become, Busy
  <2>3. worker[v].event \in Event /\ v # NoWorker
    BY <2>2, OutboxAssumption DEF IInv, Held
  <2>4. Owns(v)' => Owns(v)  BY <1>3, <2>2, <2>3 DEF Owns
  <2>5. QED  BY <2>2, <2>4 DEF Keeps
<1>5. \A f \in Event : status'[f] = "completed" => acted[f] # {}
  BY <1>3 DEF IInv, ActedInRange
<1>6. QED  BY <1>1, <1>2, <1>4, <1>5, Quiet

\* The three ways to go on are such turns.
LEMMA GoesOn ==
    ASSUME IInv, NEW w \in Worker, Busy(w), NextInBatch(w) \/ Goto(w, "fail") \/ EndTick(w)
    PROVE  \E r : AfterSettling(w, r)
<1>1. worker[w] \in Process  BY DEF IInv, TypeOK
<1>2. worker[w].left > 0  BY DEF IInv, Held
<1>3. CASE NextInBatch(w)
  <2> DEFINE r == [worker[w] EXCEPT !.pc = "claim", !.event = NoEvent, !.attempt = 0,
                                    !.left = @ - 1]
  <2>1. worker[w].left - 1 \in 0 .. BatchSize  BY <1>1, <1>2, Limits DEF Process
  <2>2. 0 \in 0 .. MaxAttempts  BY Limits
  <2>3. r \in Process /\ r.pc = "claim"  BY <1>1, <2>1, <2>2 DEF Process
  <2>4. Become(w, r)  BY <1>3 DEF NextInBatch
  <2> HIDE DEF r
  <2>5. QED  BY <2>3, <2>4 DEF AfterSettling
<1>4. CASE Goto(w, "fail")
  <2> DEFINE r == [worker[w] EXCEPT !.pc = "fail"]
  <2>1. /\ r \in Process /\ r.pc = "fail" /\ r.event = worker[w].event
        /\ r.attempt = worker[w].attempt /\ r.left = worker[w].left
    BY <1>1 DEF Process
  <2>2. Become(w, r)  BY <1>4 DEF Goto
  <2> HIDE DEF r
  <2>3. QED  BY <2>1, <2>2 DEF AfterSettling
<1>5. CASE EndTick(w)
  <2>1. PICK r \in Process : r.pc \in {"off", "idle"} /\ Become(w, r)
    <3>1. CASE worker[w].stopping  BY <1>5, <3>1, OffIsIdle DEF EndTick
    <3>2. CASE ~worker[w].stopping  BY <1>5, <3>2, OffIsIdle, Turned DEF EndTick
    <3>3. QED  BY <3>1, <3>2
  <2>2. QED  BY <2>1 DEF AfterSettling
<1>6. QED  BY <1>3, <1>4, <1>5

LEMMA CompleteKeeps == ASSUME IInv, NEW w \in Worker, Complete(w) PROVE IInv'
<1>1. Busy(w) /\ worker[w].pc = "complete"  BY DEF Complete, Busy
<1>2. acted[worker[w].event] # {}  BY <1>1 DEF IInv, Held
<1>3. PICK r : AfterSettling(w, r)  BY <1>1, GoesOn DEF Complete
<1>4. (Settle(w, "completed") \/ UNCHANGED events) /\ UNCHANGED acted  BY DEF Complete
<1>5. QED  BY <1>1, <1>2, <1>3, <1>4, SettleKeeps

LEMMA FailKeeps == ASSUME IInv, NEW w \in Worker, Fail(w) PROVE IInv'
<1> DEFINE st == FailState(worker[w].attempt)
<1>1. Busy(w)  BY DEF Fail, Busy
<1>2. st \in {"pending", "dead"}  BY DEF FailState
<1>3. PICK r : AfterSettling(w, r)  BY <1>1, GoesOn DEF Fail
<1>4. (Settle(w, st) \/ UNCHANGED events) /\ UNCHANGED acted  BY DEF Fail
<1> HIDE DEF st
<1>5. QED  BY <1>1, <1>2, <1>3, <1>4, SettleKeeps

-----------------------------------------------------------------------------
(* A try begins, and the provider acts *)

\* The new try is one past all the tries other workers are still in, so its lock
\* cannot be taken for theirs.
LEMMA ClaimKeeps ==
    ASSUME IInv, NEW w \in Worker, NEW e \in Event, Claim(w, e) PROVE IInv'
<1> DEFINE r == [worker[w] EXCEPT !.pc = "deliver", !.event = e, !.attempt = attempts[e] + 1]
<1>1. /\ worker[w] \in Process /\ attempts[e] \in Nat
      /\ attempts[e] + 1 \in 1 .. MaxAttempts /\ attempts[e] + 1 \in 0 .. MaxAttempts
  BY Limits DEF IInv, TypeOK, Claim, Claimable
<1>2. /\ r \in Process /\ r.pc = "deliver" /\ r.event = e
      /\ r.attempt = attempts[e] + 1 /\ r.left = worker[w].left
  BY <1>1 DEF Process
<1>3. worker' = [worker EXCEPT ![w] = r] /\ worker[w].left > 0
  BY DEF Claim, Become
<1> HIDE DEF r
<1>4. TypeOK'
  BY <1>1, <1>2, <1>3 DEF IInv, TypeOK, Claim
<1>5. \A v \in Worker : worker'[v] = IF v = w THEN r ELSE worker[v]
  BY <1>3 DEF IInv, TypeOK
<1>6. \A f \in Event : /\ attempts'[f] = IF f = e THEN attempts[e] + 1 ELSE attempts[f]
                       /\ lockedBy'[f] = IF f = e THEN w ELSE lockedBy[f]
                       /\ status'[f] = IF f = e THEN "processing" ELSE status[f]
  BY DEF IInv, TypeOK, Claim
<1>7. UNCHANGED acted  BY DEF Claim
<1>8. \A v \in Worker : Busy(v)' => Held(v)'
  <2>1. SUFFICES ASSUME NEW v \in Worker, Busy(v)' PROVE Held(v)'
    OBVIOUS
  <2>2. CASE v = w
    <3>1. attempts[e] + 1 \notin acted[e]  BY <1>1 DEF IInv, ActedInRange
    <3>2. QED  BY <1>1, <1>2, <1>3, <1>5, <1>6, <1>7, <2>2, <3>1 DEF Held
  <2>3. CASE v # w
    <3>1. worker'[v] = worker[v] /\ Busy(v)  BY <1>5, <2>1, <2>3 DEF Busy
    <3>2. Held(v) /\ worker[v].event \in Event  BY <3>1 DEF IInv, Held
    <3>3. worker[v].attempt \in 1 .. attempts'[worker[v].event]
      BY <1>1, <1>6, <3>2 DEF Held
    <3>4. Owns(v)' => Owns(v) /\ worker[v].event # e
      BY <1>6, <2>3, <3>1, <3>2 DEF Owns
    <3>5. QED  BY <1>6, <1>7, <3>1, <3>2, <3>3, <3>4 DEF Held
  <2>4. QED  BY <2>2, <2>3
<1>9. \A u, v \in Worker : u # v /\ Busy(u)' /\ Busy(v)' => Apart(u, v)'
  <2>1. \A v \in Worker : v # w /\ Busy(v)' /\ worker[v].event = e
                          => worker[v].attempt < attempts[e] + 1
    <3>1. SUFFICES ASSUME NEW v \in Worker, v # w, Busy(v)', worker[v].event = e
                   PROVE  worker[v].attempt < attempts[e] + 1
      OBVIOUS
    <3>2. worker[v].attempt \in 1 .. attempts[e]  BY <1>5, <3>1 DEF IInv, Held, Busy
    <3>3. QED  BY <1>1, <3>2
  <2>2. \A v \in Worker : v # w /\ Busy(v)' => Busy(v)  BY <1>5 DEF Busy
  <2>3. SUFFICES ASSUME NEW u \in Worker, NEW v \in Worker, u # v, Busy(u)', Busy(v)'
                 PROVE  Apart(u, v)'
    OBVIOUS
  <2>4. CASE u # w /\ v # w  BY <1>5, <2>2, <2>3, <2>4 DEF IInv, Apart
  <2>5. CASE u = w
    <3>1. worker[v].event = e => worker[v].attempt < attempts[e] + 1
      BY <2>1, <2>3, <2>5
    <3>2. worker[v].event = e => worker[v].attempt \in Nat
      BY <1>5, <2>2, <2>3, <2>5 DEF IInv, TypeOK, Process
    <3>3. QED  BY <1>1, <1>2, <1>5, <2>3, <2>5, <3>1, <3>2 DEF Apart
  <2>6. CASE v = w
    <3>1. worker[u].event = e => worker[u].attempt < attempts[e] + 1
      BY <2>1, <2>3, <2>6
    <3>2. worker[u].event = e => worker[u].attempt \in Nat
      BY <1>5, <2>2, <2>3, <2>6 DEF IInv, TypeOK, Process
    <3>3. QED  BY <1>1, <1>2, <1>5, <2>3, <2>6, <3>1, <3>2 DEF Apart
  <2>7. QED  BY <2>4, <2>5, <2>6
<1>10. ActedInRange'
  <2>1. \A f \in Event : acted[f] \subseteq 1 .. attempts'[f]
    BY <1>1, <1>6 DEF IInv, ActedInRange
  <2>2. QED  BY <1>6, <1>7, <2>1 DEF IInv, ActedInRange
<1>11. QED  BY <1>4, <1>8, <1>9, <1>10 DEF IInv

\* The attempt that acts is not the one another worker is about to make.
LEMMA DeliverKeeps == ASSUME IInv, NEW w \in Worker, Deliver(w) PROVE IInv'
<1> DEFINE e == worker[w].event
           n == worker[w].attempt
<1>1. /\ worker[w] \in Process /\ worker[w].pc = "deliver" /\ Busy(w)
      /\ e \in Event /\ n \in 1 .. attempts[e] /\ attempts[e] \in 0 .. MaxAttempts
  BY DEF IInv, TypeOK, Deliver, Busy, Held
<1>2. PICK pc \in {"complete", "fail"} :
         /\ Goto(w, pc)
         /\ acted' = [acted EXCEPT ![e] = @ \cup {n}] \/ (UNCHANGED acted /\ pc = "fail")
  BY DEF Deliver, Acts
<1>3. UNCHANGED <<status, attempts, lockedBy, ripe, stale>>  BY DEF Deliver, Acts, events
<1>4. \A v \in Worker :
         worker'[v] = IF v = w THEN [worker[w] EXCEPT !.pc = pc] ELSE worker[v]
  BY <1>2 DEF IInv, TypeOK, Goto, Become
<1>5. TypeOK'
  <2>1. worker' \in [Worker -> Process]
    <3>1. [worker[w] EXCEPT !.pc = pc] \in Process  BY <1>1 DEF Process
    <3>2. QED  BY <1>2, <3>1 DEF IInv, TypeOK, Goto, Become
  <2>2. n \in 1 .. MaxAttempts  BY <1>1, Limits
  <2>3. acted' \in [Event -> SUBSET (1 .. MaxAttempts)]
    BY <1>1, <1>2, <2>2 DEF IInv, TypeOK
  <2>4. QED  BY <1>3, <2>1, <2>3 DEF IInv, TypeOK
<1>6. /\ \A f \in Event : acted[f] \subseteq acted'[f] /\ (f # e => acted'[f] = acted[f])
      /\ acted'[e] \subseteq acted[e] \cup {n}
      /\ pc = "complete" => n \in acted'[e]
  BY <1>1, <1>2 DEF IInv, TypeOK
<1>7. \A v \in Worker : /\ worker'[v].event = worker[v].event
                        /\ worker'[v].attempt = worker[v].attempt
                        /\ worker'[v].left = worker[v].left
                        /\ v = w => worker'[v].pc = pc
                        /\ v # w => worker'[v].pc = worker[v].pc
  BY <1>1, <1>4 DEF Process
<1>8. \A v \in Worker : Busy(v)' => Busy(v) /\ (Owns(v)' <=> Owns(v))
  BY <1>1, <1>3, <1>7 DEF Busy, Owns
<1>9. \A v \in Worker : Busy(v)' => Held(v)'
  <2>1. SUFFICES ASSUME NEW v \in Worker, Busy(v)' PROVE Held(v)'
    OBVIOUS
  <2>2. Held(v) /\ Busy(v) /\ (Owns(v)' <=> Owns(v))  BY <1>8, <2>1 DEF IInv
  <2>3. CASE v = w
    BY <1>2, <1>3, <1>6, <1>7, <2>2, <2>3 DEF Held
  <2>4. CASE v # w
    <3>1. worker[v].event = e => worker[v].attempt # n
      BY <1>1, <2>2, <2>4 DEF IInv, Apart
    <3>2. QED  BY <1>3, <1>6, <1>7, <2>2, <2>4, <3>1 DEF Held
  <2>5. QED  BY <2>3, <2>4
<1>10. \A u, v \in Worker : u # v /\ Busy(u)' /\ Busy(v)' => Apart(u, v)'
  BY <1>7, <1>8 DEF IInv, Apart
<1>11. ActedInRange'
  BY <1>1, <1>3, <1>6 DEF IInv, ActedInRange
<1>12. QED  BY <1>5, <1>9, <1>10, <1>11 DEF IInv

-----------------------------------------------------------------------------
(* The invariants *)

LEMMA StartsWell == Init => IInv
<1> SUFFICES ASSUME Init PROVE IInv  OBVIOUS
<1>1. \A w \in Worker : worker[w] = Off  BY DEF Init
<1>2. TypeOK  BY OffIsIdle, Limits DEF Init, TypeOK
<1>3. \A w \in Worker : ~Busy(w)  BY <1>1, OffIsIdle DEF Busy
<1>4. ActedInRange  BY DEF Init, ActedInRange
<1>5. QED  BY <1>2, <1>3, <1>4 DEF IInv

LEMMA StepKeeps == IInv /\ [Next]_vars => IInv'
<1> SUFFICES ASSUME IInv, [Next]_vars PROVE IInv'  OBVIOUS
<1>1. CASE UNCHANGED vars
  BY <1>1 DEF vars, IInv, TypeOK, Held, Apart, ActedInRange, Busy, Owns
<1>2. ASSUME NEW e \in Event, Enqueue(e) \/ BackoffEnds(e) \/ LockExpires(e) PROVE IInv'
  BY <1>2, EnqueueKeeps, TimePasses
<1>3. ASSUME NEW w \in Worker,
             \/ Start(w) \/ Tick(w) \/ BatchEnds(w) \/ TickEnds(w) \/ TickFails(w)
             \/ Stop(w) \/ Crash(w)
      PROVE  IInv'
  BY <1>3, TurnsKeep, StopKeeps
<1>4. ASSUME NEW w \in Worker, NEW e \in Event, Claim(w, e) \/ RecoverExhausted(w, e)
      PROVE  IInv'
  BY <1>4, ClaimKeeps, RecoverKeeps
<1>5. ASSUME NEW w \in Worker, Deliver(w) \/ Complete(w) \/ Fail(w) PROVE IInv'
  BY <1>5, DeliverKeeps, CompleteKeeps, FailKeeps
<1>6. QED  BY <1>1, <1>2, <1>3, <1>4, <1>5 DEF Next

LEMMA Invariance == Spec => []IInv
BY StartsWell, StepKeeps, PTL DEF Spec

\* The event and worker records stay well formed: in particular no event is
\* claimed more than maxAttempts times, whatever the workers do.
THEOREM TypeCorrect == Spec => []TypeOK
BY Invariance, Implied, PTL

\* A worker that outlived its lock never settles the attempt of another: the
\* lockedBy filter of complete() and fail() is enough.
THEOREM FencingHolds == Spec => []ClaimsAreFenced
BY Invariance, Implied, PTL

\* An event marked completed was acted on by the provider, and no attempt acts twice.
THEOREM ActsFirst == Spec => []ActsBeforeCompleting
BY Invariance, Implied, PTL

-----------------------------------------------------------------------------
(* The outbox implements Delivery *)

LEMMA InitRefines == Init => Abstract!Init
BY DEF Init, Abstract!Init, Outcomes, Outcome

LEMMA OutcomeChanges ==
    ASSUME TypeOK, NEW e \in Event, NEW st, status' = [status EXCEPT ![e] = st]
    PROVE  Outcomes' = [Outcomes EXCEPT ![e] = Outcome(st)]
BY DEF TypeOK, Outcomes

LEMMA OutcomeOf ==
    ASSUME TypeOK, NEW e \in Event
    PROVE  /\ Outcomes[e] = "none" <=> status[e] = "absent"
           /\ Outcomes[e] = "owed" <=> status[e] \in {"pending", "processing"}
BY DEF TypeOK, Outcomes, Outcome

\* An event document that stays owed is no step of Delivery.
LEMMA StaysOwed ==
    ASSUME TypeOK, NEW e \in Event, Outcomes[e] = "owed",
           NEW st \in {"pending", "processing"}, status' = [status EXCEPT ![e] = st]
    PROVE  UNCHANGED Outcomes
<1>1. Outcome(st) = "owed"  BY DEF Outcome
<1>2. QED  BY <1>1, OutcomeChanges DEF Outcomes

LEMMA EnqueueRefines ==
    ASSUME IInv, NEW e \in Event, Enqueue(e) PROVE Abstract!Promise(e)
<1>1. TypeOK  BY DEF IInv
<1>2. Outcome("pending") = "owed"  BY DEF Outcome
<1>3. Outcomes' = [Outcomes EXCEPT ![e] = "owed"]
  BY <1>1, <1>2, OutcomeChanges DEF Enqueue
<1>4. QED  BY <1>1, <1>3, OutcomeOf DEF Enqueue, Abstract!Promise

LEMMA ClaimRefines ==
    ASSUME IInv, NEW w \in Worker, NEW e \in Event, Claim(w, e) PROVE Abstract!Try(e)
<1>1. TypeOK  BY DEF IInv
<1>2. Outcomes[e] = "owed"  BY <1>1, OutcomeOf DEF Claim, Claimable
<1>3. UNCHANGED Outcomes  BY <1>1, <1>2, StaysOwed DEF Claim
<1>4. QED  BY <1>2, <1>3 DEF Claim, Claimable, Abstract!Try

LEMMA DeliverRefines ==
    ASSUME IInv, NEW w \in Worker, Deliver(w)
    PROVE  Abstract!Act(worker[w].event) \/ UNCHANGED Abstract!vars
<1> DEFINE e == worker[w].event
           n == worker[w].attempt
<1>1. /\ n \in (1 .. attempts[e]) \ acted[e] /\ UNCHANGED <<status, attempts>>
  BY DEF IInv, Held, Busy, Deliver, Acts, events
<1>2. acted' = [acted EXCEPT ![e] = @ \cup {n}] \/ UNCHANGED acted  BY DEF Deliver, Acts
<1>3. UNCHANGED Outcomes  BY <1>1 DEF Outcomes
<1>4. QED  BY <1>1, <1>2, <1>3 DEF Abstract!Act, Abstract!vars

\* complete(): the event is done, or the worker no longer owned it.
LEMMA CompleteRefines ==
    ASSUME IInv, NEW w \in Worker, Complete(w)
    PROVE  Abstract!Done(worker[w].event) \/ UNCHANGED Abstract!vars
<1> DEFINE e == worker[w].event
<1>1. TypeOK /\ e \in Event /\ acted[e] # {} /\ UNCHANGED <<attempts, acted>>
  BY DEF IInv, Held, Busy, Complete, Settle, events
<1>2. CASE UNCHANGED status
  BY <1>1, <1>2 DEF Outcomes, Abstract!vars
<1>3. CASE Owns(w) /\ status' = [status EXCEPT ![e] = "completed"]
  <2>1. Outcome("completed") = "done"  BY DEF Outcome
  <2>2. Outcomes' = [Outcomes EXCEPT ![e] = "done"]  BY <1>1, <1>3, <2>1, OutcomeChanges
  <2>3. Outcomes[e] = "owed"  BY <1>1, <1>3, OutcomeOf DEF Owns
  <2>4. QED  BY <1>1, <2>2, <2>3 DEF Abstract!Done
<1>4. QED  BY <1>2, <1>3 DEF Complete, Settle, events

\* fail(): the event is still owed, or its last attempt is spent.
LEMMA FailRefines ==
    ASSUME IInv, NEW w \in Worker, Fail(w)
    PROVE  Abstract!GiveUp(worker[w].event) \/ UNCHANGED Abstract!vars
<1> DEFINE e == worker[w].event
           n == worker[w].attempt
<1>1. TypeOK /\ e \in Event /\ UNCHANGED <<attempts, acted>> /\ n \in 1 .. attempts[e]
  BY DEF IInv, Held, Busy, Fail, Settle, events
<1>2. CASE UNCHANGED status
  BY <1>1, <1>2 DEF Outcomes, Abstract!vars
<1>3. CASE Owns(w) /\ status' = [status EXCEPT ![e] = FailState(n)]
  <2>1. Outcomes[e] = "owed"  BY <1>1, <1>3, OutcomeOf DEF Owns
  <2>2. CASE n < MaxAttempts
    <3>1. FailState(n) = "pending"  BY <1>1, <2>2, Limits DEF FailState, TypeOK
    <3>2. UNCHANGED Outcomes  BY <1>1, <1>3, <2>1, <3>1, StaysOwed
    <3>3. QED  BY <1>1, <3>2 DEF Abstract!vars
  <2>3. CASE n >= MaxAttempts
    <3>1. FailState(n) = "dead" /\ Outcome("dead") = "given up"
      BY <2>3 DEF FailState, Outcome
    <3>2. attempts[e] = MaxAttempts  BY <1>1, <2>3, Limits DEF TypeOK
    <3>3. Outcomes' = [Outcomes EXCEPT ![e] = "given up"]
      BY <1>1, <1>3, <3>1, OutcomeChanges
    <3>4. QED  BY <1>1, <2>1, <3>2, <3>3 DEF Abstract!GiveUp
  <2>4. QED  BY <1>1, <2>2, <2>3, Limits DEF TypeOK
<1>4. QED  BY <1>2, <1>3 DEF Fail, Settle, events

LEMMA RecoverRefines ==
    ASSUME IInv, NEW w \in Worker, NEW e \in Event, RecoverExhausted(w, e)
    PROVE  Abstract!GiveUp(e)
<1>1. TypeOK /\ Outcome("dead") = "given up"  BY DEF IInv, Outcome
<1>2. Outcomes' = [Outcomes EXCEPT ![e] = "given up"]
  BY <1>1, OutcomeChanges DEF RecoverExhausted
<1>3. Outcomes[e] = "owed"
  BY <1>1, OutcomeOf DEF RecoverExhausted, Exhausted
<1>4. attempts[e] = MaxAttempts
  <2>1. attempts[e] \in 0 .. MaxAttempts  BY <1>1 DEF TypeOK
  <2>2. attempts[e] >= MaxAttempts  BY DEF RecoverExhausted, Exhausted
  <2>3. QED  BY <2>1, <2>2, Limits
<1>5. QED  BY <1>2, <1>3, <1>4 DEF RecoverExhausted, Abstract!GiveUp

LEMMA StepRefines == IInv /\ [Next]_vars => [Abstract!Next]_Abstract!vars
<1> SUFFICES ASSUME IInv, [Next]_vars PROVE [Abstract!Next]_Abstract!vars  OBVIOUS
<1>1. CASE UNCHANGED <<status, attempts, acted>>
  BY <1>1 DEF Outcomes, Abstract!vars
<1>2. ASSUME NEW e \in Event, Enqueue(e) PROVE Abstract!Next
  BY <1>2, EnqueueRefines DEF Abstract!Next
<1>3. ASSUME NEW w \in Worker, NEW e \in Event, Claim(w, e) \/ RecoverExhausted(w, e)
      PROVE  Abstract!Next
  BY <1>3, ClaimRefines, RecoverRefines DEF Abstract!Next
<1>4. ASSUME NEW w \in Worker, Deliver(w) \/ Complete(w) \/ Fail(w)
      PROVE  Abstract!Next \/ UNCHANGED Abstract!vars
  <2>1. worker[w].event \in Event  BY <1>4 DEF IInv, Held, Busy, Deliver, Complete, Fail
  <2>2. QED
    BY <1>4, <2>1, DeliverRefines, CompleteRefines, FailRefines DEF Abstract!Next
<1>5. ASSUME NEW e \in Event, BackoffEnds(e) \/ LockExpires(e)
      PROVE  UNCHANGED <<status, attempts, acted>>
  BY <1>5 DEF BackoffEnds, LockExpires
<1>6. ASSUME NEW w \in Worker,
             \/ Start(w) \/ Tick(w) \/ BatchEnds(w) \/ TickEnds(w) \/ TickFails(w)
             \/ Stop(w) \/ Crash(w)
      PROVE  UNCHANGED <<status, attempts, acted>>
  BY <1>6 DEF Start, Tick, BatchEnds, TickEnds, TickFails, Stop, Crash
<1>7. CASE UNCHANGED vars  BY <1>1, <1>7 DEF vars
<1>8. QED  BY <1>1, <1>2, <1>3, <1>4, <1>5, <1>6, <1>7 DEF Next

\* Workers that crash, stall past their lock, repeat an event or lose an answer of
\* the database do nothing that Delivery does not allow.
THEOREM Refinement == Spec => ImplementsDelivery
BY InitRefines, StepRefines, Invariance, PTL DEF Spec, ImplementsDelivery, Abstract!Spec
=============================================================================
