------------------------------- MODULE Outbox -------------------------------
(***************************************************************************)
(* The durable outbox: jobs/outboxWorker.ts over                            *)
(* repositories/outboxRepository.ts.                                        *)
(*                                                                          *)
(* An event is inserted by the transaction of the operation that owes it.   *)
(* Any number of worker processes claim events one at a time; a claim is a  *)
(* lock that other workers may take over when it is older than              *)
(* OUTBOX_LOCK_TIMEOUT_MS.  Each repository call is one atomic update, and  *)
(* may also fail, applied or not.  Time is kept as two sets: the pending    *)
(* events whose back-off is over, and the locks that have grown stale.      *)
(***************************************************************************)
EXTENDS Naturals

CONSTANTS
    Event,         \* one per idempotencyKey
    Worker,        \* worker processes; a restarted one is a fresh WORKER_ID
    NoWorker, NoEvent,
    MaxAttempts,   \* OutboxEvent.maxAttempts
    BatchSize      \* OUTBOX_BATCH_SIZE

ASSUME OutboxAssumption ==
    /\ NoWorker \notin Worker
    /\ NoEvent \notin Event
    /\ MaxAttempts \in 1 .. 20
    /\ BatchSize \in Nat \ {0}

VARIABLES
    status, attempts, lockedBy,   \* the event documents
    ripe,     \* events with availableAt in the past
    stale,    \* events with lockedAt older than the lock timeout
    acted,    \* the attempts in which the provider acted
    worker    \* what each worker process is doing

events == <<status, attempts, lockedBy, ripe, stale>>
vars == <<status, attempts, lockedBy, ripe, stale, acted, worker>>

Off == [pc |-> "off", event |-> NoEvent, attempt |-> 0, left |-> 0, stopping |-> FALSE]

Process == [pc: {"off", "idle", "claim", "deliver", "complete", "fail", "recover"},
            event: Event \cup {NoEvent}, attempt: 0 .. MaxAttempts,
            left: 0 .. BatchSize, stopping: BOOLEAN]

Busy(w) == worker[w].pc \in {"deliver", "complete", "fail"}

Init ==
    /\ status = [e \in Event |-> "absent"]
    /\ attempts = [e \in Event |-> 0]
    /\ lockedBy = [e \in Event |-> NoWorker]
    /\ ripe = {}
    /\ stale = {}
    /\ acted = [e \in Event |-> {}]
    /\ worker = [w \in Worker |-> Off]

Become(w, r) == worker' = [worker EXCEPT ![w] = r]

Goto(w, pc) == Become(w, [worker[w] EXCEPT !.pc = pc])

\* An event is done with, and the loop turns.
NextInBatch(w) ==
    Become(w, [worker[w] EXCEPT !.pc = "claim", !.event = NoEvent, !.attempt = 0,
                                !.left = @ - 1])

EndTick(w) ==
    Become(w, IF worker[w].stopping THEN Off
              ELSE [Off EXCEPT !.pc = "idle"])

-----------------------------------------------------------------------------
(* Events and time *)

\* Inserted with the transaction that owes the effect; the unique index on
\* idempotencyKey makes it happen once.
Enqueue(e) ==
    /\ status[e] = "absent"
    /\ status' = [status EXCEPT ![e] = "pending"]
    /\ ripe' = ripe \cup {e}
    /\ UNCHANGED <<attempts, lockedBy, stale, acted, worker>>

BackoffEnds(e) ==
    /\ status[e] = "pending" /\ e \notin ripe
    /\ ripe' = ripe \cup {e}
    /\ UNCHANGED <<status, attempts, lockedBy, stale, acted, worker>>

\* The lock times out, whether its worker died or is only slow.
LockExpires(e) ==
    /\ status[e] = "processing" /\ e \notin stale
    /\ stale' = stale \cup {e}
    /\ UNCHANGED <<status, attempts, lockedBy, ripe, acted, worker>>

-----------------------------------------------------------------------------
(* One tick of a worker: a batch, then recoverExhausted *)

Start(w) ==
    /\ worker[w].pc = "off"
    /\ Become(w, [Off EXCEPT !.pc = "claim", !.left = BatchSize])
    /\ UNCHANGED <<status, attempts, lockedBy, ripe, stale, acted>>

Tick(w) ==
    /\ worker[w].pc = "idle"
    /\ Become(w, IF worker[w].stopping THEN Off
                 ELSE [worker[w] EXCEPT !.pc = "claim", !.left = BatchSize])
    /\ UNCHANGED <<status, attempts, lockedBy, ripe, stale, acted>>

Claimable(e) ==
    /\ attempts[e] < 20 /\ attempts[e] < MaxAttempts
    /\ \/ status[e] = "pending" /\ e \in ripe
       \/ status[e] = "processing" /\ e \in stale

\* Mutant: the claim does not count.
ClaimUncounted(w, e) ==
    /\ worker[w].pc = "claim" /\ worker[w].left > 0 /\ ~worker[w].stopping
    /\ Claimable(e)
    /\ status' = [status EXCEPT ![e] = "processing"]
    /\ lockedBy' = [lockedBy EXCEPT ![e] = w]
    /\ stale' = stale \ {e}
    /\ Become(w, [worker[w] EXCEPT !.pc = "deliver", !.event = e,
                                   !.attempt = attempts[e] + 1])
    /\ UNCHANGED <<attempts, ripe, acted>>

Claim(w, e) ==
    /\ worker[w].pc = "claim" /\ worker[w].left > 0 /\ ~worker[w].stopping
    /\ Claimable(e)
    /\ status' = [status EXCEPT ![e] = "processing"]
    /\ attempts' = [attempts EXCEPT ![e] = @ + 1]
    /\ lockedBy' = [lockedBy EXCEPT ![e] = w]
    /\ stale' = stale \ {e}
    /\ Become(w, [worker[w] EXCEPT !.pc = "deliver", !.event = e,
                                   !.attempt = attempts[e] + 1])
    /\ UNCHANGED <<ripe, acted>>

\* The batch is over: it is full, nothing is claimable, or the worker is stopping.
BatchEnds(w) ==
    /\ worker[w].pc = "claim"
    /\ \/ worker[w].left = 0 \/ worker[w].stopping
       \/ \A e \in Event : ~Claimable(e)
    /\ Goto(w, "recover")
    /\ UNCHANGED <<status, attempts, lockedBy, ripe, stale, acted>>

\* deliver(): the provider acts or not, and the call returns or throws.
Acts(w) ==
    LET r == worker[w] IN
    /\ acted' = [acted EXCEPT ![r.event] = @ \cup {r.attempt}]
    /\ UNCHANGED events

\* Mutant: the delivery is not awaited.
DeliverUnawaited(w) ==
    /\ worker[w].pc = "deliver"
    /\ Goto(w, "complete")
    /\ UNCHANGED <<status, attempts, lockedBy, ripe, stale, acted>>

Deliver(w) ==
    /\ worker[w].pc = "deliver"
    /\ \/ Acts(w) /\ (Goto(w, "complete") \/ Goto(w, "fail"))
       \/ Goto(w, "fail") /\ UNCHANGED <<events, acted>>

\* Mutant: the update looks at neither the status nor lockedBy.
OwnsAnyStatus(w) == status[worker[w].event] # "absent"

\* The filter of complete() and fail().
Owns(w) == status[worker[w].event] = "processing" /\ lockedBy[worker[w].event] = w

Settle(w, st) ==
    LET e == worker[w].event IN
    IF Owns(w)
    THEN /\ status' = [status EXCEPT ![e] = st]
         /\ lockedBy' = [lockedBy EXCEPT ![e] = NoWorker]
         /\ stale' = stale \ {e}
         /\ ripe' = IF st = "pending" THEN ripe \ {e} ELSE ripe
         /\ UNCHANGED attempts
    ELSE UNCHANGED events

\* An error of complete() is caught like an error of deliver(): fail() follows,
\* though the effect happened and the update may have been applied.
Complete(w) ==
    /\ worker[w].pc = "complete"
    /\ \/ Settle(w, "completed") /\ (NextInBatch(w) \/ Goto(w, "fail"))
       \/ UNCHANGED events /\ Goto(w, "fail")
    /\ UNCHANGED acted

FailState(n) == IF n >= MaxAttempts THEN "dead" ELSE "pending"

\* An error of fail() ends the tick, without recoverExhausted.
Fail(w) ==
    /\ worker[w].pc = "fail"
    /\ \/ Settle(w, FailState(worker[w].attempt)) /\ (NextInBatch(w) \/ EndTick(w))
       \/ UNCHANGED events /\ EndTick(w)
    /\ UNCHANGED acted

\* Mutant: only pending events are recovered.
ExhaustedPendingOnly(e) == attempts[e] >= MaxAttempts /\ status[e] = "pending"

Exhausted(e) ==
    /\ attempts[e] >= MaxAttempts
    /\ \/ status[e] = "processing" /\ e \in stale
       \/ status[e] = "pending"

\* updateMany reaches the documents one by one.
RecoverExhausted(w, e) ==
    /\ worker[w].pc = "recover"
    /\ Exhausted(e)
    /\ status' = [status EXCEPT ![e] = "dead"]
    /\ lockedBy' = [lockedBy EXCEPT ![e] = NoWorker]
    /\ stale' = stale \ {e}
    /\ UNCHANGED <<attempts, ripe, acted, worker>>

TickEnds(w) ==
    /\ worker[w].pc = "recover"
    /\ \A e \in Event : ~Exhausted(e)
    /\ EndTick(w)
    /\ UNCHANGED <<status, attempts, lockedBy, ripe, stale, acted>>

\* The database call of a claim or of a recovery throws: the tick is over.
TickFails(w) ==
    /\ worker[w].pc \in {"claim", "recover"}
    /\ EndTick(w)
    /\ UNCHANGED <<status, attempts, lockedBy, ripe, stale, acted>>

\* stopOutboxWorker: the loop ends after the event in hand.
Stop(w) ==
    /\ worker[w].pc # "off" /\ ~worker[w].stopping
    /\ Become(w, [worker[w] EXCEPT !.stopping = TRUE])
    /\ UNCHANGED <<status, attempts, lockedBy, ripe, stale, acted>>

\* The process dies, or the 15 s that stopOutboxWorker grants it run out.
Crash(w) ==
    /\ worker[w].pc # "off"
    /\ Become(w, Off)
    /\ UNCHANGED <<status, attempts, lockedBy, ripe, stale, acted>>

Next ==
    \/ \E e \in Event : Enqueue(e) \/ BackoffEnds(e) \/ LockExpires(e)
    \/ \E w \in Worker :
          \/ Start(w) \/ Tick(w) \/ (\E e \in Event : Claim(w, e)) \/ BatchEnds(w)
          \/ Deliver(w) \/ Complete(w) \/ Fail(w)
          \/ (\E e \in Event : RecoverExhausted(w, e)) \/ TickEnds(w) \/ TickFails(w) \/ Stop(w) \/ Crash(w)

Spec == Init /\ [][Next]_vars

-----------------------------------------------------------------------------
(* What the code promises *)

\* Every event and worker is well formed; an event is never claimed more often
\* than maxAttempts.
TypeOK ==
    /\ status \in [Event -> {"absent", "pending", "processing", "completed", "dead"}]
    /\ attempts \in [Event -> 0 .. MaxAttempts]
    /\ lockedBy \in [Event -> Worker \cup {NoWorker}]
    /\ ripe \subseteq Event
    /\ stale \subseteq Event
    /\ acted \in [Event -> SUBSET (1 .. MaxAttempts)]
    /\ worker \in [Worker -> Process]

\* However late a worker is, the lock tells its claim from the later ones: two
\* workers on one event are on different attempts, and the one the event names
\* is on the last.
ClaimsAreFenced ==
    /\ \A w \in Worker : Busy(w) =>
          LET e == worker[w].event IN
          /\ e \in Event /\ worker[w].left > 0
          /\ worker[w].attempt \in 1 .. attempts[e]
          /\ Owns(w) => worker[w].attempt = attempts[e]
    /\ \A v, w \in Worker :
          /\ v # w /\ Busy(v) /\ Busy(w)
          /\ worker[v].event = worker[w].event
          => worker[v].attempt # worker[w].attempt

\* The try a worker is in has not acted before; a completed event has been acted
\* on, and so has one about to be completed.
ActsBeforeCompleting ==
    /\ \A w \in Worker :
          /\ worker[w].pc = "deliver" => worker[w].attempt \notin acted[worker[w].event]
          /\ worker[w].pc = "complete" => worker[w].attempt \in acted[worker[w].event]
    /\ \A e \in Event :
          /\ acted[e] \subseteq 1 .. attempts[e]
          /\ status[e] = "completed" => acted[e] # {}

Outcome(st) ==
    CASE st = "absent" -> "none"
      [] st \in {"pending", "processing"} -> "owed"
      [] st = "completed" -> "done"
      [] st = "dead" -> "given up"

Outcomes == [e \in Event |-> Outcome(status[e])]

Abstract == INSTANCE Delivery WITH outcome <- Outcomes, tries <- attempts

\* Workers that crash, stall past their lock, or lose the answer of the database
\* deliver what Delivery promises: a settled event stays settled, a completed
\* one was acted on, an abandoned one had all its attempts.
ImplementsDelivery == Abstract!Spec

\* Time passes; a worker process is restarted; and however often it dies and
\* the database fails, it gets past each stage of its tick again and again.
Fairness ==
    /\ \A e \in Event : WF_vars(BackoffEnds(e)) /\ WF_vars(LockExpires(e))
    /\ \A w \in Worker :
          /\ WF_vars(Start(w)) /\ WF_vars(Tick(w)) /\ WF_vars(TickEnds(w))
          /\ WF_vars(Deliver(w)) /\ WF_vars(Complete(w)) /\ WF_vars(Fail(w))
          /\ SF_vars(\E e \in Event : Claim(w, e)) /\ SF_vars(BatchEnds(w))
          /\ SF_vars(\E e \in Event : RecoverExhausted(w, e))

FairSpec == Spec /\ Fairness

\* Every event that was enqueued is completed or declared dead in the end: no
\* crash, stale lock or lost answer strands it.
EventsSettle == Abstract!Settles
=============================================================================
