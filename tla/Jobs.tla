-------------------------------- MODULE Jobs --------------------------------
(***************************************************************************)
(* A periodic job of jobs/cronJobs.ts, run by one process at a time under   *)
(* the lease of utils/distributedLock.ts, with the health record that       *)
(* runSafe keeps for it.  The job is the booking reminder: it looks for     *)
(* bookings about to expire and, one task for each, claims the reminder,    *)
(* notifies the recipient and takes the claim back when that failed.        *)
(*                                                                          *)
(* A booking (bookedBy, bookedAt) is a number that grows with every new     *)
(* holder of the item.  The lease is counted in the thirds of its time      *)
(* after which it is extended.                                              *)
(***************************************************************************)
EXTENDS Naturals

CONSTANTS
    Server,      \* server processes that run the job
    Item,
    Nobody,      \* the lock is free
    Gone,        \* the lock is held by a token nobody knows any more
    MaxBookings, \* bound of the model only: bookings of an item
    MaxJobFaults    \* bound of the model only: failures and crashes

ASSUME JobsAssumption ==
    Nobody \notin Server /\ Gone \notin Server /\ Gone # Nobody
    /\ MaxBookings \in Nat /\ MaxJobFaults \in Nat

VARIABLES
    lease,     \* the lock: who holds it, thirds of its time that are left
    job,       \* the run of each process
    item,      \* the items, as the job sees them
    health,    \* BackgroundJobState
    counted,   \* consecutiveFailures in each process's cronStatus
    lapsed,    \* running processes whose lease ran out
    sent,      \* reminders stored for each booking
    doubted,   \* those of them whose storing was reported as failed
    forgotten, \* claimed bookings whose reminder was neither sent nor freed
    streak,    \* runs that failed since the last that did not
    blurred,   \* a health record was not read or saved, or two runs overlapped
    jobFaults

jobsVars  == <<lease, job, item, health, counted, lapsed, sent, doubted, forgotten, streak, blurred,
               jobFaults>>
reminders == <<sent, doubted>>
records   == <<health, counted, streak, blurred>>

Bookings == Item \X (1..MaxBookings)
NoRun     == [pc |-> "idle", tasks |-> {}, failed |-> FALSE]
Full     == 3

JobsInit ==
    /\ lease = [by |-> Nobody, left |-> 0]
    /\ job = [s \in Server |-> NoRun]
    /\ item = [i \in Item |-> [booking |-> 0, open |-> FALSE, reminded |-> FALSE]]
    /\ health = [status |-> "pending", failures |-> 0]
    /\ counted = [s \in Server |-> 0]
    /\ lapsed = {} /\ forgotten = {}
    /\ sent = [b \in Bookings |-> 0] /\ doubted = sent
    /\ streak = 0 /\ blurred = FALSE /\ jobFaults = 0

JobFault == jobFaults < MaxJobFaults /\ jobFaults' = jobFaults + 1

-----------------------------------------------------------------------------
(* The lease *)

\* SET NX: the other processes skip this round.
Start(s) ==
    /\ job[s].pc = "idle" /\ lease.by = Nobody
    /\ lease' = [by |-> s, left |-> Full]
    /\ job' = [job EXCEPT ![s] = [NoRun EXCEPT !.pc = "begin"]]
    /\ UNCHANGED <<item, lapsed, reminders, forgotten, records, jobFaults>>

Running(s) == job[s].pc \in {"begin", "scan", "work"}

\* A third of the lease has passed.  The timer of a process at work extends it,
\* unless Redis is away or the process is stalled.
Tick ==
    /\ lease.by # Nobody
    /\ \E left \in {lease.left - 1} \cup (IF lease.by \in Server /\ Running(lease.by) THEN {Full} ELSE {}) :
         lease' = IF left = 0 THEN [by |-> Nobody, left |-> 0] ELSE [lease EXCEPT !.left = left]
    /\ lapsed' = IF lease'.by = Nobody /\ lease.by \in Server /\ Running(lease.by)
                 THEN lapsed \cup {lease.by} ELSE lapsed
    /\ UNCHANGED <<job, item, reminders, forgotten, records, jobFaults>>

\* Mutant: the lock is deleted whoever holds it.
FreedAlways(s) == [by |-> Nobody, left |-> 0]

\* RELEASE_SCRIPT compares the token first.
Freed(s) == IF lease.by = s THEN [by |-> Nobody, left |-> 0] ELSE lease

Release(s) ==
    /\ job[s].pc = "release"
    /\ \/ lease' = Freed(s) /\ UNCHANGED jobFaults
       \/ JobFault /\ lease' = IF lease.by = s THEN [lease EXCEPT !.by = Gone] ELSE lease
    /\ job' = [job EXCEPT ![s] = NoRun]
    /\ lapsed' = lapsed \ {s}
    /\ UNCHANGED <<item, reminders, forgotten, records>>

-----------------------------------------------------------------------------
(* runSafe: the health record *)

Alone(s) == \A p \in Server \ {s} : job[p].pc \in {"idle", "release"}

\* Mutant: the count of the process itself, whatever the record says.
OwnCount(s) == counted[s]

PreviousFailures(s) == health.failures

\* Read the record of the last run, wherever it ran, and mark this one running.
\* A failure of either is swallowed.
Begin(s) ==
    /\ job[s].pc = "begin"
    /\ job' = [job EXCEPT ![s].pc = "scan"]
    /\ \/ /\ counted' = [counted EXCEPT ![s] = PreviousFailures(s)]
          /\ health' = [status |-> "running", failures |-> counted'[s]]
          /\ blurred' = (blurred \/ ~Alone(s))
          /\ UNCHANGED jobFaults
       \/ JobFault /\ blurred' = TRUE /\ UNCHANGED <<counted, health>>
    /\ UNCHANGED <<lease, item, lapsed, reminders, forgotten, streak>>

Failures(s) == IF job[s].failed THEN counted[s] + 1 ELSE 0

\* The last task has settled.
End(s) ==
    /\ job[s].pc = "work" /\ job[s].tasks = {}
    /\ counted' = [counted EXCEPT ![s] = Failures(s)]
    /\ streak' = IF job[s].failed THEN streak + 1 ELSE 0
    /\ \/ health' = [status |-> IF job[s].failed THEN "failed" ELSE "success", failures |-> Failures(s)]
          /\ blurred' = (blurred \/ ~Alone(s))
          /\ UNCHANGED jobFaults
       \/ JobFault /\ blurred' = TRUE /\ UNCHANGED health
    /\ job' = [job EXCEPT ![s] = [NoRun EXCEPT !.pc = "release"]]
    /\ UNCHANGED <<lease, item, lapsed, reminders, forgotten>>

-----------------------------------------------------------------------------
(* The reminders *)

Scan(s) ==
    /\ job[s].pc = "scan"
    /\ job' = [job EXCEPT ![s].pc = "work",
                          ![s].tasks = {[item |-> i, booking |-> item[i].booking, pc |-> "claim"] :
                                          i \in {x \in Item : item[x].open /\ ~item[x].reminded}}]
    /\ UNCHANGED <<lease, item, lapsed, reminders, forgotten, records, jobFaults>>

Done(s, t)    == [job EXCEPT ![s].tasks = @ \ {t}]
Moves(s, t, pc) == [job EXCEPT ![s].tasks = (@ \ {t}) \cup {[t EXCEPT !.pc = pc]}]

\* Mutant: the filter names the item but not the booking.
AnyBooking(t) == item[t.item].open

\* bookingFilter: the item is still held under the booking that was scanned.
SameBooking(t) == item[t.item].open /\ item[t.item].booking = t.booking

StillClaimed(t) == SameBooking(t)

Claimable(t) == SameBooking(t) /\ ~item[t.item].reminded

Claimed(t) == [item EXCEPT ![t.item].reminded = TRUE]

Claim(s, t) ==
    /\ t \in job[s].tasks /\ t.pc = "claim"
    /\ IF Claimable(t) THEN item' = Claimed(t) /\ job' = Moves(s, t, "notify")
                       ELSE job' = Done(s, t) /\ UNCHANGED item
    /\ UNCHANGED <<lease, lapsed, reminders, forgotten, records, jobFaults>>

\* The update rejects, before the task would undo anything: the claim stays if it
\* was applied nevertheless.
ClaimFails(s, t) ==
    /\ t \in job[s].tasks /\ t.pc = "claim" /\ JobFault
    /\ \/ UNCHANGED <<item, forgotten>>
       \/ Claimable(t) /\ item' = Claimed(t) /\ forgotten' = forgotten \cup {<<t.item, t.booking>>}
    /\ job' = [Done(s, t) EXCEPT ![s].failed = TRUE]
    /\ UNCHANGED <<lease, lapsed, reminders, records>>

OneMore(f, t) == [f EXCEPT ![<<t.item, t.booking>>] = @ + 1]

Notify(s, t) ==
    /\ t \in job[s].tasks /\ t.pc = "notify"
    /\ sent' = OneMore(sent, t)
    /\ job' = Done(s, t)
    /\ UNCHANGED <<lease, item, lapsed, doubted, forgotten, records, jobFaults>>

Failed(s, t) ==
    [job EXCEPT ![s].failed = TRUE, ![s].tasks = (@ \ {t}) \cup {[t EXCEPT !.pc = "undo"]}]

\* notifyUser rejects; the notification may have been stored nevertheless.
NotifyFails(s, t) ==
    /\ t \in job[s].tasks /\ t.pc = "notify" /\ JobFault
    /\ \/ UNCHANGED reminders
       \/ sent' = OneMore(sent, t) /\ doubted' = OneMore(doubted, t)
    /\ job' = Failed(s, t)
    /\ UNCHANGED <<lease, item, lapsed, forgotten, records>>

\* The claim is taken back if it is still this booking's.
Undo(s, t) ==
    /\ t \in job[s].tasks /\ t.pc = "undo"
    /\ \/ /\ item' = IF StillClaimed(t) THEN [item EXCEPT ![t.item].reminded = FALSE] ELSE item
          /\ UNCHANGED <<forgotten, jobFaults>>
       \/ /\ JobFault /\ forgotten' = forgotten \cup {<<t.item, t.booking>>}
          /\ UNCHANGED item
    /\ job' = Done(s, t)
    /\ UNCHANGED <<lease, lapsed, reminders, records>>

-----------------------------------------------------------------------------
(* What goes on around the job *)

\* A new holder, directly or from the waitlist; unbooking resets reminderSent.
Book(i) ==
    /\ item[i].booking < MaxBookings
    /\ item' = [item EXCEPT ![i] = [booking |-> @.booking + 1, open |-> TRUE, reminded |-> FALSE]]
    /\ UNCHANGED <<lease, job, lapsed, reminders, forgotten, records, jobFaults>>

\* Cancelled, expired or delivered: no longer a booking to remind of.
Close(i) ==
    /\ item[i].open
    /\ \E reminded \in {FALSE, item[i].reminded} :
         item' = [item EXCEPT ![i].open = FALSE, ![i].reminded = reminded]
    /\ UNCHANGED <<lease, job, lapsed, reminders, forgotten, records, jobFaults>>

\* The process dies; its lease stays until it runs out.
Crash(s) ==
    /\ job[s].pc # "idle" /\ JobFault
    /\ forgotten' = forgotten \cup
         {<<t.item, t.booking>> : t \in {x \in job[s].tasks : x.pc \in {"notify", "undo"}}}
    /\ job' = [job EXCEPT ![s] = NoRun]
    /\ lease' = IF lease.by = s THEN [lease EXCEPT !.by = Gone] ELSE lease
    /\ lapsed' = lapsed \ {s}
    /\ counted' = [counted EXCEPT ![s] = 0]
    /\ UNCHANGED <<item, reminders, health, streak, blurred>>

Task(s, t) == Claim(s, t) \/ ClaimFails(s, t) \/ Notify(s, t) \/ NotifyFails(s, t) \/ Undo(s, t)

Step(s) ==
    \/ Begin(s) \/ Scan(s) \/ End(s) \/ Release(s)
    \/ \E t \in job[s].tasks : Task(s, t)

JobsNext ==
    \/ Tick
    \/ \E s \in Server : Start(s) \/ Step(s) \/ Crash(s)
    \/ \E i \in Item : Book(i) \/ Close(i)

JobsSpec == JobsInit /\ [][JobsNext]_jobsVars

-----------------------------------------------------------------------------
(* Properties *)

JobsTypeOK ==
    /\ lease \in [by : Server \cup {Nobody, Gone}, left : 0..Full]
    /\ \A s \in Server : job[s].pc \in {"idle", "begin", "scan", "work", "release"}
    /\ item \in [Item -> [booking : 0..MaxBookings, open : BOOLEAN, reminded : BOOLEAN]]
    /\ {sent, doubted} \subseteq [Bookings -> Nat] /\ forgotten \subseteq Bookings /\ lapsed \subseteq Server

\* A process runs the job under its own lease, unless three extensions in a row
\* did not come through: a run that outlived its lease never frees the lease of
\* the process that took over (runWithDistributedLock).
LeaseHeld == \A s \in Server : Running(s) => lease.by = s \/ s \in lapsed

\* However many processes run the job, and whoever holds the item meanwhile, a
\* booking is reminded of at most once, and once more for each time that storing the
\* reminder was reported as failed though it was done (bookingFilter of the
\* booking-reminder job).
RemindedOnce == \A b \in Bookings : sent[b] <= doubted[b] + 1

\* While every health record is read and saved and the runs do not overlap, the
\* record counts the failures since the last success, in whatever process they
\* happened (runSafe).
FailuresCounted == blurred \/ health.failures = streak

\* A claimed reminder is either sent or being worked on: one whose sending is reported
\* as failed is free again for the next run, unless the claim was lost with a crash, or
\* with a claim or its undoing that the database reported as failed; and taking it
\* back never frees the claim of the item's next holder.
ClaimsAreLive ==
    \A i \in Item : item[i].open /\ item[i].reminded =>
        LET b == <<i, item[i].booking>> IN
        \/ sent[b] > doubted[b] \/ b \in forgotten
        \/ \E s \in Server : \E t \in job[s].tasks :
              <<t.item, t.booking>> = b /\ t.pc \in {"notify", "undo"}

\* The life of a reminder: sent once, and not lost while its claim stands.
RemindersSound == RemindedOnce /\ ClaimsAreLive
=============================================================================
