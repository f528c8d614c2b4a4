------------------------------ MODULE Settings ------------------------------
(***************************************************************************)
(* The platform settings: one document (models/SystemSettings.ts), its      *)
(* update by an administrator (services/settingsService.ts), the copy every *)
(* server process caches, and the monthly job that jobs/cronJobs.ts         *)
(* reschedules when the copy is invalidated.                                *)
(*                                                                          *)
(* Of the fields only quotaResetDayOfMonth is kept: every update changes    *)
(* it.  A load is one call of getInstance that getCached shares between its *)
(* callers; several may be under way in one process when an invalidation    *)
(* came in between, and each may fail.  A process that starts runs no job   *)
(* and hears of no update before its first load has arrived.                *)
(***************************************************************************)
EXTENDS Naturals

CONSTANTS
    Process,       \* server processes
    Day,           \* values of quotaResetDayOfMonth
    DefaultDay,    \* the schema's default
    MaxLoads,      \* bound of the model only: calls of getInstance at a time
    MaxSettings    \* bound of the model only: versions

ASSUME SettingsAssumption == DefaultDay \in Day /\ {MaxLoads, MaxSettings} \subseteq Nat

Load == 1..MaxLoads

VARIABLES
    doc,        \* the settings document
    copy,       \* _cache of the processes that have one
    generation, \* _cacheGeneration
    promise,    \* _cachePromise: the load that callers share
    load,       \* the loads under way
    editor,     \* the update under way in a process
    mail,       \* invalidations on the bus: process and version
    up,         \* processes whose jobs are initialized
    schedule,   \* the day each of them runs the quota job on
    floor,      \* the latest version each process was told of, or started at
    excused     \* processes whose job may be behind for one of the reasons that
                \* ScheduleFollows names, until it loads the day that holds

caching      == <<copy, generation, promise, load, floor>>
running      == <<up, schedule>>
settingsVars == <<doc, caching, editor, mail, running, excused>>

Document == [version: Nat, day: Day, lacks: BOOLEAN]

SettingsInit ==
    /\ doc \in [version: {1}, day: {DefaultDay}, lacks: BOOLEAN]
    /\ copy = <<>>
    /\ generation = [p \in Process |-> 0]
    /\ promise = <<>> /\ load = <<>> /\ editor = <<>> /\ mail = {}
    /\ up = Process /\ schedule = [p \in Process |-> doc.day]
    /\ floor = [p \in Process |-> 1]
    /\ excused = {}

Drop(f, k) == [x \in DOMAIN f \ {k} |-> f[x]]

Put(f, k, v) == [x \in DOMAIN f \cup {k} |-> IF x = k THEN v ELSE f[x]]

-----------------------------------------------------------------------------
(* getInstance: read, and fill in what the document lacks *)

ReadDoc(l) ==
    /\ l \in DOMAIN load /\ load[l].pc = "read"
    /\ load' = [load EXCEPT ![l].pc = IF doc.lacks THEN "fill" ELSE "arrive", ![l].doc = doc]
    /\ UNCHANGED <<doc, copy, generation, promise, floor, editor, mail, running, excused>>

Filled == [doc EXCEPT !.day = DefaultDay, !.lacks = FALSE]

\* The defaults of the fields that were missing when the document was read; an
\* update that gave them a value meanwhile is overwritten.
FillDoc(l) ==
    /\ l \in DOMAIN load /\ load[l].pc = "fill"
    /\ doc' = Filled
    /\ load' = [load EXCEPT ![l].pc = "arrive", ![l].doc = Filled]
    /\ excused' = IF doc.lacks THEN excused ELSE Process
    /\ UNCHANGED <<copy, generation, promise, floor, editor, mail, running>>

-----------------------------------------------------------------------------
(* getCached *)

Nothing == [version |-> 0, day |-> DefaultDay, lacks |-> FALSE]

Begun(p, gen, forJob) == [pc |-> "read", at |-> p, gen |-> gen, doc |-> Nothing, job |-> forJob]

\* The next call: the calls differ in nothing but their number.
Calls(l) == l \in Load \ DOMAIN load /\ 1..(l - 1) \subseteq DOMAIN load

\* A miss starts a load unless one is shared already.
GetCached(p, l) ==
    /\ p \in up /\ p \notin DOMAIN copy /\ p \notin DOMAIN promise /\ Calls(l)
    /\ load' = Put(load, l, Begun(p, generation[p], FALSE))
    /\ promise' = Put(promise, p, l)
    /\ UNCHANGED <<doc, copy, generation, floor, editor, mail, running, excused>>

\* Mutant: a load fills the cache whatever was invalidated since it began.
StillCurrentAlways(l) == TRUE

StillCurrent(l) == load[l].gen = generation[load[l].at]

\* The other loads for the job of the same process.
Rivals(l) == {m \in DOMAIN load \ {l} : load[m].at = load[l].at /\ load[m].job}

Overtakes(l) == \E m \in Rivals(l) : load[m].gen < load[l].gen

Overtaken(l) == \E m \in Rivals(l) : load[m].gen > load[l].gen

\* The load is over, and shared no longer.
Ends(l) ==
    LET p == load[l].at
    IN  /\ load' = Drop(load, l)
        /\ promise' = IF p \in DOMAIN promise /\ promise[p] = l THEN Drop(promise, p) ELSE promise

\* The answer arrives; the handler that waited for it replaces the task, and the
\* start that waited for it is over.
Arrive(l) ==
    /\ l \in DOMAIN load /\ load[l].pc = "arrive" /\ Ends(l)
    /\ LET p == load[l].at
       IN  /\ copy' = IF StillCurrent(l) THEN Put(copy, p, load[l].doc) ELSE copy
           /\ IF load[l].job
              THEN /\ schedule' = [schedule EXCEPT ![p] = load[l].doc.day] /\ up' = up \cup {p}
                   /\ excused' = IF Overtakes(l) THEN excused \cup {p}
                                 ELSE IF Rivals(l) = {} /\ load[l].doc.day = doc.day
                                      THEN excused \ {p} ELSE excused
              ELSE UNCHANGED <<running, excused>>
    /\ UNCHANGED <<doc, generation, editor, mail, floor>>

\* getInstance rejects: the handler logs it and keeps its task, and a process that
\* was starting ends.
LoadFails(l) ==
    /\ l \in DOMAIN load /\ Ends(l)
    /\ excused' = IF load[l].job /\ ~Overtaken(l) THEN excused \cup {load[l].at} ELSE excused
    /\ UNCHANGED <<doc, copy, generation, editor, mail, floor, running>>

Expires(p) ==
    /\ p \in DOMAIN copy
    /\ copy' = Drop(copy, p)
    /\ UNCHANGED <<doc, generation, promise, load, floor, editor, mail, running, excused>>

\* Mutant: the handler does not see that the day changed.
JobIgnores(p, l) == Put(load, l, Begun(p, generation[p] + 1, FALSE))

\* settingsInvalidatedHandler calls getCached at once, and misses.
JobLoads(p, l) == Put(load, l, Begun(p, generation[p] + 1, TRUE))

\* invalidateCache: forget the copy and the shared load.
Forget(p, version) ==
    /\ copy' = Drop(copy, p)
    /\ generation' = [generation EXCEPT ![p] = @ + 1]
    /\ floor' = [floor EXCEPT ![p] = IF version > @ THEN version ELSE @]

\* The handler of a process that is up is told, and loads.
Invalidate(p, l, version) ==
    /\ p \in up /\ Calls(l) /\ Forget(p, version)
    /\ load' = JobLoads(p, l)
    /\ promise' = Put(promise, p, l)

-----------------------------------------------------------------------------
(* updateSettings *)

\* getInstance, then the version the administrator saw is compared.
EditRead(p, day) ==
    /\ p \in up \ DOMAIN editor /\ ~doc.lacks /\ day # doc.day
    /\ editor' = Put(editor, p, [pc |-> "commit", version |-> doc.version, day |-> day])
    /\ UNCHANGED <<doc, caching, mail, running, excused>>

\* One transaction: the document, if its version is still the one, and the log.
EditCommit(p) ==
    /\ p \in DOMAIN editor /\ editor[p].pc = "commit" /\ doc.version < MaxSettings
    /\ IF doc.version = editor[p].version
       THEN /\ doc' = [doc EXCEPT !.version = @ + 1, !.day = editor[p].day]
            /\ editor' = [editor EXCEPT ![p].pc = "invalidate", ![p].version = @ + 1]
       ELSE editor' = Drop(editor, p) /\ UNCHANGED doc
    /\ UNCHANGED <<caching, mail, running, excused>>

\* The update ends without telling anybody of what it may have committed.
Untold(p) == IF p \in DOMAIN editor /\ editor[p].pc = "invalidate" THEN Process ELSE excused

\* The transaction is reported as failed, applied or not.
EditFails(p) ==
    /\ p \in DOMAIN editor
    /\ editor' = Drop(editor, p) /\ excused' = Untold(p)
    /\ UNCHANGED <<doc, caching, mail, running>>

\* The process forgets its own copy, then publishes.
EditInvalidate(p, l) ==
    /\ p \in DOMAIN editor /\ editor[p].pc = "invalidate"
    /\ Invalidate(p, l, editor[p].version)
    /\ mail' = mail \cup {[to |-> q, version |-> editor[p].version] : q \in Process \ {p}}
    /\ editor' = Drop(editor, p)
    /\ UNCHANGED <<doc, running, excused>>

Receive(m, l) ==
    /\ Invalidate(m.to, l, m.version)
    /\ mail' = mail \ {m}
    /\ UNCHANGED <<doc, editor, running, excused>>

\* A process that is starting has no handler yet: its first load, if the document
\* was read before the update, brings the day of before.
ReceiveStarting(m) ==
    /\ m.to \notin up /\ Forget(m.to, m.version)
    /\ promise' = Drop(promise, m.to)
    /\ excused' = IF \E l \in DOMAIN load :
                        load[l].at = m.to /\ load[l].pc = "arrive" /\ load[l].doc.day # doc.day
                  THEN excused \cup {m.to} ELSE excused
    /\ mail' = mail \ {m}
    /\ UNCHANGED <<doc, load, editor, running>>

\* Redis is away: the failure is only logged.
LoseMail(m) ==
    /\ mail' = mail \ {m}
    /\ excused' = excused \cup {m.to}
    /\ UNCHANGED <<doc, caching, editor, running>>

\* A process dies, running or starting.
Dies(p) ==
    /\ p \in up \/ p \in DOMAIN promise
    /\ up' = up \ {p}
    /\ copy' = Drop(copy, p) /\ promise' = Drop(promise, p)
    /\ load' = [l \in {x \in DOMAIN load : load[x].at # p} |-> load[l]]
    /\ editor' = Drop(editor, p)
    /\ mail' = {m \in mail : m.to # p}
    /\ excused' = Untold(p) \ {p}
    /\ UNCHANGED <<doc, generation, schedule, floor>>

\* initCronJobs of its successor, which serves nobody yet, begins its first load.
Boots(p, l) ==
    /\ p \notin up /\ (\A m \in DOMAIN load : load[m].at # p) /\ Calls(l)
    /\ generation' = [generation EXCEPT ![p] = 0]
    /\ floor' = [floor EXCEPT ![p] = doc.version]
    /\ load' = Put(load, l, Begun(p, 0, TRUE))
    /\ promise' = Put(promise, p, l)
    /\ UNCHANGED <<doc, copy, editor, mail, running, excused>>

SettingsNext ==
    \/ \E l \in Load : ReadDoc(l) \/ FillDoc(l) \/ Arrive(l) \/ LoadFails(l)
    \/ \E p \in Process :
         \/ Expires(p) \/ Dies(p) \/ EditCommit(p) \/ EditFails(p)
         \/ \E l \in Load : GetCached(p, l) \/ EditInvalidate(p, l) \/ Boots(p, l)
         \/ \E day \in Day : EditRead(p, day)
    \/ \E m \in mail : LoseMail(m) \/ ReceiveStarting(m) \/ (\E l \in Load : Receive(m, l))

SettingsSpec == SettingsInit /\ [][SettingsNext]_settingsVars

-----------------------------------------------------------------------------
(* Properties *)

SettingsTypeOK ==
    /\ doc \in Document
    /\ DOMAIN copy \subseteq Process /\ DOMAIN promise \subseteq Process
    /\ \A p \in DOMAIN promise : promise[p] \in DOMAIN load
    /\ generation \in [Process -> Nat] /\ floor \in [Process -> Nat]
    /\ schedule \in [Process -> Day] /\ up \subseteq Process /\ excused \subseteq Process

\* A process never caches settings older than the last update it was told of: a
\* load that was under way when the invalidation came does not fill the cache
\* after it (getCached's generation).
NoStaleFill == \A p \in DOMAIN copy : copy[p].version >= floor[p]

\* The quota job of a process runs on the day the settings say, once nothing is
\* under way that would tell it, unless something told it wrong and it has not loaded
\* the day that holds since: an invalidation was lost or never sent, came while the
\* process was starting, or came again while the handler was still loading for the
\* one before; the handler's load failed; or the defaults overwrote an update
\* (settingsInvalidatedHandler, scheduleQuotaReset, initCronJobs).
ScheduleFollows ==
    \A p \in up :
        \/ schedule[p] = doc.day
        \/ p \in excused
        \/ \E q \in DOMAIN editor : editor[q].pc = "invalidate"
        \/ \E m \in mail : m.to = p
        \/ \E l \in DOMAIN load : load[l].job /\ load[l].at = p
=============================================================================
