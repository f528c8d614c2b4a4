------------------------------ MODULE Reports ------------------------------
(***************************************************************************)
(* Reports against one user: filing (services/reportService.ts), the         *)
(* appeal, an administrator's decision and the automatic ban it may bring    *)
(* (services/adminService.ts, resolveReport), bans and unbans by hand.       *)
(* A decision is a MongoDB transaction: it reads a snapshot and fails when   *)
(* a document it writes was written since; what it only read may be stale.   *)
(***************************************************************************)
EXTENDS Naturals, FiniteSets

CONSTANTS
    Report,     \* reports that can be filed
    Context,    \* a reporter and the delivery it complains of, if any
    Admin,      \* administrators at work
    Absent,    \* stands for no report
    Threshold   \* autoReportBanThreshold

ASSUME ThresholdAssumption == Threshold \in Nat \ {0} /\ IsFiniteSet(Report)

VARIABLES
    reports,    \* [status, context, appealed] of each report
    expired,       \* reports whose appeal deadline has passed
    appealing,  \* reports with an appeal between its checks and its update
    banned,     \* isBanned of the reported user
    decision,   \* the transaction of each administrator
    pardoned     \* history: see Commit and Unban

reportVars == <<reports, expired, appealing, banned, decision, pardoned>>

Verdict == {"actioned", "closed"}    \* closed: reviewed or dismissed

NoReport == [status |-> "none", context |-> Absent, appealed |-> FALSE]

\* No transaction; missed: another write to this user's case followed the snapshot;
\* clash: one of those wrote the user document.
NoDecision == [pc |-> "idle", report |-> Absent, verdict |-> "closed",
         doc |-> NoReport, upheld |-> 0, banned |-> FALSE, missed |-> FALSE, clash |-> FALSE]

ReportsInit ==
    /\ reports = [r \in Report |-> NoReport]
    /\ expired = {} /\ appealing = {}
    /\ banned = FALSE /\ pardoned = FALSE
    /\ decision = [a \in Admin |-> NoDecision]

Actioned == {r \in Report : reports[r].status = "actioned"}

-----------------------------------------------------------------------------
(* Filing and appealing *)

\* createReport: the check for an open one, and the unique index behind it.
File(r, x) ==
    /\ reports[r].status = "none"
    /\ \A o \in Report : ~(reports[o].status = "pending" /\ reports[o].context = x)
    /\ reports' = [reports EXCEPT ![r] = [status |-> "pending", context |-> x, appealed |-> FALSE]]
    /\ UNCHANGED <<expired, appealing, banned, decision, pardoned>>

DeadlinePasses(r) ==
    /\ reports[r].status = "pending" /\ expired' = expired \cup {r}
    /\ UNCHANGED <<reports, appealing, banned, decision, pardoned>>

\* submitAppeal up to its update; the time compared there is taken here too.
Appeal(r) ==
    /\ reports[r].status = "pending" /\ ~reports[r].appealed
    /\ r \notin expired
    /\ appealing' = appealing \cup {r}
    /\ UNCHANGED <<reports, expired, banned, decision, pardoned>>

\* Mutant: the update trusts the checks made before it.
AppealableRegardless(r) == TRUE

\* The filter of reportRepository.submitAppeal.
Appealable(r) == reports[r].status = "pending" /\ ~reports[r].appealed

StoreAppeal(r) ==
    /\ r \in appealing
    /\ appealing' = appealing \ {r}
    /\ reports' = IF Appealable(r) THEN [reports EXCEPT ![r].appealed = TRUE] ELSE reports
    /\ UNCHANGED <<expired, banned, decision, pardoned>>

-----------------------------------------------------------------------------
(* Decisions *)

\* The snapshot of resolveReport's transaction.
Decide(a, r, verdict) ==
    /\ decision[a].pc = "idle"
    /\ reports[r].status = "pending"
    /\ decision' = [decision EXCEPT ![a] =
           [pc |-> "open", report |-> r, verdict |-> verdict, doc |-> reports[r],
            upheld |-> Cardinality(Actioned), banned |-> banned, missed |-> FALSE, clash |-> FALSE]]
    /\ UNCHANGED <<reports, expired, appealing, banned, pardoned>>

\* Mutant: the reports are counted before this one is marked.
CountBefore(d) == d.upheld

\* countActionedByReportedUser, after the report was marked in the same session.
Count(d) == d.upheld + 1

Bans(d) == d.verdict = "actioned" /\ Count(d) >= Threshold /\ ~d.banned

\* WriteConflict: the driver runs the transaction again, from Decide.
Conflict(d) == reports[d.report] # d.doc \/ (Bans(d) /\ d.clash)

\* What this user's case looks like to an open transaction after another's write.
Told(clash) ==
    [b \in Admin |-> IF decision[b].pc = "idle" THEN decision[b]
                     ELSE [decision[b] EXCEPT !.missed = TRUE, !.clash = @ \/ clash]]

Commit(a) ==
    LET d == decision[a] IN
    /\ d.pc = "open"
    /\ ~Conflict(d)
    /\ reports' = [reports EXCEPT ![d.report].status = d.verdict]
    /\ banned' = (banned \/ Bans(d))
    /\ pardoned' = IF d.verdict = "actioned" THEN d.missed ELSE pardoned
    /\ decision' = IF d.verdict = "actioned" THEN [Told(Bans(d)) EXCEPT ![a] = NoDecision]
                   ELSE [decision EXCEPT ![a] = NoDecision]
    /\ UNCHANGED <<expired, appealing>>

Abort(a) ==
    /\ decision[a].pc = "open"
    /\ Conflict(decision[a])
    /\ decision' = [decision EXCEPT ![a] = NoDecision]
    /\ UNCHANGED <<reports, expired, appealing, banned, pardoned>>

BanByHand ==
    /\ banned' = TRUE
    /\ decision' = Told(TRUE)
    /\ UNCHANGED <<reports, expired, appealing, pardoned>>

Unban ==
    /\ banned' = FALSE /\ pardoned' = TRUE
    /\ decision' = Told(TRUE)
    /\ UNCHANGED <<reports, expired, appealing>>

ReportsNext ==
    \/ \E r \in Report :
         \/ \E x \in Context : File(r, x)
         \/ DeadlinePasses(r) \/ Appeal(r) \/ StoreAppeal(r)
    \/ \E a \in Admin :
         \/ \E r \in Report, v \in Verdict : Decide(a, r, v)
         \/ Commit(a) \/ Abort(a)
    \/ BanByHand \/ Unban

ReportsSpec == ReportsInit /\ [][ReportsNext]_reportVars

-----------------------------------------------------------------------------
(* Properties *)

ReportsTypeOK ==
    /\ reports \in [Report -> [status : {"none", "pending"} \cup Verdict, context : Context \cup {Absent}, appealed : BOOLEAN]]
    /\ expired \subseteq Report /\ appealing \subseteq Report
    /\ banned \in BOOLEAN /\ pardoned \in BOOLEAN

\* A user against whom Threshold reports were upheld is banned, unless an
\* administrator lifted the ban or the last approval overlapped another change to the
\* case: the next approval that overlaps none catches up.
BannedAtThreshold == Cardinality(Actioned) >= Threshold => banned \/ pardoned

\* A decided report is closed: of two administrators only one decides it, and no appeal
\* reaches it whose checks were made before the decision.
DecisionsAreFinal ==
    [][\A r \in Report : reports[r].status \in Verdict => reports'[r] = reports[r]]_reportVars
=============================================================================
