------------------------------ MODULE Ratings ------------------------------
(***************************************************************************)
(* The two parties of one delivered item rate each other                     *)
(* (services/ratingService.ts). A rating is stored and added to the other's  *)
(* trust score in one transaction; a request that is sent again, or at the   *)
(* same time, must not be counted again.                                     *)
(***************************************************************************)
EXTENDS Integers

CONSTANTS
    Submission   \* requests under way

VARIABLES
    rating,      \* the stored rating of each rater: its trustDelta
    trustScore,  \* what ratings added to each party's trust score
    submission   \* the transaction of each request

ratingVars == <<rating, trustScore, submission>>

Party    == {"donor", "receiver"}
Delta    == {-2, 1, 2}     \* calcTrustDelta of a bad, a good and an excellent score
Unrated  == 9
Other(p) == IF p = "donor" THEN "receiver" ELSE "donor"

\* seen: the rater's own rating in the snapshot; clash: the item was written since.
Resting == [pc |-> "idle", rater |-> "donor", delta |-> 1, seen |-> Unrated, clash |-> FALSE]

RatingsInit ==
    /\ rating = [p \in Party |-> Unrated]
    /\ trustScore = [p \in Party |-> 0]
    /\ submission = [s \in Submission |-> Resting]

Submit(s, p, delta) ==
    /\ submission[s].pc = "idle"
    /\ submission' = [submission EXCEPT ![s] =
           [pc |-> "open", rater |-> p, delta |-> delta, seen |-> rating[p], clash |-> FALSE]]
    /\ UNCHANGED <<rating, trustScore>>

\* findExistingRating in the snapshot, or the unique index on item and rater.
Duplicate(t) == t.seen # Unrated \/ rating[t.rater] # Unrated

\* Mutant: the score is incremented outside the transaction's session.
LeavesScore(t) == [trustScore EXCEPT ![Other(t.rater)] = @ + t.delta]

\* What an attempt that is rolled back leaves of the score.
RolledBack(t) == trustScore

\* A replay is answered with the stored rating, anything else refused; nothing changes.
Replay(s) ==
    /\ submission[s].pc = "open" /\ ~submission[s].clash
    /\ Duplicate(submission[s])
    /\ submission' = [submission EXCEPT ![s] = Resting]
    /\ UNCHANGED <<rating, trustScore>>

\* createRating, markItemRated and incrementUserTrustScore commit together, and
\* markItemRated makes the other party's open transaction conflict.
Store(s) ==
    LET t == submission[s] IN
    /\ t.pc = "open" /\ ~Duplicate(t) /\ ~t.clash
    /\ rating' = [rating EXCEPT ![t.rater] = t.delta]
    /\ trustScore' = [trustScore EXCEPT ![Other(t.rater)] = @ + t.delta]
    /\ submission' = [o \in Submission |->
           IF o = s THEN Resting
           ELSE [submission[o] EXCEPT !.clash = submission[o].pc = "open"]]

\* The driver runs the transaction again.
Rerun(s) ==
    LET t == submission[s] IN
    /\ t.pc = "open" /\ t.clash
    /\ submission' = [submission EXCEPT ![s].seen = rating[t.rater], ![s].clash = FALSE]
    /\ trustScore' = RolledBack(t)
    /\ UNCHANGED rating

RatingsNext ==
    \E s \in Submission :
        \/ \E p \in Party, d \in Delta : Submit(s, p, d)
        \/ Replay(s) \/ Store(s) \/ Rerun(s)

RatingsSpec == RatingsInit /\ [][RatingsNext]_ratingVars

-----------------------------------------------------------------------------
(* Properties *)

\* Every stored rating counts once in the score of the party it is about, whatever was
\* sent twice or at the same time.
RatingsCountOnce ==
    \A p \in Party : trustScore[p] = IF rating[Other(p)] = Unrated THEN 0 ELSE rating[Other(p)]
=============================================================================
