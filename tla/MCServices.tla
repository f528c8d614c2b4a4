---------------------------- MODULE MCServices ----------------------------
(***************************************************************************)
(* The components that meet the rest of the platform only through            *)
(* documents of their own, checked side by side: in each behaviour one of    *)
(* them is at work and the others rest in their initial state.               *)
(***************************************************************************)
EXTENDS Settings, Jobs, Trust, Reports, Ratings, Images, TLC

CONSTANTS n1, n2, n3, i1, k1, k2

VARIABLE part   \* the component at work

Part == {"settings", "jobs", "trust", "reports", "ratings", "images"}

vars == <<part, settingsVars, jobsVars, trustVars, reportVars, ratingVars, imagesVars>>

\* A component that rests does so in one of its initial states.
AtRest ==
    /\ part # "settings" => ~doc.lacks
    /\ part # "trust" => /\ rules = [newAtLevel2 |-> FALSE, phonePromotes |-> FALSE]
                         /\ account.level = 1 /\ ~account.student
    /\ part # "images" => ~listing.linked

Init ==
    /\ part \in Part
    /\ SettingsInit /\ JobsInit /\ TrustInit /\ ReportsInit /\ RatingsInit /\ ImagesInit
    /\ AtRest

Next ==
    \/ /\ part = "settings" /\ SettingsNext
       /\ UNCHANGED <<part, jobsVars, trustVars, reportVars, ratingVars, imagesVars>>
    \/ /\ part = "jobs" /\ JobsNext
       /\ UNCHANGED <<part, settingsVars, trustVars, reportVars, ratingVars, imagesVars>>
    \/ /\ part = "trust" /\ TrustNext
       /\ UNCHANGED <<part, settingsVars, jobsVars, reportVars, ratingVars, imagesVars>>
    \/ /\ part = "reports" /\ ReportsNext
       /\ UNCHANGED <<part, settingsVars, jobsVars, trustVars, ratingVars, imagesVars>>
    \/ /\ part = "ratings" /\ RatingsNext
       /\ UNCHANGED <<part, settingsVars, jobsVars, trustVars, reportVars, imagesVars>>
    \/ /\ part = "images" /\ ImagesNext
       /\ UNCHANGED <<part, settingsVars, jobsVars, trustVars, reportVars, ratingVars>>

Spec == Init /\ [][Next]_vars

\* n1 and n2 name two processes, two requests, two offers, two reports and two
\* administrators: to exchange them is a symmetry of every component.
Symmetry == Permutations({n1, n2})

\* One report only is appealed, or passes its deadline.
OneAppeal == expired \cup appealing \cup {r \in Report : reports[r].appealed} \subseteq {n3}

\* No further than where every process has missed an update.
SomeoneFollows == part = "settings" => excused # Process
=============================================================================
