----------------------------- MODULE OneSession -----------------------------
(***************************************************************************)
(* What the account service promises about the sessions of one account,    *)
(* with no token, cookie or race in sight: at most one session is live; a   *)
(* session that has ended never lives again; and whoever is handed an       *)
(* access token is handed one for the live session.                         *)
(***************************************************************************)
CONSTANTS Session, NoSession

VARIABLES
    live,      \* the live session, or NoSession
    ended,     \* sessions that were live and are not any more
    granted    \* the session the latest access token was handed out for

vars == <<live, ended, granted>>

Past == (ended \cup {live}) \ {NoSession}

Init == live = NoSession /\ ended = {} /\ granted = NoSession

Begin(s) ==
    /\ s \notin Past
    /\ live' = s /\ ended' = Past /\ granted' = s

Renew ==
    /\ live # NoSession
    /\ granted' = live
    /\ UNCHANGED <<live, ended>>

End ==
    /\ live' = NoSession /\ ended' = Past
    /\ UNCHANGED granted

Next == (\E s \in Session : Begin(s)) \/ Renew \/ End

Spec == Init /\ [][Next]_vars
=============================================================================
