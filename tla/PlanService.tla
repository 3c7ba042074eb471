---------------------------- MODULE PlanService ----------------------------
(***************************************************************************)
(* What Planner promises to its callers, with no thread, lock or condition *)
(* variable in sight: requests are numbered in the order they are made,    *)
(* a plan is always begun for the newest request, one plan is in progress  *)
(* at a time, and a begun plan ends in a delivery or is given up.  The     *)
(* detailed module Planner implements it.                                  *)
(***************************************************************************)
EXTENDS Naturals

VARIABLES
    latest,     \* the newest request made
    begun,      \* the newest request a plan was begun for
    busy,       \* a plan is in progress
    delivered   \* the newest request whose trajectory reached the callback

serviceVars == <<latest, begun, busy, delivered>>

\* Planner::requestPlan: the new request replaces whatever was waiting.
Submit ==
    /\ latest' = latest + 1
    /\ UNCHANGED <<begun, busy, delivered>>

\* The planning thread takes the newest request; older ones are forgotten.
Begin ==
    /\ ~busy
    /\ begun < latest
    /\ begun' = latest
    /\ busy' = TRUE
    /\ UNCHANGED <<latest, delivered>>

\* The trajectory of the plan in progress is handed to the callback.
Finish ==
    /\ busy
    /\ delivered' = begun
    /\ busy' = FALSE
    /\ UNCHANGED <<latest, begun>>

\* IK or OMPL fails: the plan ends and nobody is told.
GiveUp ==
    /\ busy
    /\ busy' = FALSE
    /\ UNCHANGED <<latest, begun, delivered>>

ServiceInit == latest = 0 /\ begun = 0 /\ busy = FALSE /\ delivered = 0

ServiceNext == Submit \/ Begin \/ Finish \/ GiveUp

ServiceSpec == ServiceInit /\ [][ServiceNext]_serviceVars
=============================================================================
