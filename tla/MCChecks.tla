------------------------------- MODULE MCChecks -------------------------------
(***************************************************************************)
(* The instance that model-checks the preflight of the checks and their    *)
(* consent protocol.  A behaviour exercises one of the two: `focus' says   *)
(* which, and the other keeps still.                                       *)
(***************************************************************************)
EXTENDS CheckPreflight, CheckConsent, TLC

CONSTANTS lan, r1, r2

VARIABLE focus

(* r1 is on the enrolled network, r2 somewhere else. *)
MCEndpointIn == r1 :> lan @@ r2 :> Absent

(* Three requests of which one opens a session: reviews that race and one  *)
(* that is submitted twice.  Two requests with a session each: tickets and *)
(* runs that race.                                                         *)
MCMaxRequests == [k \in Kinds |-> IF k = "gateway" THEN 3 ELSE 2]
MCMaxSessions == [k \in Kinds |-> IF k = "gateway" THEN 1 ELSE 2]

MCInit ==
    /\ focus \in {"preflight", "consent"}
    /\ PreflightInit /\ ConsentInit
    /\ focus = "preflight" => kind = "gateway"
    /\ focus = "consent" => subject = "gateway" /\ route = [via |-> "link", source |-> <<lan, 1>>]

MCNext ==
    \/ focus = "preflight" /\ PreflightNext /\ UNCHANGED <<focus, consentVars>>
    \/ focus = "consent" /\ ConsentNext /\ UNCHANGED <<focus, preflightVars>>

checksVars == <<focus, preflightVars, consentVars>>

(* The controller's goroutines are scheduled and time passes; nothing is   *)
(* assumed of a client.                                                    *)
MCFairness ==
    /\ \A q \in Requests : WF_checksVars(focus = "consent" /\ Session(q) /\ UNCHANGED <<focus, preflightVars>>)
    /\ WF_checksVars(focus = "consent" /\ TimePasses /\ UNCHANGED <<focus, preflightVars>>)

MCSpec == MCInit /\ [][MCNext]_checksVars /\ MCFairness
===============================================================================
