----------------------------- MODULE CheckConsent -----------------------------
(***************************************************************************)
(* From a review on a screen to an execution.  A browser asks for a review *)
(* and later approves it by its identifier; a command shows the review in  *)
(* a terminal and reads a line.  Either way a client opens a session with  *)
(* the controller, which prepares a ticket, sends the review as a          *)
(* challenge, waits for one decision frame and runs the check.  Requests   *)
(* overlap, are submitted twice, are given up at any point; reviews expire *)
(* between any two steps; the route may change in between.                 *)
(*                                                                         *)
(* The three checks share this protocol and differ in their validators;    *)
(* `kind' is the check a behaviour is about.  A selection stands for all   *)
(* that a plan pins (scope, interface, source, target, budget).  The run   *)
(* control is summarised: RunControl models its steps.  The constants      *)
(* Max... bound the model, not the code.                                   *)
(***************************************************************************)
EXTENDS Integers, FiniteSets

CONSTANTS MaxHandled,       \* HTTP requests and commands
          MaxRequests,      \* per kind: how many of them are made
          MaxSessions,      \* per kind: how many of them open a session
          Lifetime, RunInterval, MaxTime, MaxMoves,
          Nothing

Kinds == {"gateway", "resolver", "https"}

Requests == 1..MaxHandled
PlanRecords == [selection : Nat, created : Int, expires : Int, fresh : Int]
Slots == [id : Requests, plan : PlanRecords]
Consents == [selection : Nat, review : Requests \cup {Nothing}]

(* Answers that say that nothing was approved. *)
Refusals == {"review_pending", "unavailable", "review_expired", "declined",
             "review_changed", "no_approval"}

ASSUME ConsentAssumption ==
    /\ MaxHandled \in Nat /\ MaxRequests \in [Kinds -> 1..MaxHandled] /\ MaxSessions \in [Kinds -> Nat]
    /\ MaxTime \in Nat /\ MaxMoves \in Nat
    /\ Lifetime \in Nat \ {0} /\ RunInterval \in Nat
    /\ Nothing \notin Requests /\ Nothing \notin PlanRecords /\ Nothing \notin Slots
    /\ Nothing \notin Consents /\ Nothing \notin [holder : Requests, review : PlanRecords]
    /\ Nothing \notin Refusals /\ Nothing \notin {"approve", "decline", "error", "result", "unverified"}

VARIABLES kind,        \* "gateway", "resolver" or "https"
          time,
          current,     \* the selection a preflight finds now: a number of its own
                       \* after every change of the network
          slot,        \* the web process's one pending review
          seen,        \* reviews delivered to a browser
          req,         \* per request: how far its handler or command is
          conn,        \* per request: its connection to the controller
          session,     \* per request: the controller's side of it
          reply,       \* per request: the controller's last response
          pending,     \* the run control's one ticket
          running,     \* the request whose run is reserved
          notBefore,
          executed     \* executions so far

web == <<slot, seen>>
control == <<pending, running, notBefore, executed>>
wire == <<conn, session, reply>>
around == <<kind, time, current>>
consentVars == <<around, web, req, wire, control>>

Unstarted == [pc |-> "idle", plan |-> Nothing, review |-> Nothing,
              consent |-> Nothing, answer |-> Nothing]

ConsentInit ==
    /\ kind \in Kinds
    /\ time = 0 /\ current = 0
    /\ slot = Nothing /\ seen = {}
    /\ req = [q \in Requests |-> Unstarted]
    /\ conn = [q \in Requests |-> [asked |-> FALSE, open |-> FALSE, frame |-> Nothing]]
    /\ session = [q \in Requests |-> [pc |-> "none", review |-> Nothing]]
    /\ reply = [q \in Requests |-> Nothing]
    /\ pending = Nothing /\ running = Nothing /\ notBefore = 0 /\ executed = {}

Earlier(a, b) == IF a < b THEN a ELSE b

(* A plan of now.  The gateway's route is seen after its plan is made, the *)
(* route of the others before.  The last one the bound on time allows can  *)
(* still expire.                                                           *)
Plans ==
    IF time + Lifetime > MaxTime THEN {} ELSE
    {[selection |-> current, created |-> time, expires |-> time + Lifetime,
      fresh |-> time - age + Lifetime] :
        age \in IF kind = "gateway" THEN {0} ELSE 0..Earlier(1, time)}

(* Requests are interchangeable: they start in the order of their numbers. *)
Started(q) == q <= MaxRequests[kind] /\ \A p \in 1..(q - 1) : req[p].pc # "idle"

Answer(q, what) ==
    req' = [req EXCEPT ![q] = [Unstarted EXCEPT !.pc = "done", !.consent = req[q].consent,
                                                !.answer = what]]

-------------------------------------------------------------------------------
(* Validators *)

ProjectWebGatewayReview(p) == p.created <= time /\ time < p.expires /\ time < p.fresh
ProjectWebResolverReview(p) == p.created <= time /\ time < p.expires
ProjectWebHTTPSReview(p) == p.created <= time /\ time < p.expires /\ time < p.fresh

ProjectReview(p) ==
    CASE kind = "gateway" -> ProjectWebGatewayReview(p)
      [] kind = "resolver" -> ProjectWebResolverReview(p)
      [] kind = "https" -> ProjectWebHTTPSReview(p)

(* Until when the web process holds a review. *)
WebHTTPSPlanCurrent(p) == time < p.expires /\ time < p.fresh
PlanCurrent(p) == IF kind = "https" THEN WebHTTPSPlanCurrent(p) ELSE time < p.expires

(* Mutant: the selection is not compared. *)
MatchesAnySelection(r, p) ==
    /\ r.created >= p.created /\ r.created < p.expires
    /\ r.expires = r.created + Lifetime

(* The controller prepares a review of its own; the browser approved       *)
(* another one.  Only the times may differ.                                *)
GatewayReviewMatchesPlan(r, p) ==
    /\ r.selection = p.selection
    /\ r.created >= p.created /\ r.created < p.expires
    /\ r.expires = r.created + Lifetime

ResolverReviewMatchesPlan(r, p) ==
    /\ r.selection = p.selection
    /\ r.created >= p.created /\ r.created < p.expires
    /\ r.expires > r.created /\ r.expires <= r.created + Lifetime

HTTPSReviewMatchesPlan(r, p) ==
    /\ r.selection = p.selection
    /\ r.created >= p.created /\ r.created < p.expires /\ r.created <= time
    /\ time < p.fresh /\ time < r.expires /\ time < r.fresh
    /\ r.expires > r.created /\ r.expires = Earlier(r.created + Lifetime, r.fresh)
    /\ r.fresh >= p.fresh /\ r.fresh - Lifetime <= r.created

ReviewMatchesPlan(r, p) ==
    CASE kind = "gateway" -> GatewayReviewMatchesPlan(r, p)
      [] kind = "resolver" -> ResolverReviewMatchesPlan(r, p)
      [] kind = "https" -> HTTPSReviewMatchesPlan(r, p)

(* What the session checks before it sends a review and the client when it *)
(* receives one.                                                           *)
ValidateGatewayReview(r) ==
    r.created <= time /\ time < r.expires /\ r.expires > r.created
ValidateResolverReview(r) ==
    r.created <= time /\ time < r.expires /\ r.expires - r.created <= Lifetime
ValidateHTTPSReview(r) ==
    /\ r.created <= time /\ time < r.expires /\ time < r.fresh
    /\ r.expires = Earlier(r.created + Lifetime, r.fresh)

ValidateReview(r) ==
    CASE kind = "gateway" -> ValidateGatewayReview(r)
      [] kind = "resolver" -> ValidateResolverReview(r)
      [] kind = "https" -> ValidateHTTPSReview(r)

(* How a run ends: outcome, the error beside it and the evidence.          *)
Run(outcome, err, sample) == [outcome |-> outcome, err |-> err, sample |-> sample]

EarlyRuns ==
    {Run("canceled", "canceled", "none"), Run("blocked", "preflight", "none"),
     Run("blocked", "review", "none")}

LateRuns ==
    {Run("completed", "nil", "complete"), Run("indeterminate", "execution", "none")}
       \cup {Run("failed", "execution", sample) : sample \in {"none", "partial"}}
       \cup {Run("canceled", "canceled", sample) : sample \in {"none", "partial", "complete"}}

(* The code on the wire for an error of the run control. *)
GatewayErrorCode(err) ==
    CASE err \in {"cooldown", "busy", "canceled"} -> err
      [] err = "review" -> "review_expired"
      [] err = "preflight" -> "precondition_failed"
      [] err = "audit" -> "audit_unconfirmed"
      [] err = "clock" -> "clock_invalid"
      [] err = "execution" -> "execution_failed"
      [] OTHER -> "unavailable"

ResolverErrorCode(err) == GatewayErrorCode(err)
HTTPSErrorCode(err) == GatewayErrorCode(err)

ErrorCode(err) ==
    CASE kind = "gateway" -> GatewayErrorCode(err)
      [] kind = "resolver" -> ResolverErrorCode(err)
      [] kind = "https" -> HTTPSErrorCode(err)

Result(r) ==
    [outcome |-> r.outcome, sample |-> r.sample,
     code |-> IF r.err = "nil" THEN "none" ELSE ErrorCode(r.err)]

ProjectGatewayResult(r) == Result(r)
ProjectResolverResult(r) == Result(r)
ProjectHTTPSResult(r) == Result(r)

ProjectResult(r) ==
    CASE kind = "gateway" -> ProjectGatewayResult(r)
      [] kind = "resolver" -> ProjectResolverResult(r)
      [] kind = "https" -> ProjectHTTPSResult(r)

ValidateGatewayResult(r) ==
    CASE r.outcome = "completed" -> r.code = "none" /\ r.sample = "complete"
      [] r.outcome = "canceled" -> r.code = "canceled"
      [] r.outcome = "failed" -> r.code = "execution_failed" /\ r.sample # "complete"
      [] r.outcome = "indeterminate" -> r.code = "execution_failed" /\ r.sample = "none"
      [] r.outcome = "blocked" ->
            r.code \in {"precondition_failed", "review_expired"} /\ r.sample = "none"

(* The other two rebuild the terminal event of the run and validate that.  *)
ValidateEvent(outcome, reason, sample) ==
    CASE outcome = "completed" -> reason = "" /\ sample = "complete"
      [] outcome = "canceled" -> reason = "canceled"
      [] outcome = "failed" ->
            reason = "execution-error" \/ (reason = "measurement-invalid" /\ sample = "none")
      [] outcome = "indeterminate" -> reason = "execution-panic" /\ sample = "none"
      [] outcome = "blocked" ->
            reason \in {"preflight-unavailable", "selection-changed", "review-expired"} /\ sample = "none"

RebuiltReason(r) ==
    CASE r.outcome = "completed" /\ r.code = "none" -> ""
      [] r.outcome = "failed" /\ r.code = "execution_failed" -> "execution-error"
      [] r.outcome = "canceled" /\ r.code = "canceled" -> "canceled"
      [] r.outcome = "indeterminate" /\ r.code = "execution_failed" -> "execution-panic"
      [] r.outcome = "blocked" /\ r.code = "precondition_failed" -> "preflight-unavailable"
      [] r.outcome = "blocked" /\ r.code = "review_expired" -> "review-expired"
      [] OTHER -> "invalid"

ValidateResolverResult(r) == ValidateEvent(r.outcome, RebuiltReason(r), r.sample)
ValidateHTTPSResult(r) == ValidateEvent(r.outcome, RebuiltReason(r), r.sample)

ValidateResult(r) ==
    CASE kind = "gateway" -> ValidateGatewayResult(r)
      [] kind = "resolver" -> ValidateResolverResult(r)
      [] kind = "https" -> ValidateHTTPSResult(r)

(* What the web handlers check once more before they show a result.        *)
ProjectWebGatewayResult(r) == ValidateGatewayResult(r)
WebShowsResult(r) ==
    CASE r.outcome = "completed" -> r.code = "none" /\ r.sample # "none"
      [] r.outcome = "failed" -> r.code = "execution_failed"
      [] r.outcome = "canceled" -> r.code = "canceled"
      [] r.outcome = "indeterminate" -> r.code = "execution_failed" /\ r.sample = "none"
      [] r.outcome = "blocked" -> r.code \in {"precondition_failed", "review_expired"}

ShowsResult(q, r) ==
    IF req[q].plan = Nothing THEN TRUE
    ELSE IF kind = "gateway" THEN ProjectWebGatewayResult(r) ELSE WebShowsResult(r)

-------------------------------------------------------------------------------
(* The browser's review: checked before the plan is loaded and after.      *)

SlotLive == slot # Nothing /\ PlanCurrent(slot.plan)

ReviewStarts(q) ==
    /\ req[q].pc = "idle" /\ Started(q)
    /\ IF SlotLive
       THEN Answer(q, "review_pending")
       ELSE \/ \E p \in Plans : req' = [req EXCEPT ![q].pc = "store", ![q].plan = p]
            \/ Answer(q, "unavailable")
    /\ UNCHANGED <<around, web, wire, control>>

(* Mutant: the slot is not looked at again after loading. *)
StoresWithoutLooking(q) ==
    /\ req[q].pc = "store"
    /\ IF ~ProjectReview(req[q].plan)
       THEN Answer(q, "unavailable") /\ UNCHANGED web
       ELSE /\ slot' = [id |-> q, plan |-> req[q].plan]
            /\ seen' = seen \cup {q}
            /\ Answer(q, "shown")
    /\ UNCHANGED <<around, wire, control>>

ReviewStores(q) ==
    /\ req[q].pc = "store"
    /\ IF ~ProjectReview(req[q].plan) \/ SlotLive
       THEN /\ Answer(q, IF ProjectReview(req[q].plan) THEN "review_pending" ELSE "unavailable")
            /\ UNCHANGED web
       ELSE /\ slot' = [id |-> q, plan |-> req[q].plan]
            /\ seen' = seen \cup {q}
            /\ Answer(q, "shown")
    /\ UNCHANGED <<around, wire, control>>

HandleReview(q) == ReviewStarts(q) \/ ReviewStores(q)

HandleGatewayReview(q) == kind = "gateway" /\ HandleReview(q)
HandleResolverReview(q) == kind = "resolver" /\ HandleReview(q)
HandleHTTPSReview(q) == kind = "https" /\ HandleReview(q)

Dial(q, plan) ==
    /\ Cardinality({p \in Requests : conn[p].asked}) < MaxSessions[kind]
    /\ req' = [req EXCEPT ![q].pc = "offered", ![q].plan = plan]
    /\ conn' = [conn EXCEPT ![q].asked = TRUE, ![q].open = TRUE]

(* The browser's decision.  It names a review it was shown, perhaps one    *)
(* that was decided before; the review is consumed before anything else.   *)
HandleRun(q) ==
    /\ req[q].pc = "idle" /\ Started(q)
    /\ \E id \in seen, approve \in BOOLEAN :
          IF slot = Nothing \/ slot.id # id \/ ~SlotLive
          THEN Answer(q, "review_expired") /\ UNCHANGED <<slot, conn>>
          ELSE /\ slot' = Nothing
               /\ IF approve THEN Dial(q, slot)
                             ELSE Answer(q, "declined") /\ UNCHANGED conn
    /\ UNCHANGED <<around, seen, session, reply, control>>

HandleGatewayRun(q) == kind = "gateway" /\ HandleRun(q)
HandleResolverRun(q) == kind = "resolver" /\ HandleRun(q)
HandleHTTPSRun(q) == kind = "https" /\ HandleRun(q)

(* A command needs no earlier review: it shows the session's own. *)
Command(q) ==
    /\ req[q].pc = "idle" /\ Started(q)
    /\ Dial(q, Nothing)
    /\ UNCHANGED <<around, web, session, reply, control>>

RunGatewayCheckCommand(q) == kind = "gateway" /\ Command(q)
RunResolverCheckCommand(q) == kind = "resolver" /\ Command(q)
RunHTTPSCheckCommand(q) == kind = "https" /\ Command(q)

-------------------------------------------------------------------------------
(* The client *)

(* Mutant: every failed exchange is reported as one without approval. *)
NeverApproved(approved) == "no_approval"

(* What a command or a page says of an exchange that failed. *)
GatewayCommandError(approved) == IF approved THEN "outcome_unknown" ELSE "no_approval"
ResolverCommandError(approved) == IF approved THEN "outcome_unknown" ELSE "no_approval"
HTTPSCommandError(approved) == IF approved THEN "outcome_unknown" ELSE "no_approval"
WebRunError(approved) == IF approved THEN "outcome_unknown" ELSE "no_approval"

Interrupted(q) ==
    LET approved == req[q].consent # Nothing IN
    CASE req[q].plan # Nothing -> WebRunError(approved)
      [] kind = "gateway" -> GatewayCommandError(approved)
      [] kind = "resolver" -> ResolverCommandError(approved)
      [] kind = "https" -> HTTPSCommandError(approved)

HangsUp(q) == conn' = [conn EXCEPT ![q].open = FALSE]

Approves(q, selection, id) ==
    req' = [req EXCEPT ![q].pc = "approve",
                       ![q].consent = [selection |-> selection, review |-> id]]

(* The confirm callback of the web handlers: the review must be the one    *)
(* the browser approved.                                                   *)
WebConfirms(q) ==
    LET r == req[q].review  shown == req[q].plan.plan IN
    IF ~PlanCurrent(shown) \/ ~ReviewMatchesPlan(r, shown)
    THEN Answer(q, "review_changed") /\ HangsUp(q)
    ELSE Approves(q, shown.selection, req[q].plan.id) /\ UNCHANGED conn

(* A line typed in time decides, and anything but the exact line declines. *)
TerminalDecides(q) ==
    IF time >= req[q].review.expires
    THEN Answer(q, Interrupted(q)) /\ HangsUp(q)
    ELSE /\ \/ Approves(q, req[q].review.selection, Nothing)
            \/ req' = [req EXCEPT ![q].pc = "decline"]
         /\ UNCHANGED conn

PerformGatewayCheck(q) == kind = "gateway" /\ TerminalDecides(q)
PerformResolverCheck(q) == kind = "resolver" /\ TerminalDecides(q)
PerformHTTPSCheck(q) == kind = "https" /\ TerminalDecides(q)

TerminalConfirms(q) ==
    PerformGatewayCheck(q) \/ PerformResolverCheck(q) \/ PerformHTTPSCheck(q)

ClientConfirms(q) ==
    /\ req[q].pc = "offered" /\ req[q].review # Nothing
    /\ IF ~ValidateReview(req[q].review)
       THEN Answer(q, Interrupted(q)) /\ HangsUp(q)
       ELSE IF req[q].plan = Nothing THEN TerminalConfirms(q) ELSE WebConfirms(q)
    /\ UNCHANGED <<around, web, session, reply, control>>

ClientSends(q) ==
    /\ req[q].pc \in {"approve", "decline"}
    /\ IF time >= req[q].review.expires \/ session[q].pc = "done"
       THEN Answer(q, Interrupted(q)) /\ HangsUp(q)
       ELSE /\ conn' = [conn EXCEPT ![q].frame = req[q].pc]
            /\ req' = [req EXCEPT ![q].pc = "sent"]
    /\ UNCHANGED <<around, web, session, reply, control>>

(* Error responses, a closed connection, or a result it validates again.   *)
ClientReads(q) ==
    /\ req[q].pc \in {"offered", "sent"} /\ reply[q] # Nothing
    /\ Answer(q, CASE reply[q] = "error" -> Interrupted(q)
                   [] OTHER -> reply[q])
    /\ HangsUp(q) /\ reply' = [reply EXCEPT ![q] = Nothing]
    /\ UNCHANGED <<around, web, session, control>>

(* The browser goes away, the command is interrupted, a deadline passes.   *)
ClientGivesUp(q) ==
    /\ req[q].pc \in {"offered", "approve", "decline", "sent"}
    /\ Answer(q, Interrupted(q)) /\ HangsUp(q)
    /\ UNCHANGED <<around, web, session, reply, control>>

ReadGatewayResponse(q) == kind = "gateway" /\ ClientReads(q)
ReadResolverResponse(q) == kind = "resolver" /\ ClientReads(q)
ReadHTTPSResponse(q) == kind = "https" /\ ClientReads(q)

CheckGateway(q) == kind = "gateway" /\ (ClientConfirms(q) \/ ClientSends(q))
CheckResolver(q) == kind = "resolver" /\ (ClientConfirms(q) \/ ClientSends(q))
CheckHTTPS(q) == kind = "https" /\ (ClientConfirms(q) \/ ClientSends(q))

-------------------------------------------------------------------------------
(* The controller's side of the session *)

TicketLive == pending # Nothing /\ time < pending.review.expires

Discarded(q) == IF pending # Nothing /\ pending.holder = q THEN Nothing ELSE pending

Free == running = Nothing /\ time >= notBefore /\ ~TicketLive

Over == [pc |-> "done", review |-> Nothing]

Review(p) == [p EXCEPT !.expires = Earlier(p.expires, p.fresh)]

(* Control.Prepare, summarised, and the review on the wire; an error is    *)
(* the session's only response.                                            *)
Prepare(q) ==
    /\ session[q].pc = "none" /\ conn[q].asked
    /\ \/ /\ session' = [session EXCEPT ![q] = Over]
          /\ reply' = [reply EXCEPT ![q] = "error"]
          /\ pending' = IF Free THEN Nothing ELSE pending
          /\ UNCHANGED req
       \/ /\ Free
          /\ \E p \in Plans :
                /\ pending' = [holder |-> q, review |-> Review(p)]
                /\ session' = [session EXCEPT ![q] = [pc |-> "wait", review |-> Review(p)]]
                /\ req' = IF conn[q].open THEN [req EXCEPT ![q].review = Review(p)] ELSE req
          /\ UNCHANGED reply
    /\ UNCHANGED <<around, web, conn, running, notBefore, executed>>

(* Every return after Prepare discards the ticket. *)
Ends(q, r) ==
    /\ session' = [session EXCEPT ![q] = Over]
    /\ reply' = [reply EXCEPT ![q] = r]
    /\ pending' = Discarded(q)

(* Mutant: the connection has no deadline while it waits. *)
WaitsForEver(q) == conn[q].frame = Nothing /\ ~conn[q].open

(* No decision will come: the client is gone, or the review's expiry,      *)
(* which is the deadline of the connection, has passed.                    *)
NoDecision(q) == conn[q].frame = Nothing /\ (~conn[q].open \/ time >= session[q].review.expires)

ReadsNothing(q) ==
    /\ session[q].pc = "wait" /\ NoDecision(q)
    /\ Ends(q, "error")
    /\ UNCHANGED <<around, web, req, conn, running, notBefore, executed>>

(* The decision, and Control.Run up to its reservation. *)
ReadsDecision(q) ==
    /\ session[q].pc = "wait" /\ conn[q].frame # Nothing
    /\ IF time >= session[q].review.expires
       THEN Ends(q, "error") /\ UNCHANGED <<running, notBefore>>
       ELSE IF conn[q].frame = "decline"
       THEN Ends(q, "declined") /\ UNCHANGED <<running, notBefore>>
       ELSE IF pending = Nothing \/ pending.holder # q \/ running # Nothing \/ time < notBefore
       THEN Ends(q, "error") /\ UNCHANGED <<running, notBefore>>
       ELSE /\ pending' = Nothing /\ running' = q /\ notBefore' = time + RunInterval
            /\ session' = [session EXCEPT ![q].pc = "run"]
            /\ UNCHANGED reply
    /\ UNCHANGED <<around, web, req, conn, executed>>

(* Control.Run hands over to the executor: the selection was found again   *)
(* and the review is live.                                                 *)
Executes(q) ==
    /\ session[q].pc = "run"
    /\ current = session[q].review.selection /\ time < session[q].review.expires
    /\ executed' = executed \cup {[by |-> q, selection |-> current]}
    /\ session' = [session EXCEPT ![q].pc = "executed"]
    /\ UNCHANGED <<around, web, req, conn, reply, pending, running, notBefore>>

(* The monitor sees the end of the stream and cancels the run.             *)
MonitorCancels(q) ==
    /\ session[q].pc = "run" /\ ~conn[q].open
    /\ session' = [session EXCEPT ![q].pc = "canceled"]
    /\ UNCHANGED <<around, web, req, conn, reply, control>>

Returned(q) ==
    CASE session[q].pc = "run" -> EarlyRuns
      [] session[q].pc = "canceled" -> {Run("canceled", "canceled", "none")}
      [] session[q].pc = "executed" -> LateRuns

(* Run returns: with a result, or without one when an audit failed.        *)
RunReturns(q) ==
    /\ session[q].pc \in {"run", "canceled", "executed"}
    /\ \/ \E run \in Returned(q) :
             LET r == ProjectResult(run) IN
             Ends(q, IF ValidateResult(r) /\ ShowsResult(q, r) THEN "result" ELSE "unverified")
       \/ Ends(q, "error")
    /\ running' = Nothing
    /\ UNCHANGED <<around, web, req, conn, notBefore, executed>>

Session(q) ==
    \/ Prepare(q) \/ ReadsNothing(q) \/ ReadsDecision(q)
    \/ MonitorCancels(q) \/ RunReturns(q)

GatewayCheck(q) == kind = "gateway" /\ (Session(q) \/ Executes(q))
ResolverCheck(q) == kind = "resolver" /\ (Session(q) \/ Executes(q))
HTTPSCheck(q) == kind = "https" /\ (Session(q) \/ Executes(q))

-------------------------------------------------------------------------------
(* External: the network finds another route. *)
RouteMoves ==
    /\ current < MaxMoves /\ current' = current + 1
    /\ UNCHANGED <<kind, time, web, req, wire, control>>

TimePasses ==
    /\ time < MaxTime /\ time' = time + 1
    /\ UNCHANGED <<kind, current, web, req, wire, control>>

ConsentNext ==
    \/ \E q \in Requests :
          \/ HandleGatewayReview(q) \/ HandleResolverReview(q) \/ HandleHTTPSReview(q)
          \/ HandleGatewayRun(q) \/ HandleResolverRun(q) \/ HandleHTTPSRun(q)
          \/ RunGatewayCheckCommand(q) \/ RunResolverCheckCommand(q) \/ RunHTTPSCheckCommand(q)
          \/ CheckGateway(q) \/ CheckResolver(q) \/ CheckHTTPS(q)
          \/ ReadGatewayResponse(q) \/ ReadResolverResponse(q) \/ ReadHTTPSResponse(q)
          \/ ClientGivesUp(q)
          \/ GatewayCheck(q) \/ ResolverCheck(q) \/ HTTPSCheck(q)
    \/ RouteMoves \/ TimePasses

ConsentSpec == ConsentInit /\ [][ConsentNext]_consentVars

-------------------------------------------------------------------------------
(* A check is executed only as it was shown: by the one request that        *)
(* approved it, once, with the selection that the browser or the terminal   *)
(* had displayed, and a browser's review is spent by its first decision     *)
(* however often it is submitted (handleGatewayRun and its twins,           *)
(* gatewayCheck and its twins).                                             *)
ExecutedAsShown ==
    /\ \A e \in executed :
          req[e.by].consent # Nothing /\ req[e.by].consent.selection = e.selection
    /\ \A e, f \in executed :
          e # f => /\ e.by # f.by
                   /\ req[e.by].consent.review # Nothing =>
                         req[e.by].consent.review # req[f.by].consent.review

(* What a user is told is what happened.  An answer that says that nothing  *)
(* was approved or authorized is true, and stays true: no execution ever    *)
(* belongs to that request, whatever its session still does after the       *)
(* client has gone (the texts of handleGatewayRun, gatewayCommandError and  *)
(* "no check was authorized").  And what a run durably reported reaches the *)
(* user: the result passes the session's own validator, the client's and    *)
(* the web handler's, for every way a run can end.                          *)
TruthfulRefusal ==
    /\ \A e \in executed : req[e.by].answer \notin Refusals
    /\ \A q \in Requests : reply[q] # "unverified" /\ req[q].answer # "unverified"

(* A review that a browser was shown stands until it is decided or expires: *)
(* no other review takes its place, although the slot is not locked while a *)
(* plan is loaded.                                                          *)
ReviewStands ==
    [][SlotLive /\ slot' # slot => slot' = Nothing]_consentVars

(* The run control's one ticket is always in the hands of a session that is *)
(* still reading its connection: no way out of a session leaves the ticket  *)
(* behind, where it would refuse every other review as busy.  And it always *)
(* comes back: a client that says nothing cannot keep the review, because   *)
(* the deadline of its connection is the review's expiry.                   *)
TicketIsReturned ==
    /\ [](pending # Nothing => session[pending.holder].pc = "wait")
    /\ pending # Nothing ~> pending = Nothing
===============================================================================
