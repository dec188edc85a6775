------------------------- MODULE CheckConsent_proofs -------------------------
(*****************************************************************************)
(* Proofs about what a check needs before it sends anything: the consent of  *)
(* the person who asks (CheckConsent) and what the controller finds of the   *)
(* selection, the tables and the route (CheckPreflight). They share no       *)
(* state. CheckConsent, for any number of requests, selections and of each   *)
(* kind of check: browsers and terminals that overlap, give up, lose their   *)
(* connection or are answered after they left.                               *)
(* ConsentInv says how far a request and its session are from each other,    *)
(* who holds the one ticket, which request a browser's review was spent on,  *)
(* and who consented to what was executed; PreflightInv what a preflight in  *)
(* progress knows of tables and routes that go on changing.                  *)
(*****************************************************************************)
EXTENDS CheckConsent, CheckPreflight, FiniteSetTheorems, TLAPS

-------------------------------------------------------------------------------
(* Consent *)

Stages == {"idle", "store", "offered", "approve", "decline", "sent", "done"}

Answers == Refusals \cup {"shown", "outcome_unknown", "result"}

RequestStates == [pc : Stages, plan : PlanRecords \cup Slots \cup {Nothing}, review : PlanRecords \cup {Nothing},
                  consent : Consents \cup {Nothing}, answer : Answers \cup {Nothing}]
Connections == [asked : BOOLEAN, open : BOOLEAN, frame : {"approve", "decline", Nothing}]
Sessions == [pc : {"none", "wait", "run", "canceled", "executed", "done"}, review : PlanRecords \cup {Nothing}]
Tickets == [holder : Requests, review : PlanRecords]
Executions == [by : Requests, selection : Nat]

ConsentType ==
    /\ kind \in Kinds /\ time \in Nat /\ current \in Nat /\ notBefore \in Nat
    /\ slot \in Slots \cup {Nothing} /\ seen \subseteq Requests
    /\ req \in [Requests -> RequestStates] /\ conn \in [Requests -> Connections]
    /\ session \in [Requests -> Sessions] /\ reply \in [Requests -> {"error", "declined", "result", Nothing}]
    /\ pending \in Tickets \cup {Nothing} /\ executed \subseteq Executions

(* How far a request is, and what it has approved. *)
ClientInv ==
    \A q \in Requests :
       /\ req[q].pc \in {"idle", "store", "offered", "decline"} => req[q].consent = Nothing
       /\ req[q].pc = "approve" => req[q].consent # Nothing
       /\ req[q].pc = "store" => req[q].plan \in PlanRecords
       /\ req[q].pc \in {"offered", "approve", "decline", "sent"} => req[q].plan \in Slots \cup {Nothing}
       /\ req[q].pc \in {"approve", "decline", "sent"} => req[q].review # Nothing
       /\ conn[q].frame # Nothing => req[q].pc \in {"sent", "done"}
       /\ conn[q].frame = "approve" => req[q].consent # Nothing
       /\ conn[q].frame = "decline" => req[q].consent = Nothing
       /\ req[q].answer # Nothing => req[q].pc = "done"
       /\ req[q].answer \in Refusals => req[q].consent = Nothing
       /\ reply[q] = "declined" => conn[q].frame = "decline"

(* A session serves the selection that was approved over it. *)
SessionInv ==
    \A q \in Requests :
       /\ session[q].pc = "none" => req[q].review = Nothing /\ req[q].consent = Nothing
       /\ session[q].pc \in {"wait", "run", "canceled", "executed"} => session[q].review # Nothing
       /\ session[q].pc = "wait" /\ req[q].review # Nothing => req[q].review = session[q].review
       /\ session[q].pc \in {"wait", "run"} /\ req[q].consent # Nothing =>
             req[q].consent.selection = session[q].review.selection
       /\ session[q].pc \in {"run", "canceled", "executed"} => conn[q].frame = "approve"
       /\ session[q].pc \in {"none", "wait", "run", "canceled"} => \A e \in executed : e.by # q

(* The ticket. *)
TicketInv == pending # Nothing => session[pending.holder].pc = "wait"

(* A browser's review is held by the slot or spent on one request. *)
Spends(q, i) ==
    \/ /\ req[q].pc \in {"offered", "approve", "decline", "sent"}
       /\ req[q].plan # Nothing /\ req[q].plan.id = i
    \/ req[q].consent # Nothing /\ req[q].consent.review = i

SpentInv ==
    /\ \A p, q, i \in Requests : Spends(p, i) /\ Spends(q, i) => p = q
    /\ slot # Nothing => \A q \in Requests : ~Spends(q, slot.id)
    /\ \A i \in Requests : req[i].pc \in {"idle", "store"} =>
          /\ \A q \in Requests : ~Spends(q, i)
          /\ slot # Nothing => slot.id # i

ExecutedInv ==
    /\ \A e \in executed : req[e.by].consent # Nothing /\ req[e.by].consent.selection = e.selection
    /\ \A e, f \in executed : e.by = f.by => e = f

ConsentInv == ConsentType /\ ClientInv /\ SessionInv /\ TicketInv /\ SpentInv /\ ExecutedInv

LEMMA NothingIsNone ==
  /\ Nothing \notin Requests /\ Nothing \notin PlanRecords /\ Nothing \notin Slots /\ Nothing \notin Consents
  /\ Nothing \notin Tickets
  /\ Nothing # "approve" /\ Nothing # "decline" /\ Nothing # "error" /\ Nothing # "declined"
BY ConsentAssumption, Zenon DEF Tickets, Refusals

(* What Answer does to a request. *)
Answered(q, what) ==
    /\ req' \in [Requests -> RequestStates]
    /\ req'[q].pc = "done" /\ req'[q].answer = what /\ req'[q].consent = req[q].consent
    /\ req'[q].plan = Nothing /\ req'[q].review = Nothing
    /\ \A p \in Requests \ {q} : req'[p] = req[p]

LEMMA Answering ==
  ASSUME req \in [Requests -> RequestStates], NEW q \in Requests, NEW what \in Answers, Answer(q, what)
  PROVE  Answered(q, what)
<1> DEFINE new == [pc |-> "done", plan |-> Nothing, review |-> Nothing, consent |-> req[q].consent, answer |-> what]
<1>1. new = [Unstarted EXCEPT !.pc = "done", !.consent = req[q].consent, !.answer = what]
  <2>2. [Unstarted EXCEPT !.pc = "done"] = [pc |-> "done", plan |-> Nothing, review |-> Nothing, consent |-> Nothing, answer |-> Nothing]
    BY DEF Unstarted
  <2>3. [[pc |-> "done", plan |-> Nothing, review |-> Nothing, consent |-> Nothing, answer |-> Nothing]
           EXCEPT !.consent = req[q].consent]
        = [pc |-> "done", plan |-> Nothing, review |-> Nothing, consent |-> req[q].consent, answer |-> Nothing]
    OBVIOUS
  <2>4. [[pc |-> "done", plan |-> Nothing, review |-> Nothing, consent |-> req[q].consent, answer |-> Nothing]
           EXCEPT !.answer = what]
        = new
    OBVIOUS
  <2>5. QED  BY <2>2, <2>3, <2>4, Zenon
<1>2. req[q] \in RequestStates  BY Zenon
<1>3. new \in RequestStates  BY <1>2, Zenon DEF RequestStates, Stages
<1>4. req' = [req EXCEPT ![q] = new]  BY <1>1, Zenon DEF Answer
<1>5. /\ new.pc = "done" /\ new.answer = what /\ new.consent = req[q].consent
      /\ new.plan = Nothing /\ new.review = Nothing
  BY Zenon
<1> HIDE DEF new
<1>6. QED  BY <1>3, <1>4, <1>5, Zenon DEF Answered

(* A request is answered: whatever it had approved stays as it was.        *)
LEMMA FinishStep ==
  ASSUME ConsentInv, NEW q \in Requests, NEW what, Answered(q, what),
         what \in Refusals => req[q].consent = Nothing,
         conn' \in [Requests -> Connections], \A p \in Requests : conn'[p].frame = conn[p].frame,
         reply' \in [Requests -> {"error", "declined", "result", Nothing}],
         \A p \in Requests : reply'[p] \in {reply[p], Nothing},
         slot' \in {slot, Nothing}, UNCHANGED <<around, seen, session, control>>
  PROVE  ConsentInv'
<1> USE DEF ConsentInv, around, control
<1>0. Nothing # "declined"  BY NothingIsNone, Zenon
<1>1. ConsentType'  BY Zenon DEF ConsentType, Answered
<1>2. ClientInv'
  <2>1. ASSUME NEW p \in Requests \ {q}
        PROVE  req'[p] = req[p] /\ conn'[p].frame = conn[p].frame /\ (reply'[p] = "declined" => reply[p] = "declined")
    BY <1>0, Zenon DEF Answered
  <2>2. /\ conn'[q].frame = "approve" => req'[q].consent # Nothing
        /\ conn'[q].frame = "decline" => req'[q].consent = Nothing
        /\ req'[q].answer \in Refusals => req'[q].consent = Nothing
        /\ reply'[q] = "declined" => conn'[q].frame = "decline"
    BY <1>0 DEF Answered, ClientInv
  <2>3. QED  BY <2>1, <2>2 DEF ClientInv, Answered
<1>3. SessionInv'
  <2>1. \A p \in Requests : /\ req'[p].consent = req[p].consent /\ req'[p].review \in {req[p].review, Nothing}
                            /\ session'[p] = session[p] /\ conn'[p].frame = conn[p].frame
    BY Zenon DEF Answered
  <2>2. QED  BY <2>1 DEF SessionInv
<1>4. TicketInv'  BY Zenon DEF TicketInv
<1>5. SpentInv'
  <2>1. \A p, i \in Requests : Spends(p, i)' => Spends(p, i)  BY Zenon DEF Spends, Answered
  <2>2. \A i \in Requests : req'[i].pc \in {"idle", "store"} => req[i].pc \in {"idle", "store"}
    BY Zenon DEF Answered
  <2>3. slot' # Nothing => slot' = slot  BY Zenon
  <2>4. slot' # Nothing => slot'.id \in Requests  BY <2>3, Zenon DEF ConsentType, Slots
  <2>5. QED  BY <2>1, <2>2, <2>3, <2>4, Zenon DEF SpentInv
<1>6. ExecutedInv'
  <2>1. \A e \in executed : e.by \in Requests  BY Zenon DEF ConsentType, Executions
  <2>2. \A p \in Requests : req'[p].consent = req[p].consent  BY Zenon DEF Answered
  <2>3. QED  BY <2>1, <2>2, Zenon DEF ExecutedInv
<1>7. QED  BY <1>1, <1>2, <1>3, <1>4, <1>5, <1>6, Zenon

(* A session is over: it answers, and takes its ticket back.               *)
LEMMA OverStep ==
  ASSUME ConsentInv, NEW q \in Requests, NEW r \in {"error", "declined", "result"},
         session' = [session EXCEPT ![q] = Over], reply' = [reply EXCEPT ![q] = r],
         r = "declined" => conn[q].frame = "decline",
         pending' \in {Discarded(q), Nothing}, notBefore' \in Nat,
         UNCHANGED <<around, web, req, conn, executed>>
  PROVE  ConsentInv'
<1> USE DEF ConsentInv, around, web
<1>0. /\ session'[q].pc = "done" /\ session'[q].review = Nothing
      /\ \A p \in Requests \ {q} : session'[p] = session[p]
      /\ reply'[q] = r /\ \A p \in Requests \ {q} : reply'[p] = reply[p]
  BY Zenon DEF ConsentType, Over
<1>1. ConsentType'
  <2>1. Over \in Sessions  BY Zenon DEF Over, Sessions
  <2>2. session' \in [Requests -> Sessions]  BY <2>1, Zenon DEF ConsentType
  <2>3. reply' \in [Requests -> {"error", "declined", "result", Nothing}]  BY Zenon DEF ConsentType
  <2>4. pending' \in Tickets \cup {Nothing}  BY Zenon DEF ConsentType, Discarded
  <2>5. QED  BY <2>2, <2>3, <2>4, Zenon DEF ConsentType
<1>2. ClientInv'  BY <1>0 DEF ClientInv
<1>3. SessionInv'  BY <1>0 DEF SessionInv
<1>4. TicketInv'
  <2>1. pending' # Nothing => pending' = pending /\ pending.holder # q  BY Zenon DEF Discarded
  <2>2. pending' # Nothing => pending.holder \in Requests  BY <2>1, Zenon DEF ConsentType, Tickets
  <2>3. QED  BY <1>0, <2>1, <2>2 DEF TicketInv
<1>5. SpentInv'  BY DEF SpentInv, Spends
<1>6. ExecutedInv'  BY Zenon DEF ExecutedInv
<1>7. QED  BY <1>1, <1>2, <1>3, <1>4, <1>5, <1>6, Zenon

LEMMA PlansAreRecords ==
  ASSUME ConsentType, NEW p \in Plans
  PROVE  p \in PlanRecords /\ Review(p) \in PlanRecords /\ Review(p).selection = p.selection
<1>0. time \in Nat /\ current \in Nat /\ Lifetime \in Nat  BY ConsentAssumption, Zenon DEF ConsentType
<1>1. Plans # {}  BY Zenon
<1>2. Earlier(1, time) \in Nat  BY <1>0, Zenon DEF Earlier
<1>3. PICK age \in 0..Earlier(1, time) :
        p = [selection |-> current, created |-> time, expires |-> time + Lifetime, fresh |-> time - age + Lifetime]
  <2>1. (IF kind = "gateway" THEN {0} ELSE 0..Earlier(1, time)) \subseteq 0..Earlier(1, time)
    BY <1>2
  <2>2. ~(time + Lifetime > MaxTime)  BY <1>1, Zenon DEF Plans
  <2>3. QED  BY <2>1, <2>2, Zenon DEF Plans
<1>4. age \in Int  BY <1>2
<1>5. p \in PlanRecords  BY <1>0, <1>3, <1>4 DEF PlanRecords
<1>6. Earlier(p.expires, p.fresh) \in Int  BY <1>5, Zenon DEF PlanRecords, Earlier
<1>7. QED  BY <1>5, <1>6, Zenon DEF PlanRecords, Review

LEMMA Interruptions ==
  ASSUME ConsentType, NEW q \in Requests
  PROVE  /\ Interrupted(q) \in Answers
         /\ Interrupted(q) \in Refusals => req[q].consent = Nothing
<1>1. Interrupted(q) = IF req[q].consent # Nothing THEN "outcome_unknown" ELSE "no_approval"
  BY Zenon DEF ConsentType, Kinds, Interrupted, WebRunError, GatewayCommandError, ResolverCommandError, HTTPSCommandError
<1>2. QED  BY <1>1, Zenon DEF Answers, Refusals

(* Of the validators: every way in which a run ends passes the session's,  *)
(* the client's and the page's.                                            *)
LEMMA ResultsAreShown ==
  ASSUME ConsentType, NEW q \in Requests, NEW run \in EarlyRuns \cup LateRuns
  PROVE  ValidateResult(ProjectResult(run)) /\ ShowsResult(q, ProjectResult(run))
<1> DEFINE r == ProjectResult(run)
<1>1. r = Result(run)
  BY Zenon DEF ConsentType, Kinds, ProjectResult, ProjectGatewayResult, ProjectResolverResult, ProjectHTTPSResult
<1>2. \A err : ErrorCode(err) = GatewayErrorCode(err)
  BY Zenon DEF ConsentType, Kinds, ErrorCode, ResolverErrorCode, HTTPSErrorCode
<1>3. /\ r.outcome = run.outcome /\ r.sample = run.sample
      /\ r.code = IF run.err = "nil" THEN "none" ELSE GatewayErrorCode(run.err)
  BY <1>1, <1>2 DEF Result
<1>4. \/ run.outcome = "completed" /\ run.err = "nil" /\ run.sample = "complete"
      \/ run.outcome = "canceled" /\ run.err = "canceled"
      \/ run.outcome = "failed" /\ run.err = "execution" /\ run.sample \in {"none", "partial"}
      \/ run.outcome = "indeterminate" /\ run.err = "execution" /\ run.sample = "none"
      \/ run.outcome = "blocked" /\ run.err \in {"preflight", "review"} /\ run.sample = "none"
  <2>1. \A o, e, x : Run(o, e, x).outcome = o /\ Run(o, e, x).err = e /\ Run(o, e, x).sample = x  BY Zenon DEF Run
  <2>2. CASE run \in EarlyRuns  BY <2>1, <2>2 DEF EarlyRuns
  <2>3. CASE run \in LateRuns  BY <2>1, <2>3 DEF LateRuns
  <2>4. QED  BY <2>2, <2>3, Zenon
<1>5. /\ GatewayErrorCode("canceled") = "canceled" /\ GatewayErrorCode("execution") = "execution_failed"
      /\ GatewayErrorCode("preflight") = "precondition_failed" /\ GatewayErrorCode("review") = "review_expired"
  BY Zenon DEF GatewayErrorCode
<1>6. \/ r.outcome = "completed" /\ r.code = "none" /\ r.sample = "complete"
      \/ r.outcome = "canceled" /\ r.code = "canceled"
      \/ r.outcome = "failed" /\ r.code = "execution_failed" /\ r.sample \in {"none", "partial"}
      \/ r.outcome = "indeterminate" /\ r.code = "execution_failed" /\ r.sample = "none"
      \/ r.outcome = "blocked" /\ r.code \in {"precondition_failed", "review_expired"} /\ r.sample = "none"
  BY <1>3, <1>4, <1>5, Zenon
<1> HIDE DEF r
<1>7. ValidateGatewayResult(r)  BY <1>6, Zenon DEF ValidateGatewayResult
<1>8. ValidateEvent(r.outcome, RebuiltReason(r), r.sample)
  <2>1. CASE r.outcome = "completed"  BY <1>6, <2>1, Zenon DEF ValidateEvent, RebuiltReason
  <2>2. CASE r.outcome = "canceled"  BY <1>6, <2>2, Zenon DEF ValidateEvent, RebuiltReason
  <2>3. CASE r.outcome = "failed"  BY <1>6, <2>3, Zenon DEF ValidateEvent, RebuiltReason
  <2>4. CASE r.outcome = "indeterminate"  BY <1>6, <2>4, Zenon DEF ValidateEvent, RebuiltReason
  <2>5. CASE r.outcome = "blocked"  BY <1>6, <2>5, Zenon DEF ValidateEvent, RebuiltReason
  <2>6. QED  BY <1>6, <2>1, <2>2, <2>3, <2>4, <2>5, Zenon
<1>9. WebShowsResult(r)  BY <1>6, Zenon DEF WebShowsResult
<1>10. ValidateResult(r)
  BY <1>7, <1>8, Zenon DEF ConsentType, Kinds, ValidateResult, ValidateResolverResult, ValidateHTTPSResult
<1>11. ShowsResult(q, r)  BY <1>7, <1>9, Zenon DEF ShowsResult, ProjectWebGatewayResult
<1>12. QED  BY <1>10, <1>11, Zenon DEF r

(* The steps of a client that answer it. *)
LEMMA HangingUp ==
  ASSUME ConsentType, NEW q \in Requests, HangsUp(q) \/ UNCHANGED conn
  PROVE  conn' \in [Requests -> Connections] /\ \A p \in Requests : conn'[p].frame = conn[p].frame
<1>1. [conn[q] EXCEPT !.open = FALSE] \in Connections /\ [conn[q] EXCEPT !.open = FALSE].frame = conn[q].frame
  BY Zenon DEF ConsentType, Connections
<1>2. CASE HangsUp(q)
  <2>1. conn' = [conn EXCEPT ![q] = [conn[q] EXCEPT !.open = FALSE]]  BY <1>2, Zenon DEF HangsUp
  <2>2. QED  BY <1>1, <2>1, Zenon DEF ConsentType
<1>3. CASE UNCHANGED conn  BY <1>3, Zenon DEF ConsentType
<1>4. QED  BY <1>2, <1>3, Zenon

LEMMA Refusing ==
  ASSUME ConsentInv, NEW q \in Requests, NEW what \in Answers, Answer(q, what),
         what \in Refusals => req[q].consent = Nothing,
         HangsUp(q) \/ UNCHANGED conn, reply' = [reply EXCEPT ![q] = Nothing] \/ UNCHANGED reply,
         slot' \in {slot, Nothing}, UNCHANGED <<around, seen, session, control>>
  PROVE  ConsentInv'
<1>1. Answered(q, what)  BY Answering, Zenon DEF ConsentInv, ConsentType
<1>2. conn' \in [Requests -> Connections] /\ \A p \in Requests : conn'[p].frame = conn[p].frame
  BY HangingUp, Zenon DEF ConsentInv
<1>3. /\ reply' \in [Requests -> {"error", "declined", "result", Nothing}]
      /\ \A p \in Requests : reply'[p] \in {reply[p], Nothing}
  BY Zenon DEF ConsentInv, ConsentType
<1>4. QED  BY <1>1, <1>2, <1>3, FinishStep, Zenon

LEMMA ReviewStartsStep ==
  ASSUME ConsentInv, NEW q \in Requests, ReviewStarts(q)
  PROVE  ConsentInv'
<1>0. req[q].pc = "idle" /\ UNCHANGED <<around, web, wire, control>> /\ req[q].consent = Nothing
  BY Zenon DEF ReviewStarts, ConsentInv, ClientInv
<1>1. ASSUME NEW what \in {"review_pending", "unavailable"}, Answer(q, what)
      PROVE  ConsentInv'
  BY <1>0, <1>1, Refusing, Zenon DEF Answers, Refusals, web, wire
<1>2. ASSUME NEW p \in Plans, req' = [req EXCEPT ![q].pc = "store", ![q].plan = p]
      PROVE  ConsentInv'
  <2> USE <1>0 DEF ConsentInv, around, web, wire, control
  <2>1. p \in PlanRecords  BY PlansAreRecords, Zenon
  <2> DEFINE new == [req[q] EXCEPT !.pc = "store", !.plan = p]
  <2>2. /\ new \in RequestStates /\ new.pc = "store" /\ new.plan = p /\ new.consent = Nothing
        /\ new.review = req[q].review /\ new.answer = req[q].answer
    BY <2>1 DEF ConsentType, RequestStates, Stages
  <2>3. req' = [req EXCEPT ![q] = new]  BY <1>2, Zenon
  <2> HIDE DEF new
  <2>4. /\ req' \in [Requests -> RequestStates] /\ req'[q] = new
        /\ \A u \in Requests \ {q} : req'[u] = req[u]
    BY <2>2, <2>3, Zenon DEF ConsentType
  <2>5. ConsentType'  BY <2>4, Zenon DEF ConsentType
  <2>6. ClientInv'  BY <2>1, <2>2, <2>4 DEF ClientInv
  <2>7. SessionInv'  BY <2>2, <2>4 DEF SessionInv
  <2>8. TicketInv'  BY Zenon DEF TicketInv
  <2>9. SpentInv'
    <3>1. \A u, i \in Requests : Spends(u, i)' => Spends(u, i)  BY <2>2, <2>4 DEF Spends
    <3>2. \A u \in Requests : req'[u].pc \in {"idle", "store"} => req[u].pc \in {"idle", "store"}
      BY <2>4, Zenon
    <3>3. slot # Nothing => slot.id \in Requests  BY Zenon DEF ConsentType, Slots
    <3>4. QED  BY <3>1, <3>2, <3>3, Zenon DEF SpentInv
  <2>10. ExecutedInv'
    <3>1. \A e \in executed : e.by \in Requests  BY Zenon DEF ConsentType, Executions
    <3>2. \A u \in Requests : req'[u].consent = req[u].consent  BY <2>2, <2>4, Zenon
    <3>3. QED  BY <3>1, <3>2, Zenon DEF ExecutedInv
  <2>11. QED  BY <2>5, <2>6, <2>7, <2>8, <2>9, <2>10, Zenon
<1>3. QED  BY <1>1, <1>2, Zenon DEF ReviewStarts

LEMMA ReviewStoresStep ==
  ASSUME ConsentInv, NEW q \in Requests, ReviewStores(q)
  PROVE  ConsentInv'
<1>0. /\ req[q].pc = "store" /\ UNCHANGED <<around, wire, control>> /\ req[q].consent = Nothing
      /\ req[q].plan \in PlanRecords
  BY Zenon DEF ReviewStores, ConsentInv, ClientInv
<1>1. ASSUME NEW what \in {"review_pending", "unavailable"}, Answer(q, what), UNCHANGED web
      PROVE  ConsentInv'
  BY <1>0, <1>1, Refusing, Zenon DEF Answers, Refusals, web, wire
<1>2. CASE slot' = [id |-> q, plan |-> req[q].plan] /\ seen' = seen \cup {q} /\ Answer(q, "shown")
  <2> USE <1>0 DEF ConsentInv, around, wire, control
  <2>1. Answered(q, "shown")  BY <1>2, Answering, Zenon DEF ConsentType, Answers
  <2>2. slot' \in Slots /\ slot'.id = q /\ slot' # Nothing  BY <1>2, NothingIsNone DEF Slots
  <2>3. ConsentType'  BY <1>2, <2>1, <2>2, Zenon DEF ConsentType, Answered
  <2>4. "shown" \notin Refusals  BY Zenon DEF Refusals
  <2>5. ClientInv'  BY <2>1, <2>4 DEF ClientInv, Answered
  <2>6. SessionInv'
    <3>1. \A p \in Requests : req'[p].consent = req[p].consent /\ req'[p].review \in {req[p].review, Nothing}
      BY <2>1, Zenon DEF Answered
    <3>2. QED  BY <3>1 DEF SessionInv
  <2>7. TicketInv'  BY Zenon DEF TicketInv
  <2>8. SpentInv'
    <3>1. \A p, i \in Requests : Spends(p, i)' => Spends(p, i)  BY <2>1, Zenon DEF Spends, Answered
    <3>2. \A i \in Requests : req'[i].pc \in {"idle", "store"} => i # q /\ req[i].pc \in {"idle", "store"}
      BY <2>1, Zenon DEF Answered
    <3>3. \A p \in Requests : ~Spends(p, q)  BY Zenon DEF SpentInv
    <3>4. QED  BY <2>2, <3>1, <3>2, <3>3, Zenon DEF SpentInv
  <2>9. ExecutedInv'
    <3>1. \A e \in executed : e.by \in Requests  BY Zenon DEF ConsentType, Executions
    <3>2. \A u \in Requests : req'[u].consent = req[u].consent  BY <2>1, Zenon DEF Answered
    <3>3. QED  BY <3>1, <3>2, Zenon DEF ExecutedInv
  <2>10. QED  BY <2>3, <2>5, <2>6, <2>7, <2>8, <2>9, Zenon
<1>3. QED  BY <1>1, <1>2, Zenon DEF ReviewStores

(* A session is opened with a review that no one else can spend.           *)
LEMMA DialStep ==
  ASSUME ConsentInv, NEW q \in Requests, req[q].pc = "idle", NEW plan \in Slots \cup {Nothing},
         Dial(q, plan), slot' \in {slot, Nothing}, plan # Nothing => plan = slot /\ slot' = Nothing,
         UNCHANGED <<around, seen, session, reply, control>>
  PROVE  ConsentInv'
<1> USE DEF ConsentInv, around, control
<1> DEFINE new == [req[q] EXCEPT !.pc = "offered", !.plan = plan]
           link == [conn[q] EXCEPT !.asked = TRUE, !.open = TRUE]
<1>1. /\ new \in RequestStates /\ new.pc = "offered" /\ new.plan = plan /\ new.consent = req[q].consent
      /\ new.review = req[q].review /\ new.answer = req[q].answer
  BY DEF ConsentType, RequestStates, Stages
<1>2. link \in Connections /\ link.frame = conn[q].frame  BY DEF ConsentType, Connections
<1>3. req' = [req EXCEPT ![q] = new] /\ conn' = [conn EXCEPT ![q] = link]  BY Zenon DEF Dial
<1> HIDE DEF new, link
<1>4. /\ req' \in [Requests -> RequestStates] /\ req'[q] = new
      /\ \A u \in Requests \ {q} : req'[u] = req[u]
  BY <1>1, <1>3, Zenon DEF ConsentType
<1>5. conn' \in [Requests -> Connections] /\ \A u \in Requests : conn'[u].frame = conn[u].frame
  BY <1>2, <1>3, Zenon DEF ConsentType
<1>6. req[q].consent = Nothing /\ conn[q].frame = Nothing /\ req[q].answer = Nothing
  BY Zenon DEF ClientInv
<1>7. ConsentType'  BY <1>4, <1>5, Zenon DEF ConsentType
<1>8. ClientInv'
  <2>1. Nothing # "approve" /\ Nothing # "decline"  BY NothingIsNone, Zenon
  <2>2. reply[q] # "declined"  BY <1>6, <2>1, Zenon DEF ClientInv
  <2>3. new.plan \in Slots \cup {Nothing} /\ new.consent = Nothing /\ new.answer = Nothing
    BY <1>1, <1>6, Zenon
  <2>4. ASSUME NEW u \in Requests
        PROVE  /\ req'[u].pc \in {"idle", "store", "offered", "decline"} => req'[u].consent = Nothing
               /\ req'[u].pc = "approve" => req'[u].consent # Nothing
               /\ req'[u].pc = "store" => req'[u].plan \in PlanRecords
               /\ req'[u].pc \in {"offered", "approve", "decline", "sent"} => req'[u].plan \in Slots \cup {Nothing}
               /\ req'[u].pc \in {"approve", "decline", "sent"} => req'[u].review # Nothing
               /\ req'[u].answer # Nothing => req'[u].pc = "done"
               /\ req'[u].answer \in Refusals => req'[u].consent = Nothing
    <3>1. CASE u = q  BY <1>1, <1>4, <2>3, <3>1, Zenon
    <3>2. CASE u # q  BY <1>4, <3>2 DEF ClientInv
    <3>3. QED  BY <3>1, <3>2, Zenon
  <2>5. ASSUME NEW u \in Requests
        PROVE  /\ conn'[u].frame # Nothing => req'[u].pc \in {"sent", "done"}
               /\ conn'[u].frame = "approve" => req'[u].consent # Nothing
               /\ conn'[u].frame = "decline" => req'[u].consent = Nothing
               /\ reply'[u] = "declined" => conn'[u].frame = "decline"
    <3>1. CASE u = q  BY <1>5, <1>6, <2>1, <2>2, <3>1, Zenon
    <3>2. CASE u # q  BY <1>4, <1>5, <3>2 DEF ClientInv
    <3>3. QED  BY <3>1, <3>2, Zenon
  <2>6. QED  BY <2>4, <2>5 DEF ClientInv
<1>9. SessionInv'
  <2>1. \A p \in Requests : req'[p].consent = req[p].consent /\ req'[p].review = req[p].review
    BY <1>1, <1>4, Zenon
  <2>2. QED  BY <1>5, <2>1 DEF SessionInv
<1>10. TicketInv'  BY Zenon DEF TicketInv
<1>11. SpentInv'
  <2>1. \A p \in Requests \ {q}, i \in Requests : Spends(p, i)' => Spends(p, i)  BY <1>4, Zenon DEF Spends
  <2>2. \A i \in Requests : Spends(q, i)' => slot # Nothing /\ slot.id = i /\ slot' = Nothing
    BY <1>1, <1>4, <1>6, Zenon DEF Spends
  <2>3. \A i \in Requests : req'[i].pc \in {"idle", "store"} => req[i].pc \in {"idle", "store"}
    BY <1>1, <1>4, Zenon
  <2>4. slot # Nothing => slot.id \in Requests  BY Zenon DEF ConsentType, Slots
  <2>5. ASSUME NEW p \in Requests, NEW u \in Requests, NEW i \in Requests, Spends(p, i)', Spends(u, i)'
        PROVE  p = u
    <3>1. CASE p # q /\ u # q  BY <2>1, <2>5, <3>1, Zenon DEF SpentInv
    <3>2. CASE p = q /\ u # q
      <4>1. Spends(u, i) /\ slot # Nothing /\ slot.id = i  BY <2>1, <2>2, <2>5, <3>2, Zenon
      <4>2. QED  BY <4>1, Zenon DEF SpentInv
    <3>3. CASE u = q /\ p # q
      <4>1. Spends(p, i) /\ slot # Nothing /\ slot.id = i  BY <2>1, <2>2, <2>5, <3>3, Zenon
      <4>2. QED  BY <4>1, Zenon DEF SpentInv
    <3>4. QED  BY <3>1, <3>2, <3>3, Zenon
  <2>6. slot' # Nothing => slot' = slot  BY Zenon
  <2>7. (slot # Nothing => \A p \in Requests : ~Spends(p, slot.id))'
    <3>1. ASSUME slot' # Nothing, NEW p \in Requests
          PROVE  ~Spends(p, slot.id)'
      <4>1. PICK i \in Requests : i = slot.id /\ i = slot'.id  BY <2>4, <2>6, <3>1, Zenon
      <4>2. ~Spends(p, i)  BY <2>6, <3>1, <4>1, Zenon DEF SpentInv
      <4>3. ~Spends(p, i)'  BY <2>1, <2>2, <3>1, <4>2, Zenon
      <4>4. QED  BY <4>1, <4>3, Zenon
    <3>2. QED  BY <3>1, Zenon
  <2>8. ASSUME NEW i \in Requests, req'[i].pc \in {"idle", "store"}
        PROVE  /\ \A p \in Requests : ~Spends(p, i)'
               /\ slot' # Nothing => slot'.id # i
    <3>1. (\A p \in Requests : ~Spends(p, i)) /\ (slot # Nothing => slot.id # i)
      BY <2>3, <2>8, Zenon DEF SpentInv
    <3>2. \A p \in Requests \ {q} : ~Spends(p, i)'  BY <2>1, <3>1, Zenon
    <3>3. ~Spends(q, i)'  BY <2>2, <3>1, Zenon
    <3>4. QED  BY <2>6, <3>1, <3>2, <3>3, Zenon
  <2>9. QED  BY <2>5, <2>7, <2>8, Zenon DEF SpentInv
<1>12. ExecutedInv'
  <2>1. \A e \in executed : e.by \in Requests  BY Zenon DEF ConsentType, Executions
  <2>2. \A u \in Requests : req'[u].consent = req[u].consent  BY <1>1, <1>4, Zenon
  <2>3. QED  BY <2>1, <2>2, Zenon DEF ExecutedInv
<1>13. QED  BY <1>7, <1>8, <1>9, <1>10, <1>11, <1>12, Zenon

LEMMA OpensStep ==
  ASSUME ConsentInv, NEW q \in Requests, HandleRun(q) \/ Command(q)
  PROVE  ConsentInv'
<1>1. CASE Command(q)
  BY <1>1, DialStep, Zenon DEF Command, web
<1>2. CASE HandleRun(q)
  <2>0. /\ req[q].pc = "idle" /\ UNCHANGED <<around, seen, session, reply, control>>
        /\ req[q].consent = Nothing /\ slot \in Slots \cup {Nothing}
    BY <1>2, Zenon DEF HandleRun, ConsentInv, ClientInv, ConsentType
  <2>1. CASE Answer(q, "review_expired") /\ UNCHANGED <<slot, conn>>
    BY <2>0, <2>1, Refusing, Zenon DEF Answers, Refusals
  <2>2. CASE slot' = Nothing /\ Answer(q, "declined") /\ UNCHANGED conn
    BY <2>0, <2>2, Refusing, Zenon DEF Answers, Refusals
  <2>3. CASE slot' = Nothing /\ Dial(q, slot)
    BY <2>0, <2>3, DialStep, Zenon
  <2>4. QED  BY <1>2, <2>1, <2>2, <2>3, Zenon DEF HandleRun
<1>3. QED  BY <1>1, <1>2, Zenon

(* The client decides: what it approves is what its session has prepared.  *)
LEMMA DecidesStep ==
  ASSUME ConsentInv, NEW q \in Requests, req[q].pc = "offered", req[q].review # Nothing,
         NEW pc \in {"approve", "decline"}, NEW consent,
         pc = "decline" => consent = Nothing,
         pc = "approve" => /\ consent \in Consents /\ consent.selection = req[q].review.selection
                           /\ consent.review # Nothing =>
                                 req[q].plan # Nothing /\ req[q].plan.id = consent.review,
         req' = [req EXCEPT ![q] = [req[q] EXCEPT !.pc = pc, !.consent = consent]],
         UNCHANGED <<around, web, wire, control>>
  PROVE  ConsentInv'
<1> USE DEF ConsentInv, around, control, web, wire
<1> DEFINE new == [req[q] EXCEPT !.pc = pc, !.consent = consent]
<1>1. /\ new \in RequestStates /\ new.pc = pc /\ new.plan = req[q].plan /\ new.consent = consent
      /\ new.review = req[q].review /\ new.answer = req[q].answer
  BY DEF ConsentType, RequestStates, Stages
<1>2. req' = [req EXCEPT ![q] = new]  BY Zenon
<1> HIDE DEF new
<1>3. /\ req' \in [Requests -> RequestStates] /\ req'[q] = new
      /\ \A u \in Requests \ {q} : req'[u] = req[u]
  BY <1>1, <1>2 DEF ConsentType
<1>4. /\ req[q].consent = Nothing /\ conn[q].frame = Nothing /\ req[q].answer = Nothing
      /\ req[q].plan \in Slots \cup {Nothing}
  BY Zenon DEF ClientInv
<1>5. pc = "approve" => consent # Nothing  BY NothingIsNone, Zenon
<1>6. ConsentType'  BY <1>3, Zenon DEF ConsentType
<1>7. ClientInv'
  <2>1. Nothing # "approve" /\ Nothing # "decline"  BY NothingIsNone, Zenon
  <2>2. reply[q] # "declined"  BY <1>4, <2>1, Zenon DEF ClientInv
  <2>3. Nothing \notin Refusals
    BY ConsentAssumption, Zenon
  <2>4. QED  BY <1>1, <1>3, <1>4, <1>5, <2>1, <2>2, <2>3 DEF ClientInv
<1>8. SessionInv'
  <2>1. session[q].pc \notin {"none", "run", "canceled", "executed"}
    BY <1>4, NothingIsNone, Zenon DEF SessionInv
  <2>2. session[q].pc = "wait" => req[q].review = session[q].review  BY Zenon DEF SessionInv
  <2>3. QED  BY <1>1, <1>3, <2>1, <2>2 DEF SessionInv
<1>9. TicketInv'  BY Zenon DEF TicketInv
<1>10. SpentInv'
  <2>1. \A u, i \in Requests : Spends(u, i)' => Spends(u, i)
    BY <1>1, <1>3, <1>4, NothingIsNone DEF Spends
  <2>2. \A i \in Requests : req'[i].pc \in {"idle", "store"} => req[i].pc \in {"idle", "store"}
    BY <1>1, <1>3, Zenon
  <2>3. slot # Nothing => slot.id \in Requests  BY Zenon DEF ConsentType, Slots
  <2>4. QED  BY <2>1, <2>2, <2>3, Zenon DEF SpentInv
<1>11. ExecutedInv'
  <2>1. \A e \in executed : e.by \in Requests /\ e.by # q  BY <1>4, Zenon DEF ExecutedInv, ConsentType, Executions
  <2>2. QED  BY <1>3, <2>1, Zenon DEF ExecutedInv
<1>12. QED  BY <1>6, <1>7, <1>8, <1>9, <1>10, <1>11, Zenon

LEMMA ConfirmsStep ==
  ASSUME ConsentInv, NEW q \in Requests, ClientConfirms(q)
  PROVE  ConsentInv'
<1>0. /\ req[q].pc = "offered" /\ req[q].review # Nothing /\ UNCHANGED <<around, web, session, reply, control>>
      /\ req[q].consent = Nothing /\ req[q].plan \in Slots \cup {Nothing} /\ req[q].review \in PlanRecords
      /\ req[q] \in RequestStates
  BY Zenon DEF ClientConfirms, ConsentInv, ClientInv, ConsentType, RequestStates
<1>1. CASE Answer(q, Interrupted(q)) /\ HangsUp(q)
  <2>1. Interrupted(q) \in Answers  BY Interruptions, Zenon DEF ConsentInv
  <2>2. QED  BY <1>0, <1>1, <2>1, Refusing, Zenon DEF web
<1>2. CASE Answer(q, "review_changed") /\ HangsUp(q)
  BY <1>0, <1>2, Refusing, Zenon DEF Answers, Refusals, web
<1>3. ASSUME NEW sel, NEW id, Approves(q, sel, id), UNCHANGED conn,
             sel = req[q].review.selection,
             id \in Requests \cup {Nothing},
             id # Nothing => req[q].plan # Nothing /\ req[q].plan.id = id
      PROVE  ConsentInv'
  <2> DEFINE c == [selection |-> sel, review |-> id]
  <2>1. c \in Consents /\ c.selection = sel /\ c.review = id  BY <1>0, <1>3, Zenon DEF Consents, PlanRecords
  <2>2. req' = [req EXCEPT ![q] = [req[q] EXCEPT !.pc = "approve", !.consent = c]]
    BY <1>3, Zenon DEF Approves
  <2> HIDE DEF c
  <2>3. QED  BY <1>0, <1>3, <2>1, <2>2, DecidesStep, Zenon DEF wire
<1>4. CASE req' = [req EXCEPT ![q].pc = "decline"] /\ UNCHANGED conn
  <2>1. [req[q] EXCEPT !.pc = "decline"] = [req[q] EXCEPT !.pc = "decline", !.consent = Nothing]
    BY <1>0, Zenon DEF RequestStates
  <2>2. req' = [req EXCEPT ![q] = [req[q] EXCEPT !.pc = "decline", !.consent = Nothing]]
    BY <1>4, <2>1, Zenon
  <2>3. QED  BY <1>0, <1>4, <2>2, DecidesStep, Zenon DEF wire
<1>5. CASE req[q].plan = Nothing /\ TerminalConfirms(q)
  <2>1. TerminalDecides(q)
    BY <1>5, Zenon DEF TerminalConfirms, PerformGatewayCheck, PerformResolverCheck, PerformHTTPSCheck
  <2>2. CASE Approves(q, req[q].review.selection, Nothing) /\ UNCHANGED conn
    BY <1>3, <2>2, Zenon
  <2>3. QED  BY <1>1, <1>4, <2>1, <2>2, Zenon DEF TerminalDecides
<1>6. CASE req[q].plan # Nothing /\ WebConfirms(q)
  <2>1. CASE /\ ReviewMatchesPlan(req[q].review, req[q].plan.plan)
             /\ Approves(q, req[q].plan.plan.selection, req[q].plan.id) /\ UNCHANGED conn
    <3>1. req[q].plan \in Slots /\ req[q].plan.id \in Requests  BY <1>0, <1>6, Zenon DEF Slots
    <3>2. req[q].plan.plan.selection = req[q].review.selection
      BY <2>1, Zenon DEF ReviewMatchesPlan, GatewayReviewMatchesPlan, ResolverReviewMatchesPlan,
         HTTPSReviewMatchesPlan, ConsentInv, ConsentType, Kinds
    <3>3. QED  BY <1>3, <1>6, <2>1, <3>1, <3>2, Zenon
  <2>2. QED  BY <1>2, <1>6, <2>1, Zenon DEF WebConfirms
<1>7. QED  BY <1>1, <1>5, <1>6, Zenon DEF ClientConfirms

LEMMA SendsStep ==
  ASSUME ConsentInv, NEW q \in Requests, ClientSends(q)
  PROVE  ConsentInv'
<1>0. req[q].pc \in {"approve", "decline"} /\ UNCHANGED <<around, web, session, reply, control>>
  BY Zenon DEF ClientSends
<1>1. CASE Answer(q, Interrupted(q)) /\ HangsUp(q)
  <2>1. Interrupted(q) \in Answers /\ (Interrupted(q) \in Refusals => req[q].consent = Nothing)
    BY Interruptions, Zenon DEF ConsentInv
  <2>2. QED  BY <1>0, <1>1, <2>1, Refusing, Zenon DEF web
<1>2. CASE conn' = [conn EXCEPT ![q].frame = req[q].pc] /\ req' = [req EXCEPT ![q].pc = "sent"]
  <2> USE DEF ConsentInv, around, web, control
  <2> DEFINE new == [req[q] EXCEPT !.pc = "sent"]
             link == [conn[q] EXCEPT !.frame = req[q].pc]
  <2>1. /\ new \in RequestStates /\ new.pc = "sent" /\ new.plan = req[q].plan /\ new.consent = req[q].consent
        /\ new.review = req[q].review /\ new.answer = req[q].answer
    BY DEF ConsentType, RequestStates, Stages
  <2>2. link \in Connections /\ link.frame = req[q].pc  BY <1>0, Zenon DEF ConsentType, Connections
  <2>3. req' = [req EXCEPT ![q] = new] /\ conn' = [conn EXCEPT ![q] = link]  BY <1>2, Zenon
  <2> HIDE DEF new, link
  <2>4. /\ req' \in [Requests -> RequestStates] /\ req'[q] = new
        /\ \A u \in Requests \ {q} : req'[u] = req[u]
    BY <2>1, <2>3, Zenon DEF ConsentType
  <2>5. /\ conn' \in [Requests -> Connections] /\ conn'[q].frame = req[q].pc
        /\ \A u \in Requests \ {q} : conn'[u] = conn[u]
    BY <2>2, <2>3, Zenon DEF ConsentType
  <2>6. /\ conn[q].frame = Nothing /\ req[q].answer = Nothing /\ req[q].plan \in Slots \cup {Nothing}
        /\ req[q].review # Nothing
        /\ req[q].pc = "approve" => req[q].consent # Nothing
        /\ req[q].pc = "decline" => req[q].consent = Nothing
    BY <1>0, Zenon DEF ClientInv
  <2>7. ConsentType'  BY <1>0, <2>4, <2>5, Zenon DEF ConsentType
  <2>8. ClientInv'
    <3>1. Nothing # "decline" /\ Nothing # "approve"  BY NothingIsNone, Zenon
    <3>2. reply[q] # "declined"  BY <2>6, <3>1, Zenon DEF ClientInv
    <3>3. req[q].answer \in Refusals => req[q].consent = Nothing  BY Zenon DEF ClientInv
    <3>4. ASSUME NEW u \in Requests
          PROVE  /\ req'[u].pc \in {"idle", "store", "offered", "decline"} => req'[u].consent = Nothing
                 /\ req'[u].pc = "approve" => req'[u].consent # Nothing
                 /\ req'[u].pc = "store" => req'[u].plan \in PlanRecords
                 /\ req'[u].pc \in {"offered", "approve", "decline", "sent"} => req'[u].plan \in Slots \cup {Nothing}
                 /\ req'[u].pc \in {"approve", "decline", "sent"} => req'[u].review # Nothing
                 /\ req'[u].answer # Nothing => req'[u].pc = "done"
                 /\ req'[u].answer \in Refusals => req'[u].consent = Nothing
      <4>1. CASE u = q  BY <2>1, <2>4, <2>6, <3>3, <4>1, Zenon
      <4>2. CASE u # q  BY <2>4, <4>2 DEF ClientInv
      <4>3. QED  BY <4>1, <4>2, Zenon
    <3>5. ASSUME NEW u \in Requests
          PROVE  /\ conn'[u].frame # Nothing => req'[u].pc \in {"sent", "done"}
                 /\ conn'[u].frame = "approve" => req'[u].consent # Nothing
                 /\ conn'[u].frame = "decline" => req'[u].consent = Nothing
                 /\ reply'[u] = "declined" => conn'[u].frame = "decline"
      <4>1. CASE u = q  BY <1>0, <2>1, <2>4, <2>5, <2>6, <3>2, <4>1, Zenon
      <4>2. CASE u # q
        <5>1. req'[u] = req[u] /\ conn'[u] = conn[u] /\ reply'[u] = reply[u]  BY <1>0, <2>4, <2>5, <4>2, Zenon
        <5>2. QED  BY <5>1 DEF ClientInv
      <4>3. QED  BY <4>1, <4>2, Zenon
    <3>6. QED  BY <3>4, <3>5, Zenon DEF ClientInv
  <2>9. SessionInv'
    <3>1. session[q].pc \notin {"run", "canceled", "executed"}  BY <2>6, NothingIsNone, Zenon DEF SessionInv
    <3>2. \A u \in Requests : req'[u].consent = req[u].consent /\ req'[u].review = req[u].review
      BY <2>1, <2>4, Zenon
    <3>3. \A u \in Requests : session[u].pc \in {"run", "canceled", "executed"} => conn'[u].frame = "approve"
      BY <2>5, <3>1, Zenon DEF SessionInv
    <3>4. QED  BY <1>0, <3>2, <3>3 DEF SessionInv
  <2>10. TicketInv'  BY <1>0, Zenon DEF TicketInv
  <2>11. SpentInv'
    <3>1. \A u, i \in Requests : Spends(u, i)' => Spends(u, i)  BY <1>0, <2>1, <2>4 DEF Spends
    <3>2. \A i \in Requests : req'[i].pc \in {"idle", "store"} => req[i].pc \in {"idle", "store"}
      BY <2>1, <2>4, Zenon
    <3>3. slot # Nothing => slot.id \in Requests  BY Zenon DEF ConsentType, Slots
    <3>4. QED  BY <1>0, <3>1, <3>2, <3>3, Zenon DEF SpentInv
  <2>12. ExecutedInv'
    <3>1. \A e \in executed : e.by \in Requests  BY Zenon DEF ConsentType, Executions
    <3>2. \A u \in Requests : req'[u].consent = req[u].consent  BY <2>1, <2>4, Zenon
    <3>3. QED  BY <1>0, <3>1, <3>2, Zenon DEF ExecutedInv
  <2>13. QED  BY <2>7, <2>8, <2>9, <2>10, <2>11, <2>12, Zenon
<1>3. QED  BY <1>1, <1>2, Zenon DEF ClientSends

LEMMA ReadsStep ==
  ASSUME ConsentInv, NEW q \in Requests, ClientReads(q) \/ ClientGivesUp(q)
  PROVE  ConsentInv'
<1>0. Interrupted(q) \in Answers /\ (Interrupted(q) \in Refusals => req[q].consent = Nothing)
  BY Interruptions, Zenon DEF ConsentInv
<1>1. CASE ClientGivesUp(q)  BY <1>0, <1>1, Refusing, Zenon DEF ClientGivesUp, web
<1>2. CASE ClientReads(q)
  <2>1. PICK what : /\ what = (CASE reply[q] = "error" -> Interrupted(q) [] OTHER -> reply[q])
                    /\ Answer(q, what)
    BY <1>2, Zenon DEF ClientReads
  <2>2. reply[q] \in {"error", "declined", "result"}  BY <1>2, Zenon DEF ClientReads, ConsentInv, ConsentType
  <2>3. what \in Answers /\ (what \in Refusals => req[q].consent = Nothing)
    <3>1. CASE reply[q] = "error"  BY <1>0, <2>1, <3>1, Zenon
    <3>2. CASE reply[q] = "declined"
      <4>1. what = "declined"  BY <2>1, <3>2, Zenon
      <4>2. req[q].consent = Nothing  BY <3>2, Zenon DEF ConsentInv, ClientInv
      <4>3. QED  BY <4>1, <4>2, Zenon DEF Answers, Refusals
    <3>3. CASE reply[q] = "result"
      <4>1. what = "result"  BY <2>1, <3>3, Zenon
      <4>2. QED  BY <4>1, Zenon DEF Answers, Refusals
    <3>4. QED  BY <2>2, <3>1, <3>2, <3>3, Zenon
  <2>4. QED  BY <1>2, <2>1, <2>3, Refusing, Zenon DEF ClientReads, web
<1>3. QED  BY <1>1, <1>2

(* The controller prepares a review: the one this request will be shown.    *)
LEMMA PrepareStep ==
  ASSUME ConsentInv, NEW q \in Requests, Prepare(q)
  PROVE  ConsentInv'
<1> USE DEF ConsentInv, around, web
<1>0. /\ session[q].pc = "none" /\ UNCHANGED <<around, web, conn, running, notBefore, executed>>
      /\ req[q].review = Nothing /\ req[q].consent = Nothing /\ notBefore \in Nat
      /\ \A e \in executed : e.by # q
  BY Zenon DEF Prepare, SessionInv, ConsentType
<1>1. pending # Nothing => pending.holder \in Requests /\ pending.holder # q
  BY <1>0, Zenon DEF TicketInv, ConsentType, Tickets
<1>2. CASE /\ session' = [session EXCEPT ![q] = Over]
           /\ reply' = [reply EXCEPT ![q] = "error"]
           /\ pending' = IF Free THEN Nothing ELSE pending
           /\ UNCHANGED req
  <2>1. Discarded(q) = pending  BY <1>1, Zenon DEF Discarded
  <2>2. pending' \in {Discarded(q), Nothing}  BY <1>2, <2>1, Zenon
  <2>3. QED  BY <1>0, <1>2, <2>2, OverStep, Zenon
<1>3. ASSUME NEW p \in Plans,
             pending' = [holder |-> q, review |-> Review(p)],
             session' = [session EXCEPT ![q] = [pc |-> "wait", review |-> Review(p)]],
             req' = IF conn[q].open THEN [req EXCEPT ![q].review = Review(p)] ELSE req,
             UNCHANGED reply
      PROVE  ConsentInv'
  <2>1. PICK r \in PlanRecords : r = Review(p)  BY PlansAreRecords, Zenon
  <2>2. /\ pending' \in Tickets /\ pending'.holder = q  BY <1>3, <2>1, Zenon DEF Tickets
  <2>3. /\ session' \in [Requests -> Sessions] /\ session'[q].pc = "wait" /\ session'[q].review = r
        /\ \A u \in Requests \ {q} : session'[u] = session[u]
    <3>1. [pc |-> "wait", review |-> r] \in Sessions  BY Zenon DEF Sessions
    <3>2. QED  BY <1>3, <2>1, <3>1, Zenon DEF ConsentType
  <2>4. /\ req' \in [Requests -> RequestStates] /\ req'[q].review \in {r, Nothing}
        /\ \A u \in Requests : /\ req'[u].pc = req[u].pc /\ req'[u].plan = req[u].plan
                               /\ req'[u].consent = req[u].consent /\ req'[u].answer = req[u].answer
                               /\ req[u].review # Nothing => req'[u].review # Nothing
        /\ \A u \in Requests \ {q} : req'[u] = req[u]
    <3>1. CASE ~conn[q].open  BY <1>0, <1>3, <3>1, Zenon DEF ConsentType
    <3>2. CASE conn[q].open
      <4> DEFINE new == [req[q] EXCEPT !.review = r]
      <4>1. /\ new \in RequestStates /\ new.review = r /\ new.pc = req[q].pc /\ new.plan = req[q].plan
            /\ new.consent = req[q].consent /\ new.answer = req[q].answer
        BY DEF ConsentType, RequestStates
      <4>2. req' = [req EXCEPT ![q] = new]  BY <1>3, <2>1, <3>2, Zenon
      <4> HIDE DEF new
      <4>3. QED  BY <1>0, <4>1, <4>2, Zenon DEF ConsentType
    <3>3. QED  BY <3>1, <3>2, Zenon
  <2>5. r # Nothing  BY NothingIsNone, Zenon
  <2>6. ConsentType'  BY <1>0, <1>3, <2>2, <2>3, <2>4, Zenon DEF ConsentType
  <2>7. ClientInv'
    <3>1. UNCHANGED reply /\ \A u \in Requests : conn'[u].frame = conn[u].frame  BY <1>0, <1>3, Zenon
    <3>2. ASSUME NEW u \in Requests
          PROVE  /\ req'[u].pc = req[u].pc /\ req'[u].plan = req[u].plan
                 /\ req'[u].consent = req[u].consent /\ req'[u].answer = req[u].answer
                 /\ req[u].review # Nothing => req'[u].review # Nothing
                 /\ reply'[u] = reply[u] /\ conn'[u].frame = conn[u].frame
      BY <2>4, <3>1, Zenon
    <3>3. QED  BY <3>2 DEF ClientInv
  <2>8. SessionInv'
    <3>1. ASSUME NEW u \in Requests \ {q}
          PROVE  req'[u] = req[u] /\ session'[u] = session[u] /\ conn'[u] = conn[u]
      BY <1>0, <2>3, <2>4, Zenon
    <3>2. ASSUME NEW u \in Requests \ {q}
          PROVE  /\ session'[u].pc = "none" => req'[u].review = Nothing /\ req'[u].consent = Nothing
                 /\ session'[u].pc \in {"wait", "run", "canceled", "executed"} => session'[u].review # Nothing
                 /\ session'[u].pc = "wait" /\ req'[u].review # Nothing => req'[u].review = session'[u].review
                 /\ session'[u].pc \in {"wait", "run"} /\ req'[u].consent # Nothing =>
                       req'[u].consent.selection = session'[u].review.selection
                 /\ session'[u].pc \in {"run", "canceled", "executed"} => conn'[u].frame = "approve"
                 /\ session'[u].pc \in {"none", "wait", "run", "canceled"} => \A e \in executed' : e.by # u
      <4>1. UNCHANGED executed /\ u \in Requests  BY <1>0, Zenon
      <4>2. /\ session[u].pc = "none" => req[u].review = Nothing /\ req[u].consent = Nothing
            /\ session[u].pc \in {"wait", "run", "canceled", "executed"} => session[u].review # Nothing
            /\ session[u].pc = "wait" /\ req[u].review # Nothing => req[u].review = session[u].review
            /\ session[u].pc \in {"wait", "run"} /\ req[u].consent # Nothing =>
                  req[u].consent.selection = session[u].review.selection
            /\ session[u].pc \in {"run", "canceled", "executed"} => conn[u].frame = "approve"
            /\ session[u].pc \in {"none", "wait", "run", "canceled"} => \A e \in executed : e.by # u
        BY <4>1, Zenon DEF SessionInv
      <4>3. QED  BY <3>1, <4>1, <4>2
    <3>3. /\ session'[q].pc = "wait" /\ session'[q].review = r /\ r # Nothing
          /\ req'[q].review # Nothing => req'[q].review = r
          /\ req'[q].consent = Nothing /\ \A e \in executed' : e.by # q
      BY <1>0, <1>3, <2>3, <2>4, <2>5, Zenon DEF SessionInv
    <3>4. QED  BY <3>2, <3>3 DEF SessionInv
  <2>9. TicketInv'  BY <2>2, <2>3, Zenon DEF TicketInv
  <2>10. SpentInv'
    <3>1. \A u, i \in Requests : Spends(u, i)' => Spends(u, i)  BY <2>4 DEF Spends
    <3>2. \A i \in Requests : req'[i].pc \in {"idle", "store"} => req[i].pc \in {"idle", "store"}
      BY <2>4, Zenon
    <3>3. slot # Nothing => slot.id \in Requests  BY Zenon DEF ConsentType, Slots
    <3>4. QED  BY <1>0, <3>1, <3>2, <3>3, Zenon DEF SpentInv
  <2>11. ExecutedInv'
    <3>1. \A e \in executed : e.by \in Requests  BY Zenon DEF ConsentType, Executions
    <3>2. QED  BY <1>0, <2>4, <3>1 DEF ExecutedInv
  <2>12. QED  BY <2>6, <2>7, <2>8, <2>9, <2>10, <2>11, Zenon
<1>4. QED  BY <1>2, <1>3, Zenon DEF Prepare

(* A session that holds an approval moves on, and may execute it once.      *)
LEMMA RunsStep ==
  ASSUME ConsentInv, NEW q \in Requests, NEW pc \in {"run", "canceled", "executed"},
         session[q].pc \in {"wait", "run"}, conn[q].frame = "approve",
         session' = [session EXCEPT ![q].pc = pc],
         pending' \in {pending, Nothing}, session[q].pc = "wait" => pending' = Nothing, notBefore' \in Nat,
         \/ executed' = executed
         \/ /\ pc = "executed"
            /\ executed' = executed \cup {[by |-> q, selection |-> session[q].review.selection]},
         UNCHANGED <<around, web, req, conn, reply>>
  PROVE  ConsentInv'
<1> USE DEF ConsentInv, around, web
<1>1. /\ session' \in [Requests -> Sessions] /\ session'[q].pc = pc /\ session'[q].review = session[q].review
      /\ \A u \in Requests \ {q} : session'[u] = session[u]
  <2> DEFINE new == [session[q] EXCEPT !.pc = pc]
  <2>1. new \in Sessions /\ new.pc = pc /\ new.review = session[q].review  BY Zenon DEF ConsentType, Sessions
  <2>2. session' = [session EXCEPT ![q] = new]  BY Zenon
  <2> HIDE DEF new
  <2>3. QED  BY <2>1, <2>2 DEF ConsentType
<1>2. /\ req[q].consent # Nothing /\ req[q].consent.selection = session[q].review.selection
      /\ session[q].review # Nothing /\ \A e \in executed : e.by # q
  BY Zenon DEF ClientInv, SessionInv
<1>3. PICK s \in Nat : s = session[q].review.selection
  BY <1>2, Zenon DEF ConsentType, Sessions, PlanRecords
<1>4. PICK e \in Executions : e = [by |-> q, selection |-> s]  BY Zenon DEF Executions
<1>5. e.by = q /\ e.selection = s  BY <1>4, Zenon
<1>6. executed' = executed \/ (pc = "executed" /\ executed' = executed \cup {e})  BY <1>3, <1>4, Zenon
<1>7. ConsentType'  BY <1>1, <1>6, Zenon DEF ConsentType
<1>8. ClientInv'  BY DEF ClientInv
<1>9. SessionInv'
  <2>1. ASSUME NEW u \in Requests \ {q}
        PROVE  /\ session'[u] = session[u]
               /\ (\A f \in executed : f.by # u) => (\A f \in executed' : f.by # u)
    BY <1>1, <1>5, <1>6, Zenon
  <2>2. pc # "executed" => \A f \in executed' : f.by # q  BY <1>2, <1>6, Zenon
  <2>3. QED  BY <1>1, <1>2, <2>1, <2>2 DEF SessionInv
<1>10. TicketInv'
  <2>1. pending' # Nothing => pending' = pending /\ session[pending.holder].pc = "wait" /\ pending.holder \in Requests
    BY Zenon DEF TicketInv, ConsentType, Tickets
  <2>2. pending' # Nothing => pending.holder # q  BY <2>1, Zenon
  <2>3. QED  BY <1>1, <2>1, <2>2, Zenon DEF TicketInv
<1>11. SpentInv'  BY DEF SpentInv, Spends
<1>12. ExecutedInv'  BY <1>2, <1>3, <1>5, <1>6 DEF ExecutedInv
<1>13. QED  BY <1>7, <1>8, <1>9, <1>10, <1>11, <1>12, Zenon

LEMMA SessionStep ==
  ASSUME ConsentInv, NEW q \in Requests,
         ReadsNothing(q) \/ ReadsDecision(q) \/ Executes(q) \/ MonitorCancels(q) \/ RunReturns(q)
  PROVE  ConsentInv'
<1>0. /\ notBefore \in Nat /\ time + RunInterval \in Nat /\ conn[q].frame \in {"approve", "decline", Nothing}
      /\ session[q].pc \in {"run", "canceled", "executed"} => conn[q].frame = "approve"
  <2>1. notBefore \in Nat /\ time + RunInterval \in Nat
    BY ConsentAssumption DEF ConsentInv, ConsentType
  <2>2. conn[q].frame \in {"approve", "decline", Nothing}
    BY Zenon DEF ConsentInv, ConsentType, Connections
  <2>3. session[q].pc \in {"run", "canceled", "executed"} => conn[q].frame = "approve"
    BY Zenon DEF ConsentInv, SessionInv
  <2>4. QED  BY <2>1, <2>2, <2>3, Zenon
<1>1. ASSUME NEW r \in {"error", "declined", "result"}, Ends(q, r), r = "declined" => conn[q].frame = "decline",
             UNCHANGED <<around, web, req, conn, notBefore, executed>>
      PROVE  ConsentInv'
  BY <1>0, <1>1, OverStep, Zenon DEF Ends
<1>2. CASE ReadsNothing(q)  BY <1>1, <1>2, Zenon DEF ReadsNothing
<1>3. CASE ReadsDecision(q)
  <2>1. CASE Ends(q, "error") /\ UNCHANGED <<running, notBefore>>  BY <1>1, <1>3, <2>1, Zenon DEF ReadsDecision
  <2>2. CASE conn[q].frame = "decline" /\ Ends(q, "declined") /\ UNCHANGED <<running, notBefore>>
    BY <1>1, <1>3, <2>2, Zenon DEF ReadsDecision
  <2>3. CASE /\ conn[q].frame # "decline"
             /\ pending' = Nothing /\ running' = q /\ notBefore' = time + RunInterval
             /\ session' = [session EXCEPT ![q].pc = "run"] /\ UNCHANGED reply
    BY <1>0, <1>3, <2>3, RunsStep, Zenon DEF ReadsDecision
  <2>4. QED  BY <1>3, <2>1, <2>2, <2>3, Zenon DEF ReadsDecision
<1>4. CASE Executes(q)  BY <1>0, <1>4, RunsStep, Zenon DEF Executes
<1>5. CASE MonitorCancels(q)  BY <1>0, <1>5, RunsStep, Zenon DEF MonitorCancels, control
<1>6. CASE RunReturns(q)
  <2>1. CASE Ends(q, "error")  BY <1>1, <1>6, <2>1, Zenon DEF RunReturns
  <2>2. CASE Ends(q, "result")  BY <1>1, <1>6, <2>2, Zenon DEF RunReturns
  <2>3. Returned(q) \subseteq EarlyRuns \cup LateRuns
    BY <1>6, Zenon DEF RunReturns, Returned, EarlyRuns
  <2>4. ASSUME NEW run \in Returned(q)
        PROVE  ValidateResult(ProjectResult(run)) /\ ShowsResult(q, ProjectResult(run))
    BY <2>3, ResultsAreShown, Zenon DEF ConsentInv
  <2>5. QED  BY <1>6, <2>1, <2>2, <2>4, Zenon DEF RunReturns
<1>7. QED  BY <1>2, <1>3, <1>4, <1>5, <1>6, Zenon

(* What nobody's request, connection or session depends on may change. *)
LEMMA Unmoved ==
  ASSUME ConsentInv, kind' \in Kinds, time' \in Nat, current' \in Nat,
         UNCHANGED <<slot, seen, req, conn, session, reply, pending, notBefore, executed>>
  PROVE  ConsentInv'
<1> USE DEF ConsentInv
<1>1. ConsentType'  BY Zenon DEF ConsentType
<1>2. ClientInv'  BY DEF ClientInv
<1>3. SessionInv'  BY Zenon DEF SessionInv
<1>4. TicketInv'  BY Zenon DEF TicketInv
<1>5. SpentInv'  BY DEF SpentInv, Spends
<1>6. ExecutedInv'  BY Zenon DEF ExecutedInv
<1>7. QED  BY <1>1, <1>2, <1>3, <1>4, <1>5, <1>6, Zenon

(* The route moves, or time passes. *)
LEMMA ConsentTimeStep ==
  ASSUME ConsentInv, RouteMoves \/ TimePasses
  PROVE  ConsentInv'
<1>1. UNCHANGED <<slot, seen, req, conn, session, reply, pending, notBefore, executed>>
  BY Zenon DEF RouteMoves, TimePasses, web, wire, control
<1>2. kind' \in Kinds /\ time' \in Nat /\ current' \in Nat
  BY DEF RouteMoves, TimePasses, ConsentInv, ConsentType
<1>3. QED  BY <1>1, <1>2, Unmoved, Zenon

LEMMA ConsentInitially ==
  ASSUME ConsentInit
  PROVE  ConsentInv
<1> DEFINE link == [asked |-> FALSE, open |-> FALSE, frame |-> Nothing]
           none == [pc |-> "none", review |-> Nothing]
<1>1. /\ Unstarted \in RequestStates /\ Unstarted.pc = "idle" /\ Unstarted.consent = Nothing
      /\ Unstarted.review = Nothing /\ Unstarted.answer = Nothing
  BY Zenon DEF Unstarted, RequestStates, Stages
<1>2. link \in Connections /\ link.frame = Nothing  BY Zenon DEF Connections
<1>3. none \in Sessions /\ none.pc = "none"  BY Zenon DEF Sessions
<1>4. /\ req = [q \in Requests |-> Unstarted] /\ conn = [q \in Requests |-> link]
      /\ session = [q \in Requests |-> none] /\ reply = [q \in Requests |-> Nothing]
      /\ kind \in Kinds /\ time = 0 /\ current = 0 /\ slot = Nothing /\ seen = {}
      /\ pending = Nothing /\ notBefore = 0 /\ executed = {}
  BY Zenon DEF ConsentInit
<1> HIDE DEF link, none
<1>5. /\ Nothing # "approve" /\ Nothing # "decline" /\ Nothing # "declined" /\ Nothing \notin Refusals
  BY NothingIsNone, ConsentAssumption, Zenon
<1>6. ConsentType  BY <1>1, <1>2, <1>3, <1>4, Zenon DEF ConsentType
<1>7. ClientInv  BY <1>1, <1>2, <1>4, <1>5, Zenon DEF ClientInv
<1>8. SessionInv /\ TicketInv  BY <1>1, <1>3, <1>4, Zenon DEF SessionInv, TicketInv
<1>9. SpentInv  BY <1>1, <1>4, Zenon DEF SpentInv, Spends
<1>10. ExecutedInv  BY <1>4, Zenon DEF ExecutedInv
<1>11. QED  BY <1>6, <1>7, <1>8, <1>9, <1>10, Zenon DEF ConsentInv

LEMMA ConsentStep ==
  ASSUME ConsentInv, [ConsentNext]_consentVars
  PROVE  ConsentInv'
<1>1. CASE UNCHANGED consentVars
  <2>1. UNCHANGED <<slot, seen, req, conn, session, reply, pending, notBefore, executed>>
    BY <1>1, Zenon DEF consentVars, web, wire, control
  <2>2. kind' \in Kinds /\ time' \in Nat /\ current' \in Nat
    BY <1>1, Zenon DEF consentVars, around, ConsentInv, ConsentType
  <2>3. QED  BY <2>1, <2>2, Unmoved, Zenon
<1>2. ASSUME NEW q \in Requests,
             \/ ReviewStarts(q) \/ ReviewStores(q) \/ HandleRun(q) \/ Command(q) \/ ClientConfirms(q)
             \/ ClientSends(q) \/ ClientReads(q) \/ ClientGivesUp(q) \/ Session(q) \/ Executes(q)
      PROVE  ConsentInv'
  BY <1>2, ReviewStartsStep, ReviewStoresStep, OpensStep, ConfirmsStep, SendsStep, ReadsStep,
     PrepareStep, SessionStep, Zenon DEF Session
<1>3. CASE \E q \in Requests :
              \/ HandleGatewayReview(q) \/ HandleResolverReview(q) \/ HandleHTTPSReview(q)
              \/ HandleGatewayRun(q) \/ HandleResolverRun(q) \/ HandleHTTPSRun(q)
              \/ RunGatewayCheckCommand(q) \/ RunResolverCheckCommand(q) \/ RunHTTPSCheckCommand(q)
  BY <1>2, <1>3, Zenon DEF HandleGatewayReview, HandleResolverReview, HandleHTTPSReview, HandleReview,
     HandleGatewayRun, HandleResolverRun, HandleHTTPSRun,
     RunGatewayCheckCommand, RunResolverCheckCommand, RunHTTPSCheckCommand
<1>4. CASE \E q \in Requests :
              \/ CheckGateway(q) \/ CheckResolver(q) \/ CheckHTTPS(q)
              \/ ReadGatewayResponse(q) \/ ReadResolverResponse(q) \/ ReadHTTPSResponse(q)
              \/ ClientGivesUp(q) \/ GatewayCheck(q) \/ ResolverCheck(q) \/ HTTPSCheck(q)
  BY <1>2, <1>4, Zenon DEF CheckGateway, CheckResolver, CheckHTTPS, ReadGatewayResponse, ReadResolverResponse,
     ReadHTTPSResponse, GatewayCheck, ResolverCheck, HTTPSCheck
<1>5. CASE RouteMoves \/ TimePasses  BY <1>5, ConsentTimeStep, Zenon
<1>6. QED  BY <1>1, <1>3, <1>4, <1>5, Zenon DEF ConsentNext

(* The inductive invariant of a check's consent: how far each request is,   *)
(* what its session holds, where the ticket is, which request a browser's   *)
(* review was spent on and what was executed.                               *)
THEOREM ConsentInvariant == ConsentSpec => []ConsentInv
<1>1. ConsentInit => ConsentInv  BY ConsentInitially, Zenon
<1>2. ConsentInv /\ [ConsentNext]_consentVars => ConsentInv'  BY ConsentStep, Zenon
<1>3. QED  BY <1>1, <1>2, PTL DEF ConsentSpec

(* However many browsers and terminals overlap, a check is executed only    *)
(* as it was shown to the one request that approved it, and a browser's     *)
(* review is spent by its first decision (handleGatewayRun and its twins).  *)
THEOREM ExecutionsAsShown == ConsentSpec => []ExecutedAsShown
<1>1. ConsentInv => ExecutedAsShown
  <2> SUFFICES ASSUME ConsentInv PROVE ExecutedAsShown  BY Zenon
  <2>1. \A e \in executed : /\ e.by \in Requests /\ req[e.by].consent # Nothing
                            /\ req[e.by].consent.selection = e.selection
    BY Zenon DEF ConsentInv, ConsentType, Executions, ExecutedInv
  <2>2. ASSUME NEW e \in executed, NEW f \in executed, e # f
        PROVE  /\ e.by # f.by
               /\ req[e.by].consent.review # Nothing =>
                     req[e.by].consent.review # req[f.by].consent.review
    <3>1. e.by # f.by  BY <2>2, Zenon DEF ConsentInv, ExecutedInv
    <3>2. ASSUME req[e.by].consent.review # Nothing,
                 req[e.by].consent.review = req[f.by].consent.review
          PROVE  FALSE
      <4>1. PICK i \in Requests : i = req[e.by].consent.review
        BY <2>1, <3>2, Zenon DEF ConsentInv, ConsentType, RequestStates, Consents
      <4>2. Spends(e.by, i) /\ Spends(f.by, i)  BY <2>1, <3>2, <4>1, Zenon DEF Spends
      <4>3. QED  BY <2>1, <3>1, <4>2, Zenon DEF ConsentInv, SpentInv
    <3>3. QED  BY <3>1, <3>2, Zenon
  <2>3. QED  BY <2>1, <2>2, Zenon DEF ExecutedAsShown
<1>2. QED  BY <1>1, ConsentInvariant, PTL

(* What a user is told is true: an answer that says that nothing was        *)
(* approved belongs to no execution, whatever the session still does, and   *)
(* every result of a run passes the three validators on its way to a user   *)
(* (gatewayCommandError and its twins, validateGatewayResult and its        *)
(* twins).                                                                  *)
THEOREM RefusalsAreTruthful == ConsentSpec => []TruthfulRefusal
<1>1. ConsentInv => TruthfulRefusal
  <2> SUFFICES ASSUME ConsentInv PROVE TruthfulRefusal  OBVIOUS
  <2>1. \A e \in executed : e.by \in Requests /\ req[e.by].consent # Nothing
    BY Zenon DEF ConsentInv, ConsentType, Executions, ExecutedInv
  <2>2. \A q \in Requests : req[q].answer \in Refusals => req[q].consent = Nothing
    BY Zenon DEF ConsentInv, ClientInv
  <2>3. Nothing # "unverified"  BY ConsentAssumption, Zenon
  <2>4. \A q \in Requests : reply[q] # "unverified" /\ req[q].answer # "unverified"
    BY <2>3 DEF ConsentInv, ConsentType, RequestStates, Answers, Refusals
  <2>5. QED  BY <2>1, <2>2, <2>4, Zenon DEF TruthfulRefusal
<1>2. QED  BY <1>1, ConsentInvariant, PTL

(* The run control's one ticket is always held by a session that still      *)
(* reads its connection: every way out of a session discards it (the        *)
(* deferred DiscardPending of gatewayCheck and its twins).                  *)
THEOREM TicketIsHeld == ConsentSpec => [](pending # Nothing => session[pending.holder].pc = "wait")
<1>1. ConsentInv => (pending # Nothing => session[pending.holder].pc = "wait")
  BY Zenon DEF ConsentInv, TicketInv
<1>2. QED  BY <1>1, ConsentInvariant, PTL

(* A live review of the browser's is never replaced, although the slot is   *)
(* not locked while a plan is loaded (handleGatewayReview and its twins     *)
(* look again before they store).                                           *)
THEOREM ReviewIsNotReplaced == ConsentSpec => ReviewStands
<1>1. ASSUME [ConsentNext]_consentVars PROVE SlotLive /\ slot' # slot => slot' = Nothing
  <2>1. ASSUME NEW q \in Requests,
               \/ ReviewStarts(q) \/ ClientConfirms(q) \/ ClientSends(q) \/ ClientReads(q)
               \/ ClientGivesUp(q) \/ Session(q) \/ Executes(q) \/ Command(q)
        PROVE  slot' = slot
    BY <2>1, Zenon DEF ReviewStarts, ClientConfirms, ClientSends, ClientReads, ClientGivesUp, Session, Executes,
       Prepare, ReadsNothing, ReadsDecision, MonitorCancels, RunReturns, Command, web
  <2>2. ASSUME NEW q \in Requests, ReviewStores(q)  PROVE SlotLive => slot' = slot
    BY <2>2, Zenon DEF ReviewStores, web
  <2>3. ASSUME NEW q \in Requests, HandleRun(q)  PROVE slot' \in {slot, Nothing}
    BY <2>3, Zenon DEF HandleRun
  <2>4. CASE RouteMoves \/ TimePasses \/ UNCHANGED consentVars
    BY <2>4, Zenon DEF RouteMoves, TimePasses, consentVars, web
  <2>5. CASE \E q \in Requests :
                \/ HandleGatewayReview(q) \/ HandleResolverReview(q) \/ HandleHTTPSReview(q)
                \/ HandleGatewayRun(q) \/ HandleResolverRun(q) \/ HandleHTTPSRun(q)
                \/ RunGatewayCheckCommand(q) \/ RunResolverCheckCommand(q) \/ RunHTTPSCheckCommand(q)
    BY <2>1, <2>2, <2>3, <2>5, Zenon DEF HandleGatewayReview, HandleResolverReview, HandleHTTPSReview, HandleReview,
       HandleGatewayRun, HandleResolverRun, HandleHTTPSRun,
       RunGatewayCheckCommand, RunResolverCheckCommand, RunHTTPSCheckCommand
  <2>6. CASE \E q \in Requests :
                \/ CheckGateway(q) \/ CheckResolver(q) \/ CheckHTTPS(q)
                \/ ReadGatewayResponse(q) \/ ReadResolverResponse(q) \/ ReadHTTPSResponse(q)
                \/ ClientGivesUp(q) \/ GatewayCheck(q) \/ ResolverCheck(q) \/ HTTPSCheck(q)
    BY <2>1, <2>6, Zenon DEF CheckGateway, CheckResolver, CheckHTTPS, ReadGatewayResponse, ReadResolverResponse,
       ReadHTTPSResponse, GatewayCheck, ResolverCheck, HTTPSCheck
  <2>7. QED  BY <1>1, <2>4, <2>5, <2>6, Zenon DEF ConsentNext
<1>2. QED  BY <1>1, PTL DEF ConsentSpec, ReviewStands

-------------------------------------------------------------------------------
(* Preflight *)

Recorded == [state : {"unused", "active", "retired"}, scope : Scopes \cup {Absent}, created : Nat]

JobFields == {"step", "target", "started", "binding", "planned", "began", "before", "route",
              "observed", "completed"}

(* The tables.  No scope identifier is drawn twice, so no record of another *)
(* enrollment is ever listed.                                               *)
TablesInv ==
    /\ clock \in Nat /\ scope \in Rows \cup {Absent} /\ records \in [Records -> Recorded]
    /\ scope # Absent => scope.id \in drawn
    /\ \A r \in Saved : records[r].scope \in drawn
    /\ Cardinality(Active) <= MaxActive
    /\ subject = "https" => \A r \in Listed : records[r].created >= scope.enrolled

Bound == {"inspect", "before", "lookup", "after", "evidence", "resettings", "rescope"}
LookedUp == {"after", "evidence", "resettings", "rescope"}
Inspected == {"evidence", "resettings", "rescope"}

(* What a preflight in progress knows of the world when it looked up its    *)
(* route.                                                                   *)
JobInv ==
    job # Absent =>
       /\ DOMAIN job = JobFields /\ selected = Absent
       /\ subject # "gateway" => job.target \in Saved
       /\ job.step \in Bound =>
             /\ job.binding.id \in drawn
             /\ subject # "gateway" => LinkLocal \notin job.binding.prefixes
       /\ job.step \in LookedUp =>
             /\ witness # Absent
             /\ scope # Absent /\ scope.id = job.binding.id => witness.scope = scope
             /\ subject = "gateway" \/ job.target \in Active => witness.active
       /\ job.step \in Inspected =>
             /\ job.route.source[1] \in Routable(job.binding.prefixes)
             /\ subject = "gateway" => job.route.source[1] = job.target
       /\ job.step = "evidence" => subject = "gateway"
       /\ job.step = "rescope" => witness.active

PreflightInv ==
    /\ subject \in {"gateway", "resolver", "https"}
    /\ TablesInv /\ JobInv /\ AuthorityHeld

LEMMA ActiveBound == MaxActive \in Nat /\ 0 <= MaxActive
<1>1. MaxActive \in Nat  BY PreflightAssumption, Zenon
<1>2. QED  BY <1>1

LEMMA AtMost ==
  ASSUME NEW a \in Nat, NEW b \in Nat, NEW c \in Nat, a <= b, b <= c
  PROVE  a <= c
OBVIOUS

LEMMA Continuing ==
  ASSUME DOMAIN job = JobFields, NEW fields, NEW step, Continue(fields, step)
  PROVE  /\ DOMAIN job' = JobFields /\ job'.step = step
         /\ \A f \in JobFields \ {"step"} : job'[f] = IF f \in DOMAIN fields THEN fields[f] ELSE job[f]
         /\ UNCHANGED <<subject, clock, world, selected>>
BY Zenon DEF Continue, JobFields

(* The tables do not change. *)
LEMMA TablesStay ==
  ASSUME TablesInv, UNCHANGED <<subject, scope, drawn, records>>, clock' \in Nat
  PROVE  TablesInv' /\ Saved' = Saved /\ Active' = Active
<1>1. Saved' = Saved /\ Active' = Active /\ Listed' = Listed  BY Zenon DEF Saved, Active, Listed
<1>2. QED  BY <1>1, Zenon DEF TablesInv

(* A preflight that stays where it is, in a world that may have changed.    *)
LEMMA JobStays ==
  ASSUME JobInv, UNCHANGED <<subject, job, selected, witness>>,
         drawn \subseteq drawn', Saved \subseteq Saved', Active' \cap Saved \subseteq Active,
         scope' # Absent => scope' = scope \/ scope'.id \notin drawn
  PROVE  JobInv'
<1> SUFFICES ASSUME job # Absent PROVE JobInv'  BY Zenon DEF JobInv
<1>1. Saved \subseteq Records /\ Active \subseteq Saved  BY Zenon DEF Saved, Active
<1>2. job.step \in LookedUp => job.step \in Bound  BY Zenon DEF Bound, LookedUp
<1>3. job.step \in LookedUp /\ scope' # Absent /\ scope'.id = job.binding.id => scope' = scope
  BY <1>2, Zenon DEF JobInv
<1>4. job.step \in LookedUp /\ (subject = "gateway" \/ job.target \in Active') => witness.active
  BY Zenon DEF JobInv
<1>5. job.step \in LookedUp =>
         /\ witness # Absent
         /\ scope' # Absent /\ scope'.id = job.binding.id => witness.scope = scope'
  BY <1>3, Zenon DEF JobInv
<1>6. /\ subject # "gateway" => job.target \in Saved'
      /\ job.step \in Bound => /\ job.binding.id \in drawn'
                               /\ subject # "gateway" => LinkLocal \notin job.binding.prefixes
  BY Zenon DEF JobInv
<1>7. QED  BY <1>4, <1>5, <1>6, Zenon DEF JobInv, Routable

LEMMA AuthorityStays ==
  ASSUME AuthorityHeld, UNCHANGED <<subject, selected, witness>>
  PROVE  AuthorityHeld'
BY Zenon DEF AuthorityHeld, Compared, Routable, TargetIn

LEMMA InsertStep ==
  ASSUME PreflightInv, NEW s, Insert(s), scope # Absent, scope.id = s, Cardinality(Active) < MaxActive,
         subject = "https" => scope.enrolled <= clock,
         UNCHANGED <<subject, clock, scope, drawn, job, selected, witness>>
  PROVE  PreflightInv'
<1> USE DEF PreflightInv
<1>1. PICK r \in Records \ Saved :
        records' = [records EXCEPT ![r] = [state |-> "active", scope |-> s, created |-> clock]]
  BY Zenon DEF Insert
<1> DEFINE row == [state |-> "active", scope |-> s, created |-> clock]
<1>2. s \in Scopes /\ s \in drawn  BY Zenon DEF TablesInv, Rows
<1>3. row \in Recorded /\ row.state = "active" /\ row.scope = s /\ row.created = clock
  BY <1>2, Zenon DEF TablesInv, Recorded
<1>4. records' = [records EXCEPT ![r] = row]  BY <1>1, Zenon
<1> HIDE DEF row
<1>5. /\ records' \in [Records -> Recorded] /\ records'[r] = row
      /\ \A u \in Records \ {r} : records'[u] = records[u]
  BY <1>1, <1>3, <1>4 DEF TablesInv
<1>6. Saved' = Saved \cup {r} /\ Active' = Active \cup {r} /\ r \notin Active
  BY <1>1, <1>3, <1>5 DEF Saved, Active
<1>7. Cardinality(Active') <= MaxActive
  <2>1. IsFiniteSet(Active)
    <3>1. Active \subseteq Records  BY Zenon DEF Active
    <3>2. QED  BY <3>1, PreflightAssumption, FS_Subset, Zenon
  <2>2. Cardinality(Active') = Cardinality(Active) + 1 /\ Cardinality(Active) \in Nat
    <3>1. Cardinality(Active) \in Nat  BY <2>1, FS_CardinalityType, Zenon
    <3>2. Cardinality(Active \cup {r}) = Cardinality(Active) + 1
      BY <1>6, <2>1, FS_AddElement, Zenon
    <3>3. QED  BY <1>6, <3>1, <3>2, Zenon
  <2>3. QED  BY <2>2, PreflightAssumption
<1>8. TablesInv'
  <2>1. \A u \in Saved' : records'[u].scope \in drawn
    BY <1>2, <1>3, <1>5, <1>6, Zenon DEF TablesInv, Saved
  <2>2. subject = "https" => \A u \in Listed' : records'[u].created >= scope.enrolled
    <3>1. subject = "https" => row.created >= scope.enrolled  BY <1>3, Zenon DEF TablesInv, Rows
    <3>2. \A u \in Listed' : u = r \/ (u \in Listed /\ records'[u] = records[u])
      BY <1>5, <1>6, Zenon DEF Listed, Active
    <3>3. QED  BY <1>5, <3>1, <3>2, Zenon DEF TablesInv
  <2>3. QED  BY <1>5, <1>7, <2>1, <2>2, Zenon DEF TablesInv
<1>9. JobInv'
  <2>1. Active' \cap Saved \subseteq Active  BY <1>1, <1>6, Zenon
  <2>2. QED  BY <1>6, <2>1, JobStays, Zenon
<1>10. QED  BY <1>8, <1>9, AuthorityStays, Zenon

(* Nothing that the invariant speaks of changes, but perhaps the clock.     *)
LEMMA PreflightStays ==
  ASSUME PreflightInv, UNCHANGED <<subject, scope, drawn, records, job, selected, witness>>, clock' \in Nat
  PROVE  PreflightInv'
<1>1. TablesInv' /\ Saved' = Saved /\ Active' = Active  BY TablesStay, Zenon DEF PreflightInv
<1>2. JobInv'  BY <1>1, JobStays, Zenon DEF PreflightInv
<1>3. QED  BY <1>1, <1>2, AuthorityStays, Zenon DEF PreflightInv

LEMMA RetireStep ==
  ASSUME PreflightInv, NEW which, NEW r \in Records, Retire(which, r)
  PROVE  PreflightInv'
<1> USE DEF PreflightInv
<1>0. /\ records[r].state = "active" /\ records' = [records EXCEPT ![r].state = "retired"]
      /\ UNCHANGED <<subject, clock, scope, drawn, job, selected, witness>>
  BY Zenon DEF Retire
<1> DEFINE row == [records[r] EXCEPT !.state = "retired"]
<1>1. /\ row \in Recorded /\ row.state = "retired" /\ row.scope = records[r].scope
      /\ row.created = records[r].created
  BY Zenon DEF TablesInv, Recorded
<1>2. records' = [records EXCEPT ![r] = row]  BY <1>0, Zenon
<1> HIDE DEF row
<1>3. /\ records' \in [Records -> Recorded] /\ records'[r] = row
      /\ \A u \in Records \ {r} : records'[u] = records[u]
  BY <1>1, <1>2, Zenon DEF TablesInv
<1>4. Saved' = Saved /\ Active' \subseteq Active /\ Listed' \subseteq Listed
  BY <1>0, <1>1, <1>3, Zenon DEF Saved, Active, Listed
<1>5. Cardinality(Active') <= MaxActive
  <2>1. IsFiniteSet(Active)
    <3>1. Active \subseteq Records  BY Zenon DEF Active
    <3>2. QED  BY <3>1, PreflightAssumption, FS_Subset, Zenon
  <2>2. IsFiniteSet(Active') /\ Cardinality(Active') <= Cardinality(Active)  BY <1>4, <2>1, FS_Subset, Zenon
  <2>3. Cardinality(Active') \in Nat /\ Cardinality(Active) \in Nat  BY <2>1, <2>2, FS_CardinalityType, Zenon
  <2>4. Cardinality(Active) <= MaxActive  BY Zenon DEF TablesInv
  <2>5. QED  BY <2>2, <2>3, <2>4, ActiveBound, AtMost, Zenon
<1>6. \A u \in Records : records'[u].scope = records[u].scope /\ records'[u].created = records[u].created
  BY <1>1, <1>3, Zenon
<1>7. Saved \subseteq Records /\ Listed \subseteq Records  BY Zenon DEF Saved, Listed, Active
<1>8. TablesInv'  BY <1>0, <1>3, <1>4, <1>5, <1>6, <1>7 DEF TablesInv
<1>9. JobInv'  BY <1>0, <1>4, JobStays, Zenon
<1>10. QED  BY <1>0, <1>8, <1>9, AuthorityStays, Zenon

LEMMA SettingsStepHolds ==
  ASSUME PreflightInv, SettingsStep
  PROVE  PreflightInv'
<1>0. clock \in Nat  BY Zenon DEF PreflightInv, TablesInv
<1>1. CASE SaveBegins  BY <1>0, <1>1, PreflightStays, Zenon DEF SaveBegins, world
<1>2. CASE SaveResolver
  <2>1. CASE ResolverInsertGuard(saving) /\ Insert(saving)
    BY <1>2, <2>1, InsertStep, Zenon DEF SaveResolver, SaveInserts, ResolverInsertGuard
  <2>2. CASE UNCHANGED records  BY <1>0, <1>2, <2>2, PreflightStays, Zenon DEF SaveResolver, SaveInserts
  <2>3. QED  BY <1>2, <2>1, <2>2, Zenon DEF SaveResolver, CreateResolverConfiguration
<1>3. CASE SaveHTTPS
  <2>1. CASE HTTPSInsertGuard(saving) /\ Insert(saving)
    BY <1>3, <2>1, InsertStep, Zenon DEF SaveHTTPS, SaveInserts, HTTPSInsertGuard
  <2>2. CASE UNCHANGED records  BY <1>0, <1>3, <2>2, PreflightStays, Zenon DEF SaveHTTPS, SaveInserts
  <2>3. QED  BY <1>3, <2>1, <2>2, Zenon DEF SaveHTTPS, CreateHTTPSConfiguration
<1>4. CASE \E r \in Records : RetireResolverConfiguration(r) \/ RetireHTTPSConfiguration(r)
  BY <1>4, RetireStep, Zenon DEF RetireResolverConfiguration, RetireHTTPSConfiguration
<1>5. QED  BY <1>1, <1>2, <1>3, <1>4, Zenon DEF SettingsStep

LEMMA WorldStepHolds ==
  ASSUME PreflightInv, WorldStep
  PROVE  PreflightInv'
<1> USE DEF PreflightInv
<1>0. clock \in Nat  BY DEF TablesInv
<1>1. CASE InterfaceChanges  BY <1>0, <1>1, PreflightStays, Zenon DEF InterfaceChanges
<1>2. CASE RouteChanges  BY <1>0, <1>2, PreflightStays, Zenon DEF RouteChanges
<1>3. CASE ClockChanges
  <2>1. clock' \in Nat  BY <1>0, <1>3, PreflightAssumption DEF ClockChanges
  <2>2. QED  BY <1>3, <2>1, PreflightStays, Zenon DEF ClockChanges, world
<1>4. CASE RetireNetwork
  <2>1. /\ scope' = Absent
        /\ UNCHANGED <<subject, clock, drawn, records, job, selected, witness>>
    BY <1>4, Zenon DEF RetireNetwork
  <2>2. Saved' = Saved /\ Active' = Active /\ Listed' = {}  BY <2>1, Zenon DEF Saved, Active, Listed
  <2>3. TablesInv'  BY <2>1, <2>2, Zenon DEF TablesInv
  <2>4. JobInv'  BY <2>1, <2>2, JobStays, Zenon
  <2>5. QED  BY <2>1, <2>3, <2>4, AuthorityStays, Zenon
<1>5. CASE EnrollNetwork
  <2>1. PICK s \in Scopes \ drawn :
          /\ scope' = [id |-> s, prefixes |-> Assigned, enrolled |-> clock]
          /\ drawn' = drawn \cup {s}
    BY <1>5, Zenon DEF EnrollNetwork
  <2>2. UNCHANGED <<subject, clock, records, job, selected, witness>>  BY <1>5, Zenon DEF EnrollNetwork
  <2>3. scope' \in Rows /\ scope'.id = s  BY <1>0, <2>1, Zenon DEF Rows, Assigned
  <2>4. Saved' = Saved /\ Active' = Active  BY <2>2, Zenon DEF Saved, Active
  <2>5. Listed' = {}
    <3>1. Active' \subseteq Saved  BY <2>4, Zenon DEF Saved, Active
    <3>2. \A r \in Active' : records'[r].scope # s  BY <2>1, <2>2, <3>1, Zenon DEF TablesInv
    <3>3. QED  BY <2>3, <3>2, Zenon DEF Listed
  <2>6. TablesInv'  BY <2>1, <2>2, <2>3, <2>4, <2>5 DEF TablesInv
  <2>7. JobInv'  BY <2>1, <2>2, <2>3, <2>4, JobStays
  <2>8. QED  BY <2>2, <2>6, <2>7, AuthorityStays
<1>6. QED  BY <1>1, <1>2, <1>3, <1>4, <1>5 DEF WorldStep

(* A preflight moves on and the tables stay: what is left is what it knows. *)
LEMMA JobMoves ==
  ASSUME PreflightInv, job # Absent, NEW fields, NEW step, Continue(fields, step),
         job' # Absent => JobInv'
  PROVE  PreflightInv'
<1> USE DEF PreflightInv
<1>1. UNCHANGED <<subject, clock, world, selected>> /\ selected = Absent
  BY Continuing, Zenon DEF JobInv
<1>2. TablesInv'  BY <1>1, TablesStay, Zenon DEF world, TablesInv
<1>3. JobInv'  BY Zenon DEF JobInv
<1>4. AuthorityHeld'  BY <1>1, Zenon DEF AuthorityHeld
<1>5. QED  BY <1>1, <1>2, <1>3, <1>4, Zenon

LEMMA BindsStep ==
  ASSUME PreflightInv, CollectGatewayCheckPlan \/ ReadScope
  PROVE  PreflightInv'
<1> USE DEF PreflightInv
<1>1. PICK b : b = Binding(scope)  BY Zenon
<1>2. /\ scope # Absent /\ scope.id \in drawn /\ b.id = scope.id
      /\ subject # "gateway" => LinkLocal \notin b.prefixes
  BY <1>1, Zenon DEF CollectGatewayCheckPlan, ReadScope, EnrolledGatewayBinding, TablesInv, Binding, Compared, Routable
<1>3. job # Absent /\ DOMAIN job = JobFields /\ selected = Absent /\ (subject # "gateway" => job.target \in Saved)
  BY Zenon DEF CollectGatewayCheckPlan, ReadScope, At, JobInv
<1>4. ASSUME NEW fields, NEW step \in {"inspect", "before"}, Continue(fields, step), UNCHANGED witness,
             DOMAIN fields \subseteq {"binding", "started"}, "binding" \in DOMAIN fields, fields["binding"] = b
      PROVE  PreflightInv'
  <2>1. /\ DOMAIN job' = JobFields /\ job'.step = step /\ job'.binding = b /\ job'.target = job.target
        /\ UNCHANGED <<subject, clock, world, selected>>
    BY <1>3, <1>4, Continuing, Zenon DEF JobFields
  <2>2. Saved' = Saved  BY <2>1, Zenon DEF Saved, world
  <2>3. JobInv'  BY <1>2, <1>3, <2>1, <2>2, Zenon DEF JobInv, LookedUp, Inspected, world
  <2>4. QED  BY <1>3, <1>4, <2>3, JobMoves, Zenon
<1>5. CASE CollectGatewayCheckPlan
  <2> DEFINE f == [binding |-> b, started |-> clock]
  <2>1. DOMAIN f = {"binding", "started"} /\ f["binding"] = b  BY Zenon
  <2>2. Continue(f, "inspect") /\ UNCHANGED witness  BY <1>1, <1>5, Zenon DEF CollectGatewayCheckPlan
  <2> HIDE DEF f
  <2>3. QED  BY <1>4, <2>1, <2>2, Zenon
<1>6. CASE ReadScope
  <2> DEFINE f == [binding |-> b]
  <2>1. DOMAIN f = {"binding"} /\ f["binding"] = b  BY Zenon
  <2>2. Continue(f, "before") /\ UNCHANGED witness  BY <1>1, <1>6, Zenon DEF ReadScope
  <2> HIDE DEF f
  <2>3. QED  BY <1>4, <2>1, <2>2, Zenon
<1>7. QED  BY <1>5, <1>6, Zenon

(* Steps that learn nothing of the authority. *)
LEMMA ReadsOnStep ==
  ASSUME PreflightInv, NEW from, NEW to, At(from), NEW fields, Continue(fields, to), UNCHANGED witness,
         DOMAIN fields \subseteq {"planned", "before", "began", "completed"},
         \/ to = "scope"
         \/ from \in Bound /\ to \in {"before", "lookup"}
         \/ from = "evidence" /\ to = "rescope"
         \/ from = "resettings" /\ to = "rescope" /\ job.target \in Active
         \/ /\ from = "after" /\ to = IF subject = "gateway" THEN "evidence" ELSE "resettings"
            /\ job.route.source[1] \in Routable(job.binding.prefixes)
            /\ subject = "gateway" => job.route.source[1] = job.target
  PROVE  PreflightInv'
<1> USE DEF PreflightInv
<1>1. job # Absent /\ DOMAIN job = JobFields /\ job.step = from /\ selected = Absent  BY Zenon DEF At, JobInv
<1>2. /\ DOMAIN job' = JobFields /\ job'.step = to /\ job'.binding = job.binding /\ job'.target = job.target
      /\ job'.route = job.route /\ UNCHANGED <<subject, clock, world, selected>>
  BY <1>1, Continuing DEF JobFields
<1>3. Saved' = Saved /\ Active' = Active /\ scope' = scope /\ drawn' = drawn  BY <1>2, Zenon DEF Saved, Active, world
<1>4. subject # "gateway" => job.target \in Saved  BY <1>1, Zenon DEF JobInv
<1>5. to \in Bound => /\ job.binding.id \in drawn
                      /\ subject # "gateway" => LinkLocal \notin job.binding.prefixes
  BY <1>1, Zenon DEF JobInv, Bound
<1>6. to \in LookedUp => /\ witness # Absent
                         /\ scope # Absent /\ scope.id = job.binding.id => witness.scope = scope
                         /\ subject = "gateway" \/ job.target \in Active => witness.active
  BY <1>1, Zenon DEF JobInv, LookedUp
<1>7. to \in Inspected => /\ job.route.source[1] \in Routable(job.binding.prefixes)
                          /\ subject = "gateway" => job.route.source[1] = job.target
  BY <1>1, Zenon DEF JobInv, Inspected
<1>8. /\ to = "rescope" => witness.active
      /\ to = "evidence" => subject = "gateway"
  BY <1>1, <1>6, Zenon DEF JobInv, LookedUp, Bound
<1>9. JobInv'
  BY <1>1, <1>2, <1>3, <1>4, <1>5, <1>6, <1>7, <1>8 DEF JobInv, Routable
<1>10. QED  BY <1>1, <1>9, JobMoves, Zenon

LEMMA LookupStep ==
  ASSUME PreflightInv, LookupRoute
  PROVE  PreflightInv'
<1> USE DEF PreflightInv
<1> DEFINE f == [route |-> route, observed |-> clock]
<1>1. DOMAIN f = {"route", "observed"}  BY Zenon
<1>2. /\ Continue(f, "after")
      /\ witness' = [scope |-> scope, active |-> subject = "gateway" \/ job.target \in Active]
      /\ job # Absent /\ job.step = "lookup"
  BY Zenon DEF LookupRoute, At
<1> HIDE DEF f
<1>3. DOMAIN job = JobFields /\ selected = Absent  BY <1>2, Zenon DEF JobInv
<1>4. /\ DOMAIN job' = JobFields /\ job'.step = "after" /\ job'.binding = job.binding /\ job'.target = job.target
      /\ UNCHANGED <<subject, clock, world, selected>>
  BY <1>1, <1>2, <1>3, Continuing, Zenon DEF JobFields
<1>5. Saved' = Saved /\ Active' = Active /\ scope' = scope /\ drawn' = drawn  BY <1>4, Zenon DEF Saved, Active, world
<1>6. PICK a \in BOOLEAN : a = (subject = "gateway" \/ job.target \in Active)  BY Zenon
<1>7. witness' = [scope |-> scope, active |-> a]  BY <1>2, <1>6, Zenon
<1>8. witness' # Absent /\ witness'.scope = scope /\ witness'.active = a
  <2>1. scope \in Rows \cup {Absent}  BY Zenon DEF TablesInv
  <2>2. witness' \in [scope : Rows \cup {Absent}, active : BOOLEAN]  BY <1>6, <1>7, <2>1, Zenon
  <2>3. witness' # Absent  BY <2>2, PreflightAssumption, Zenon
  <2>4. QED  BY <1>7, <2>3, Zenon
<1>9. subject = "gateway" \/ job.target \in Active => witness'.active  BY <1>6, <1>8, Zenon
<1>10. /\ subject # "gateway" => job.target \in Saved
       /\ job.binding.id \in drawn
       /\ subject # "gateway" => LinkLocal \notin job.binding.prefixes
  BY <1>2, Zenon DEF JobInv, Bound
<1>11. JobInv'
  BY <1>3, <1>4, <1>5, <1>8, <1>9, <1>10 DEF JobInv, Inspected
<1>12. QED  BY <1>2, <1>11, JobMoves, Zenon

LEMMA SettingsReadStep ==
  ASSUME PreflightInv, ReadSettings("settings", "scope") \/ ReadSettings("resettings", "rescope")
  PROVE  PreflightInv'
<1>1. DOMAIN <<>> = {}  OBVIOUS
<1>2. job.target \in Active
  BY Zenon DEF ReadSettings, Readable, ActiveResolverConfiguration, ActiveHTTPSConfiguration, Listed
<1>3. CASE ReadSettings("settings", "scope")  BY <1>1, <1>3, ReadsOnStep, Zenon DEF ReadSettings
<1>4. CASE ReadSettings("resettings", "rescope")  BY <1>1, <1>2, <1>4, ReadsOnStep, Zenon DEF ReadSettings
<1>5. QED  BY <1>3, <1>4, Zenon

LEMMA InspectsStep ==
  ASSUME PreflightInv,
         GatewayInterfaceInspected \/ ReadInterfaceBefore \/ ReadInterfaceAfter \/ CollectGatewayRouteEvidence
  PROVE  PreflightInv'
<1>1. CASE GatewayInterfaceInspected
  <2> DEFINE f == [planned |-> clock]
  <2>1. DOMAIN f = {"planned"}  BY Zenon
  <2>2. At("inspect") /\ Continue(f, "before") /\ UNCHANGED witness  BY <1>1, Zenon DEF GatewayInterfaceInspected
  <2> HIDE DEF f
  <2>3. QED  BY <2>1, <2>2, ReadsOnStep, Zenon DEF Bound
<1>2. CASE ReadInterfaceBefore
  <2> DEFINE f == [before |-> hosts, began |-> clock]
  <2>1. DOMAIN f = {"before", "began"}  BY Zenon
  <2>2. At("before") /\ Continue(f, "lookup") /\ UNCHANGED witness  BY <1>2, Zenon DEF ReadInterfaceBefore
  <2> HIDE DEF f
  <2>3. QED  BY <2>1, <2>2, ReadsOnStep, Zenon DEF Bound
<1>3. CASE ReadInterfaceAfter
  <2> DEFINE f == [completed |-> clock]
  <2>1. DOMAIN f = {"completed"}  BY Zenon
  <2>2. PICK to : /\ to = IF subject = "gateway" THEN "evidence" ELSE "resettings"
                  /\ At("after") /\ Continue(f, to) /\ UNCHANGED witness
    BY <1>3, Zenon DEF ReadInterfaceAfter
  <2> HIDE DEF f
  <2>3. subject # "gateway" => LinkLocal \notin job.binding.prefixes
    BY <2>2, Zenon DEF At, PreflightInv, JobInv, Bound
  <2>4. /\ job.route.source[1] \in Routable(job.binding.prefixes)
        /\ subject = "gateway" => job.route.source[1] = job.target
    <3>1. CASE subject = "gateway"
      <4>1. MatchesGatewayRoute(job)  BY <1>3, <3>1, Zenon DEF ReadInterfaceAfter, InspectGatewayRoute
      <4>2. QED  BY <4>1, Zenon DEF MatchesGatewayRoute, PreviewGatewayCheck
    <3>2. CASE subject # "gateway"
      <4>1. ValidateBinding(job)
        BY <1>3, <3>2, Zenon DEF ReadInterfaceAfter, InspectResolverRoute, InspectHTTPSRoute, ResolverPlan, HTTPSPlan,
           PreflightInv
      <4>2. QED  BY <2>3, <3>2, <4>1, Zenon DEF ValidateBinding, Routable
    <3>3. QED  BY <3>1, <3>2, Zenon
  <2>5. QED  BY <2>1, <2>2, <2>4, ReadsOnStep, Zenon
<1>4. CASE CollectGatewayRouteEvidence
  <2>1. DOMAIN <<>> = {}  OBVIOUS
  <2>2. QED  BY <1>4, <2>1, ReadsOnStep, Zenon DEF CollectGatewayRouteEvidence
<1>5. QED  BY <1>1, <1>2, <1>3, <1>4, Zenon

(* A preflight starts, gives up or returns. *)
LEMMA GivesStep ==
  ASSUME PreflightInv, NEW result, Give(result),
         result # Absent => AuthorityHeld'
  PROVE  PreflightInv'
<1>1. job' = Absent /\ selected' = result /\ UNCHANGED <<subject, clock, world>>  BY Zenon DEF Give
<1>2. TablesInv'  BY <1>1, TablesStay, Zenon DEF PreflightInv, world, TablesInv
<1>3. JobInv' /\ AuthorityHeld'  BY <1>1, Zenon DEF JobInv, AuthorityHeld
<1>4. QED  BY <1>1, <1>2, <1>3, Zenon DEF PreflightInv

LEMMA SelectsStep ==
  ASSUME PreflightInv, At("rescope"), SameAuthority(job.binding), Give(Selection(job))
  PROVE  PreflightInv'
<1> USE DEF PreflightInv
<1>1. /\ job # Absent /\ job.step \in LookedUp /\ job.step \in Inspected /\ job.step = "rescope"
  BY Zenon DEF At, LookedUp, Inspected
<1>2. /\ witness # Absent /\ witness.active
      /\ scope # Absent /\ scope.id = job.binding.id => witness.scope = scope
      /\ job.route.source[1] \in Routable(job.binding.prefixes)
      /\ subject = "gateway" => job.route.source[1] = job.target
  BY <1>1, Zenon DEF JobInv
<1>3. scope # Absent /\ scope.id = job.binding.id /\ Compared(scope.prefixes) = job.binding.prefixes
  <2>1. scope # Absent /\ Binding(scope) = job.binding  BY Zenon DEF SameAuthority, EnrolledGatewayBinding
  <2>2. Binding(scope).id = scope.id /\ Binding(scope).prefixes = Compared(scope.prefixes)  BY Zenon DEF Binding
  <2>3. QED  BY <2>1, <2>2, Zenon
<1>4. /\ Selection(job).scope = job.binding.id /\ Selection(job).prefixes = job.binding.prefixes
      /\ Selection(job).target = job.target /\ Selection(job).source = job.route.source
  BY Zenon DEF Selection
<1>5. UNCHANGED <<subject, witness>> /\ selected' = Selection(job)  BY Zenon DEF Give
<1>6. AuthorityHeld'
  <2>1. /\ selected'.scope = job.binding.id /\ selected'.prefixes = job.binding.prefixes
        /\ selected'.target = job.target /\ selected'.source = job.route.source
    BY <1>4, <1>5, Zenon
  <2>2. /\ witness'.scope = scope /\ witness' # Absent /\ witness'.active  BY <1>2, <1>3, <1>5, Zenon
  <2>3. Compared(witness.scope.prefixes)' = job.binding.prefixes
    BY <1>3, <1>5, <2>2, Zenon DEF Compared, Routable
  <2>4. selected'.source[1] \in Routable(selected.prefixes)'  BY <1>2, <2>1, Zenon DEF Routable
  <2>5. (subject = "gateway" => TargetIn(selected.target) = selected.source[1])'
    BY <1>2, <1>5, <2>1, Zenon DEF TargetIn
  <2>6. QED  BY <1>3, <2>1, <2>2, <2>3, <2>4, <2>5 DEF AuthorityHeld
<1>7. QED  BY <1>6, GivesStep, Zenon

LEMMA BeginsStep ==
  ASSUME PreflightInv, NEW which, NEW step \in {"enrolled", "settings"}, NEW targets, Begin(which, step, targets),
         which # "gateway" => targets \subseteq Saved
  PROVE  PreflightInv'
<1> USE DEF PreflightInv
<1>1. PICK t \in targets : job' = Job(step, t)  BY Zenon DEF Begin
<1>2. /\ subject = which /\ selected' = Absent /\ UNCHANGED <<subject, clock, world>>
  BY Zenon DEF Begin
<1>3. DOMAIN Job(step, t) = JobFields /\ Job(step, t).step = step /\ Job(step, t).target = t
  BY Zenon DEF Job, JobFields
<1>4. TablesInv' /\ Saved' = Saved  BY <1>2, TablesStay, Zenon DEF world, TablesInv
<1>5. JobInv'  BY <1>1, <1>2, <1>3, <1>4, Zenon DEF JobInv, Bound, LookedUp, Inspected
<1>6. AuthorityHeld'  BY <1>2, Zenon DEF AuthorityHeld
<1>7. QED  BY <1>2, <1>4, <1>5, <1>6, Zenon

LEMMA PreflightStepHolds ==
  ASSUME PreflightInv, PreflightStep
  PROVE  PreflightInv'
<1>1. CASE PreflightGatewayRun \/ PreflightResolverRun \/ PreflightHTTPSRun
  BY <1>1, BeginsStep, Zenon DEF PreflightGatewayRun, PreflightResolverRun, PreflightHTTPSRun
<1>2. CASE CollectGatewayCheckPlan \/ ReadScope  BY <1>2, BindsStep, Zenon
<1>3. CASE GatewayInterfaceInspected \/ ReadInterfaceBefore \/ ReadInterfaceAfter \/ CollectGatewayRouteEvidence
  BY <1>3, InspectsStep, Zenon
<1>4. CASE ReadSettings("settings", "scope") \/ ReadSettings("resettings", "rescope")
  BY <1>4, SettingsReadStep, Zenon
<1>5. CASE LookupRoute  BY <1>5, LookupStep, Zenon
<1>6. CASE GatewaySelected \/ CollectResolverPlan \/ CollectHTTPSPlan
  BY <1>6, SelectsStep, Zenon DEF GatewaySelected, CollectResolverPlan, CollectHTTPSPlan, PlanHolds
<1>7. CASE PreflightFails  BY <1>7, GivesStep, Zenon DEF PreflightFails
<1>8. QED
  BY <1>1, <1>2, <1>3, <1>4, <1>5, <1>6, <1>7 DEF PreflightStep, ResolverInputs, HTTPSInputs, Inputs

LEMMA PreflightInitially ==
  ASSUME PreflightInit
  PROVE  PreflightInv
<1> USE DEF PreflightInit
<1>1. Unsaved \in Recorded /\ Unsaved.state = "unused"  BY Zenon DEF Unsaved, Recorded
<1>2. records = [r \in Records |-> Unsaved]  BY Zenon
<1>3. Saved = {} /\ Active = {} /\ Listed = {}  BY <1>1, <1>2, Zenon DEF Saved, Active, Listed
<1>4. Cardinality(Active) <= MaxActive
  <2>1. Cardinality(Active) = 0  BY <1>3, FS_EmptySet, Zenon
  <2>2. QED  BY <2>1, ActiveBound, Zenon
<1>5. TablesInv  BY <1>1, <1>2, <1>3, <1>4, Zenon DEF TablesInv
<1>6. QED  BY <1>5 DEF PreflightInv, JobInv, AuthorityHeld

(* The inductive invariant of the saved selections and of a preflight:      *)
(* what its later steps know of the world at the moment of its route.       *)
THEOREM PreflightInvariant == PreflightSpec => []PreflightInv
<1>1. PreflightInit => PreflightInv  BY PreflightInitially
<1>2. ASSUME PreflightInv, [PreflightNext]_preflightVars PROVE PreflightInv'
  <2>1. CASE UNCHANGED preflightVars
    BY <1>2, <2>1, PreflightStays DEF preflightVars, world, PreflightInv, TablesInv
  <2>2. QED
    BY <1>2, <2>1, SettingsStepHolds, PreflightStepHolds, WorldStepHolds DEF PreflightNext
<1>3. QED  BY <1>1, <1>2, PTL DEF PreflightSpec

(* Whatever changes while a preflight runs, what it returns was authorised  *)
(* when its route was looked up (preflightGatewayRun, collectResolverPlan   *)
(* and collectHTTPSPlan).                                                   *)
THEOREM AuthorityIsHeld == PreflightSpec => []AuthorityHeld
<1>1. PreflightInv => AuthorityHeld  BY Zenon DEF PreflightInv
<1>2. QED  BY <1>1, PreflightInvariant, PTL

(* A saved selection that the insert triggers let in can be listed by the   *)
(* controller and shown by the page, unless the clock stands before it was  *)
(* made (scanHTTPSConfiguration, handleHTTPSSelections and the resolver's). *)
THEOREM SettingsAreReadable == PreflightSpec => []SettingsStayReadable
<1>1. ASSUME PreflightInv PROVE SettingsStayReadable
  <2> SUFFICES ASSUME subject # "gateway", scope # Absent, ~(\E r \in Listed : records[r].created > clock)
               PROVE  (IF subject = "https" THEN HandleHTTPSSelections ELSE HandleResolverSelections) = Listed
    BY Zenon DEF SettingsStayReadable
  <2>1. Cardinality(Listed) <= MaxActive
    <3>1. Listed \subseteq Active /\ Active \subseteq Records  BY Zenon DEF Listed, Active
    <3>2. IsFiniteSet(Active)  BY <3>1, PreflightAssumption, FS_Subset, Zenon
    <3>3. IsFiniteSet(Listed) /\ Cardinality(Listed) <= Cardinality(Active)  BY <3>1, <3>2, FS_Subset, Zenon
    <3>4. Cardinality(Listed) \in Nat /\ Cardinality(Active) \in Nat  BY <3>2, <3>3, FS_CardinalityType, Zenon
    <3>5. Cardinality(Active) <= MaxActive  BY <1>1, Zenon DEF PreflightInv, TablesInv
    <3>6. QED  BY <3>3, <3>4, <3>5, ActiveBound, AtMost, Zenon
  <2>2. \A r \in Listed : records[r].created <= clock
    <3>1. \A r \in Listed : records[r].created \in Nat
      BY <1>1, Zenon DEF PreflightInv, TablesInv, Recorded, Listed, Active
    <3>2. QED  BY <1>1, <3>1 DEF PreflightInv, TablesInv
  <2>3. CASE subject = "https"
    <3>1. ListHTTPSSettings = Listed
      BY <1>1, <2>1, <2>3, Zenon DEF ListHTTPSSettings, EnrolledGatewayBinding, ListActiveHTTPSConfigurations,
         ScanHTTPSConfiguration, PreflightInv, TablesInv
    <3>2. QED
      BY <2>2, <2>3, <3>1, Zenon DEF HandleHTTPSSelections, ProjectWebHTTPSSelections, ValidWebHTTPSSettings
  <2>4. CASE subject # "https"
    <3>1. ListResolvers = Listed
      BY <2>1, Zenon DEF ListResolvers, EnrolledGatewayBinding, ListActiveResolverConfigurations
    <3>2. QED
      BY <2>2, <2>4, <3>1, Zenon DEF HandleResolverSelections, ProjectWebResolverSelections, ValidWebResolverSettings
  <2>5. QED  BY <2>3, <2>4, Zenon
<1>2. QED  BY <1>1, PreflightInvariant, PTL
===============================================================================
