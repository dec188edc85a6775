------------------------ MODULE RunControlTrail_proofs ------------------------
(*****************************************************************************)
(* RunControl implements OneShotConsent, what it reports is durable, and its *)
(* audit trail can be read back.  Beyond the invariants of the run itself    *)
(* this needs to know what a caller's review and the ledger of its ticket    *)
(* are at each place (Consented), and how the times and measurements of a    *)
(* run's events relate to each other and to what its caller holds            *)
(* (Narrated).                                                               *)
(*****************************************************************************)
EXTENDS RunControl_proofs, FiniteSetTheorems

(* The places after "authorized" is durable. *)
Authorised == RunPhases \ {"authorize", "authorizing"}

Executed(t) == \E x \in executions : x.run = t

IsAdmitted(t) == \E a \in admissions : a.run = t

Consented ==
    /\ \A c \in Callers : pc[c] \in {"idle", "inspect"} => review[c] = None
    /\ pending # None => \A c \in Callers : review[c] \in {None, pending}
    /\ \A e \in audit : IsAdmitted(e.run)
    /\ \A c \in Callers : pc[c] \in Authorised => Recorded(review[c].ticket, "authorized") # {}
    /\ \A c \in Callers : pc[c] \in RunPhases => Recorded(review[c].ticket, "finished") = {}
    /\ \A c \in Callers : pc[c] = "execute" => Executed(review[c].ticket)
    /\ \A c \in Callers : pc[c] \in {"finish", "finishing"} /\ verdict[c] = "completed" =>
          Executed(review[c].ticket)
    /\ ReportsAreDurable

AllInv == RunInv /\ Trailed /\ Held /\ Consented

(* A step that draws, consumes, records, executes and reports nothing, and  *)
(* takes no caller further than its review and the ledger allow.            *)
Quiet ==
    /\ UNCHANGED <<issued, review, admissions, audit, executions, reported>>
    /\ pending' = pending \/ pending' = None
    /\ \A c \in Callers :
          /\ pc'[c] \in {"idle", "inspect"} => pc[c] \in {"idle", "inspect"}
          /\ pc'[c] \in RunPhases => pc[c] \in RunPhases
          /\ pc'[c] \in Authorised => pc[c] \in Authorised
          /\ pc'[c] = "execute" => pc[c] = "execute"
          /\ pc'[c] \in {"finish", "finishing"} /\ verdict'[c] = "completed" =>
                \/ pc[c] \in {"finish", "finishing"} /\ verdict[c] = "completed"
                \/ pc[c] = "execute"

Inserts(c) == InsertAuthorized(c) \/ InsertAdmitted(c) \/ InsertFinished(c)

(* The steps that are not quiet. *)
LEMMA ConsentFrame ==
    ASSUME RunInv, [Next]_vars
    PROVE \/ \E c \in Callers : \/ IssueReview(c) \/ Inserts(c) \/ Release(c)
                                \/ Launch(c) /\ pc'[c] = "execute"
                                \/ \E t \in handed : Run(c, t)
          \/ Restart
          \/ Quiet
<1> USE DEF Quiet, control, locals, entry, result, tickets, history, Lock, Stages, RunPhases, Authorised
<1>0. pc \in [Callers -> Stages] /\ verdict \in [Callers -> Outcomes \cup {None}]
  BY Zenon DEF RunInv, Typed, TypeOK
<1>1. ASSUME NEW c \in Callers, Refuse(c) \/ CallerCancels(c) \/ DeadlinePasses(c) PROVE Quiet
  BY <1>1, Zenon DEF Refuse, CallerCancels, DeadlinePasses
<1>2. ASSUME NEW c \in Callers, Prepare(c) \/ InspectFails(c) \/ InspectRefused(c) PROVE Quiet
  BY <1>0, <1>2 DEF Prepare, InspectFails, InspectRefused, Goto
<1>3. ASSUME NEW c \in Callers, AbandonRun(c) \/ Authorize(c) \/ Admit(c) \/ Conclude(c) PROVE Quiet
  BY <1>0, <1>3 DEF AbandonRun, Authorize, Admit, Conclude, RecordTime, Goto
<1>4. ASSUME NEW c \in Callers, RevalidateStops(c) \/ Revalidate(c) PROVE Quiet
  BY <1>0, <1>4 DEF RevalidateStops, Revalidate, Finish, Goto
<1>5. ASSUME NEW c \in Callers, Launch(c), pc'[c] # "execute" PROVE Quiet
  BY <1>0, <1>5 DEF Launch, Finish, Goto
<1>6. ASSUME NEW c \in Callers, ExecutorPanics(c) \/ ExecutorReturns(c) PROVE Quiet
  BY <1>0, <1>6, Zenon DEF ExecutorPanics, ExecutorReturns, Finish, Goto
<1>7. ASSUME NEW c \in Callers, ClockFails(c) PROVE Quiet
  BY <1>0, <1>7, Zenon DEF ClockFails, ClockUsers, Goto
<1>8. CASE (\E t \in handed : Discard(t)) \/ Close \/ Tick \/ SetClock \/ UNCHANGED vars
  BY <1>8, Zenon DEF Discard, Close, Tick, SetClock, vars
<1> QED BY <1>1, <1>2, <1>3, <1>4, <1>5, <1>6, <1>7, <1>8 DEF Next, PrepareStep, RunStep, Inserts

-------------------------------------------------------------------------------
(* Consented is kept *)

(* At most one caller holds a review. *)
LEMMA OneReview ==
    ASSUME AllInv, NEW c \in Callers, pc[c] # "idle"
    PROVE \A d \in Callers \ {c} : pc[d] = "idle" /\ review[d] = None
  BY Zenon DEF AllInv, RunInv, OneOperation, Reserved, Consented

LEMMA QuietKeeps == ASSUME AllInv, Quiet PROVE Consented'
<1> USE DEF AllInv, Quiet
<1>1. \A run, state : Recorded(run, state)' = Recorded(run, state)
  BY Zenon DEF Recorded
<1>2. \A t : (IsAdmitted(t)' <=> IsAdmitted(t)) /\ (Executed(t)' <=> Executed(t))
  BY Zenon DEF IsAdmitted, Executed
<1>3. ReportsAreDurable'
  BY <1>1, Zenon DEF Consented, ReportsAreDurable
<1>4. \A c \in Callers : pc'[c] \in {"finish", "finishing"} /\ verdict'[c] = "completed" =>
          Executed(review[c].ticket)'
  BY <1>2, Zenon DEF Consented
<1> QED BY <1>1, <1>2, <1>3, <1>4 DEF Consented

LEMMA IssueKeeps == ASSUME AllInv, NEW c \in Callers, IssueReview(c) PROVE Consented'
<1> USE DEF AllInv
<1>1. PICK t \in Tickets \ issued, s \in Selections, observed \in start[c].wall..wall :
        /\ pending' = Review(t, s, observed)
        /\ review' = [review EXCEPT ![c] = Review(t, s, observed)]
  BY Zenon DEF IssueReview
<1>2. /\ UNCHANGED <<audit, admissions, executions, reported>>
      /\ pc[c] = "inspect" /\ pc'[c] = "release" /\ review'[c] = pending'
      /\ \A d \in Callers \ {c} : pc'[d] = pc[d] /\ review'[d] = review[d] /\ pc[d] = "idle" /\ review[d] = None
  BY <1>1, OneReview, Zenon DEF IssueReview, Goto, RunInv, Typed, TypeOK, history
<1>3. ReportsAreDurable'
  BY <1>2, Zenon DEF Consented, ReportsAreDurable, Recorded
<1>4. \A e \in audit' : IsAdmitted(e.run)'
  BY <1>2, Zenon DEF Consented, IsAdmitted
<1> QED BY <1>2, <1>3, <1>4 DEF Consented, RunPhases, Authorised

LEMMA ReleaseKeeps == ASSUME AllInv, NEW c \in Callers, Release(c) PROVE Consented'
<1> USE DEF AllInv
<1>1. /\ UNCHANGED <<pending, audit, admissions, executions, reported>>
      /\ pc[c] = "release" /\ pc'[c] = "idle" /\ review'[c] = None
      /\ \A d \in Callers \ {c} : pc'[d] = pc[d] /\ review'[d] = review[d] /\ pc[d] = "idle" /\ review[d] = None
  BY OneReview, Zenon DEF Release, Forget, Goto, RunInv, Typed, TypeOK, history
<1>2. ReportsAreDurable'
  BY <1>1, Zenon DEF Consented, ReportsAreDurable, Recorded
<1>3. \A e \in audit' : IsAdmitted(e.run)'
  BY <1>1, Zenon DEF Consented, IsAdmitted
<1> QED BY <1>1, <1>2, <1>3 DEF Consented, RunPhases, Authorised

LEMMA RestartKeepsConsent == ASSUME AllInv, Restart PROVE Consented'
<1>1. ReportsAreDurable'
  BY Zenon DEF AllInv, Restart, Consented, ReportsAreDurable, Recorded, history
<1> QED BY <1>1, Zenon DEF AllInv, Restart, Consented, IsAdmitted, history, Nothing, RunPhases, Authorised

(* A ticket that is consumed has an empty ledger. *)
LEMMA RunKeeps == ASSUME AllInv, NEW c \in Callers, NEW t \in handed, Run(c, t) PROVE Consented'
<1> USE DEF AllInv
<1>1. CASE ~(Live(pending) /\ ~busy /\ mono >= notBefore)
  <2>1. Quiet
    BY <1>1, Zenon DEF Run, Quiet, tickets, entry, result
  <2> QED BY <2>1, QuietKeeps, Zenon
<1>2. CASE Live(pending) /\ ~busy /\ mono >= notBefore
  <2>1. /\ pending \in Reviews /\ pending.ticket = t
        /\ pending' = None /\ admissions' = admissions \cup {[run |-> t, at |-> mono]}
        /\ UNCHANGED <<audit, executions, reported>>
        /\ pc'[c] = "authorize" /\ review'[c] = pending
        /\ \A d \in Callers \ {c} : pc'[d] = pc[d] /\ review'[d] = review[d] /\ pc[d] = "idle" /\ review[d] = None
    BY <1>2 DEF Run, Goto, RunInv, Typed, TypeOK, OneOperation, Reserved, Consented
  <2>2. \A e \in audit : e.run # t
    <3>1. TicketsOnce /\ pending # None
      BY <2>1, ReviewAssumption, Zenon DEF RunInv, Reviews
    <3>2. ~IsAdmitted(t)
      BY <2>1, <3>1, Zenon DEF IsAdmitted, TicketsOnce
    <3> QED BY <3>2, Zenon DEF Consented
  <2>3. ReportsAreDurable'
    BY <2>1, Zenon DEF Consented, ReportsAreDurable, Recorded
  <2>4. \A e \in audit' : IsAdmitted(e.run)'
    BY <2>1, Zenon DEF Consented, IsAdmitted
  <2>5. Recorded(review[c].ticket, "finished")' = {}
    BY <2>1, <2>2, Zenon DEF Recorded
  <2> QED BY <2>1, <2>3, <2>4, <2>5 DEF Consented, RunPhases, Authorised
<1> QED BY <1>1, <1>2, Zenon

LEMMA LaunchKeeps ==
    ASSUME AllInv, NEW c \in Callers, Launch(c), pc'[c] = "execute" PROVE Consented'
<1> USE DEF AllInv
<1>1. /\ UNCHANGED <<pending, review, audit, admissions, reported>>
      /\ pc[c] = "launch" /\ executions \subseteq executions' /\ Executed(review[c].ticket)'
      /\ \A d \in Callers \ {c} : pc'[d] = pc[d] /\ pc[d] = "idle" /\ review[d] = None
  <2>1. executions' = executions \cup {[run |-> review[c].ticket, at |-> mono, selection |-> fresh[c]]}
    BY Zenon DEF Launch, Finish, Goto, RunInv, Typed, TypeOK
  <2>2. Executed(review[c].ticket)'
    <3>1. [run |-> review[c].ticket, at |-> mono, selection |-> fresh[c]] \in executions'
      BY <2>1, Zenon
    <3> QED BY <3>1, Zenon DEF Executed, Launch, entry
  <2> QED BY <2>1, <2>2, OneReview DEF Launch, Finish, Goto, RunInv, Typed, TypeOK, entry
<1>2. ReportsAreDurable'
  BY <1>1 DEF Consented, ReportsAreDurable, Recorded
<1>3. \A e \in audit' : IsAdmitted(e.run)'
  BY <1>1, Zenon DEF Consented, IsAdmitted
<1>4. \A run, state : Recorded(run, state)' = Recorded(run, state)
  BY <1>1, Zenon DEF Recorded
<1> QED BY <1>1, <1>2, <1>3, <1>4 DEF Consented, RunPhases, Authorised

(* The three records of a run. *)
Record(from, state, to) ==
    \/ from = "authorizing" /\ state = "authorized" /\ to = "revalidate"
    \/ from = "admitting" /\ state = "admitted" /\ to = "launch"
    \/ from = "finishing" /\ state = "finished" /\ to = "release"

(* What an insert does: the event is stored, or is not (or nobody knows) and *)
(* the caller learns of an error; only a stored terminal event is reported.  *)
InsertEffect(c, from, state, to) ==
    /\ pc[c] = from /\ pc'[c] \in {to, "release"} /\ pending = None /\ pending' = None
    /\ UNCHANGED <<issued, review, verdict, admissions, executions>>
    /\ \A d \in Callers \ {c} : pc'[d] = pc[d] /\ pc[d] = "idle" /\ review[d] = None
    /\ Event(c, state).run = review[c].ticket /\ Event(c, state).state = state
    /\ \/ /\ audit' = audit \cup {Event(c, state)}
          /\ \A f \in audit : f.run # review[c].ticket \/ f.state # state
       \/ audit' = audit /\ reported' = reported /\ pc'[c] = "release"
    /\ \/ reported' = reported
       \/ /\ state = "finished" /\ Event(c, state).outcome = verdict[c]
          /\ reported' = reported \cup {[run |-> review[c].ticket, outcome |-> verdict[c]]}

LEMMA InsertFacts ==
    ASSUME AllInv, NEW c \in Callers, NEW from, NEW state, NEW to,
           Record(from, state, to), Insert(c, from, state, to)
    PROVE InsertEffect(c, from, state, to)
<1>1. pc[c] = from /\ from # "idle" /\ from # "release" /\ pc \in [Callers -> Stages]
  BY Zenon DEF Insert, Record, AllInv, RunInv, Typed, TypeOK
<1>2. pending = None
  BY <1>1, Zenon DEF AllInv, Held
<1>3. pending' = None /\ UNCHANGED <<issued, review, verdict, admissions, executions>>
  BY <1>2, Zenon DEF Insert, Lock, locals, entry, result, tickets
<1>4. /\ pc'[c] \in {to, "release"}
      /\ \A d \in Callers \ {c} : pc'[d] = pc[d] /\ pc[d] = "idle" /\ review[d] = None
  BY <1>1, OneReview, Zenon DEF Insert, Goto
<1>5. /\ Event(c, state).run = review[c].ticket /\ Event(c, state).state = state
      /\ state = "finished" => Event(c, state).outcome = verdict[c]
  BY Zenon DEF Event
<1>6. /\ \/ /\ audit' = audit \cup {Event(c, state)}
            /\ \A f \in audit : f.run # review[c].ticket \/ f.state # state
         \/ audit' = audit /\ reported' = reported /\ pc'[c] = "release"
      /\ \/ reported' = reported
         \/ /\ state = "finished"
            /\ reported' = reported \cup {[run |-> review[c].ticket, outcome |-> verdict[c]]}
  BY <1>1, <1>5, Zenon DEF Insert, Goto
<1> QED BY <1>1, <1>2, <1>3, <1>4, <1>5, <1>6, Zenon DEF InsertEffect

LEMMA InsertKeeps ==
    ASSUME AllInv, NEW c \in Callers, NEW from, NEW state, NEW to,
           Record(from, state, to), Insert(c, from, state, to)
    PROVE Consented'
<1> DEFINE e == Event(c, state)
<1> HIDE DEF e
<1>0. InsertEffect(c, from, state, to)
  BY InsertFacts, Zenon
<1>1. /\ pc[c] = from /\ pc'[c] \in {to, "release"} /\ pending' = None
      /\ UNCHANGED <<review, verdict, admissions, executions>>
      /\ \A d \in Callers \ {c} : pc'[d] = pc[d] /\ pc[d] = "idle" /\ review[d] = None
      /\ e.run = review[c].ticket /\ e.state = state
      /\ audit' = audit \cup {e} \/ (audit' = audit /\ reported' = reported /\ pc'[c] = "release")
      /\ \/ reported' = reported
         \/ /\ state = "finished" /\ e.outcome = verdict[c]
            /\ reported' = reported \cup {[run |-> review[c].ticket, outcome |-> verdict[c]]}
  BY <1>0, Zenon DEF InsertEffect, e
<1>2. \A run, s : /\ Recorded(run, s) \subseteq Recorded(run, s)'
                  /\ s # state => Recorded(run, s)' = Recorded(run, s)
  BY <1>1, Zenon DEF Recorded
<1>3. audit' = audit \cup {e} => e \in Recorded(review[c].ticket, state)'
  BY <1>1, Zenon DEF Recorded
<1>4. \A x \in audit' : IsAdmitted(x.run)'
  <2>1. IsAdmitted(review[c].ticket)
    <3>1. [run |-> review[c].ticket, at |-> start[c].mono] \in admissions
      BY <1>1, Zenon DEF AllInv, RunInv, Admitted, Record, RunPhases
    <3> QED BY <3>1, Zenon DEF IsAdmitted
  <2> QED BY <1>1, <2>1, Zenon DEF AllInv, Consented, IsAdmitted
<1>5. \A d \in Callers : pc'[d] \in Authorised => Recorded(review[d].ticket, "authorized")' # {}
  BY <1>1, <1>2, <1>3, Zenon DEF AllInv, Consented, Record, Authorised, RunPhases
<1>6. \A d \in Callers : pc'[d] \in RunPhases => Recorded(review[d].ticket, "finished")' = {}
  <2>1. pc'[c] \in RunPhases => state # "finished" /\ pc[c] \in RunPhases
    BY <1>1, Zenon DEF Record, RunPhases
  <2>2. \A d \in Callers \ {c} : pc'[d] \notin RunPhases
    BY <1>1, Zenon DEF RunPhases
  <2>3. pc[c] \in RunPhases => Recorded(review[c].ticket, "finished") = {}
    BY Zenon DEF AllInv, Consented
  <2> QED BY <1>1, <1>2, <2>1, <2>2, <2>3
<1>7. ReportsAreDurable'
  <2>1. ASSUME NEW r \in reported' PROVE \E x \in Recorded(r.run, "finished")' : x.outcome = r.outcome
    <3>1. CASE r \in reported
      <4>1. \E x \in Recorded(r.run, "finished") : x.outcome = r.outcome
        BY <3>1, Zenon DEF AllInv, Consented, ReportsAreDurable
      <4> QED BY <1>2, <4>1, Zenon
    <3>2. CASE r \notin reported
      <4>1. /\ audit' = audit \cup {e} /\ state = "finished" /\ e.outcome = verdict[c]
            /\ r.run = review[c].ticket /\ r.outcome = verdict[c]
        <5>1. reported' # reported  BY <3>2, Zenon
        <5>2. /\ state = "finished" /\ e.outcome = verdict[c]
              /\ reported' = reported \cup {[run |-> review[c].ticket, outcome |-> verdict[c]]}
          BY <1>1, <5>1, Zenon
        <5>3. audit' = audit \cup {e}  BY <1>1, <5>1, Zenon
        <5>4. r = [run |-> review[c].ticket, outcome |-> verdict[c]]  BY <3>2, <5>2, Zenon
        <5> QED BY <5>2, <5>3, <5>4, Zenon
      <4>2. e \in Recorded(r.run, "finished")'
        BY <1>1, <4>1, Zenon DEF Recorded
      <4> QED BY <4>1, <4>2, Zenon
    <3> QED BY <3>1, <3>2, Zenon
  <2>2. ASSUME NEW r \in reported', r.outcome = "completed" PROVE Executed(r.run)
    <3>1. CASE r \in reported
      BY <2>2, <3>1, Zenon DEF AllInv, Consented, ReportsAreDurable, Executed
    <3>2. CASE r \notin reported
      <4>1. state = "finished" /\ r = [run |-> review[c].ticket, outcome |-> verdict[c]]
        BY <1>1, <3>2, Zenon
      <4>2. verdict[c] = "completed" /\ r.run = review[c].ticket
        BY <2>2, <4>1, Zenon
      <4>3. pc[c] = "finishing"
        BY <1>1, <4>1, Zenon DEF Record
      <4> QED BY <4>2, <4>3, Zenon DEF AllInv, Consented
    <3> QED BY <3>1, <3>2, Zenon
  <2> QED BY <1>1, <2>1, <2>2, Zenon DEF ReportsAreDurable, Executed
<1> QED BY <1>1, <1>4, <1>5, <1>6, <1>7 DEF AllInv, Consented, Record, Authorised, RunPhases

LEMMA ConsentedStep == AllInv /\ [Next]_vars => Consented'
<1> SUFFICES ASSUME AllInv, [Next]_vars PROVE Consented'
  BY Zenon
<1>1. ASSUME NEW c \in Callers, Inserts(c) PROVE Consented'
  BY <1>1, InsertKeeps, Zenon DEF Inserts, InsertAuthorized, InsertAdmitted, InsertFinished, Record
<1> QED BY <1>1, ConsentFrame, QuietKeeps, IssueKeeps, ReleaseKeeps, RestartKeepsConsent, RunKeeps,
           LaunchKeeps DEF AllInv

LEMMA AllInvariance == Spec => []AllInv
<1>1. Init => AllInv
  <2>1. Init => Trailed /\ Held
    BY Zenon DEF Init, Trailed, ExecutionIsAdmitted, Held
  <2>2. Init => Consented
    BY DEF Init, Consented, Nothing, RunPhases, Authorised, ReportsAreDurable
  <2> QED BY <2>1, <2>2, RunInvInit, Zenon DEF AllInv
<1>2. AllInv /\ [Next]_vars => AllInv'
  BY RunInvStep, TrailedStep, HeldStep, ConsentedStep, Zenon DEF AllInv
<1> QED BY <1>1, <1>2, PTL DEF Spec

(* An outcome is reported only when its terminal event is durable, and      *)
(* "completed" only for a run that was executed (record, finish).           *)
THEOREM DurableReports == Spec => []ReportsAreDurable
<1>1. AllInv => ReportsAreDurable
  BY Zenon DEF AllInv, Consented
<1> QED BY <1>1, AllInvariance, PTL

-------------------------------------------------------------------------------
(* The refinement *)

Holds(t) == \E c \in Callers : review[c] # None /\ review[c].ticket = t

LEMMA StageOf ==
    \A t : ConsentStage(t) =
        IF t \notin issued THEN "unused"
        ELSE IF pending # None /\ pending.ticket = t THEN "offered"
        ELSE IF IsAdmitted(t) /\ Holds(t) THEN "granted" ELSE "spent"
  BY Zenon DEF ConsentStage, IsAdmitted, Holds

LEMMA StageAfter ==
    \A t : ConsentStage(t)' =
        IF t \notin issued' THEN "unused"
        ELSE IF pending' # None /\ pending'.ticket = t THEN "offered"
        ELSE IF IsAdmitted(t)' /\ Holds(t)' THEN "granted" ELSE "spent"
  BY Zenon DEF ConsentStage, IsAdmitted, Holds

LEMMA StageMoves ==
    ASSUME NEW t \in Tickets, NEW from, NEW to, ConsentStage(t) = from, ConsentStage(t)' = to,
           \A u \in Tickets \ {t} : ConsentStage(u)' = ConsentStage(u), UNCHANGED <<audit, executions>>
    PROVE Consent!Move(t, from, to)
  BY Zenon DEF Consent!Move, EventsOf

LEMMA StageStays ==
    ASSUME \A u \in Tickets : ConsentStage(u)' = ConsentStage(u), UNCHANGED <<audit, executions>>
    PROVE UNCHANGED Consent!consent
  BY Zenon DEF Consent!consent, EventsOf

LEMMA QuietRefines == ASSUME AllInv, Quiet PROVE [Consent!Next]_(Consent!consent)
<1> USE StageOf, StageAfter DEF Quiet
<1>1. \A u : (IsAdmitted(u)' <=> IsAdmitted(u)) /\ (Holds(u)' <=> Holds(u))
  BY Zenon DEF IsAdmitted, Holds
<1>2. CASE pending' = pending
  BY <1>1, <1>2, StageStays, Zenon
<1>3. CASE pending # None /\ pending' = None
  <2>1. pending.ticket \in Tickets /\ pending.ticket \in issued /\ ~IsAdmitted(pending.ticket)
    BY <1>3, Zenon DEF AllInv, RunInv, Typed, TypeOK, Reviews, TicketsOnce, IsAdmitted
  <2>2. Consent!Move(pending.ticket, "offered", "spent")
    BY <1>1, <1>3, <2>1, StageMoves
  <2> QED BY <2>1, <2>2, Zenon DEF Consent!Next, Consent!Withdraw
<1> QED BY <1>2, <1>3

LEMMA IssueRefines ==
    ASSUME AllInv, NEW c \in Callers, IssueReview(c) PROVE [Consent!Next]_(Consent!consent)
<1>1. PICK t \in Tickets \ issued, s \in Selections, observed \in start[c].wall..wall :
        /\ pending' = Review(t, s, observed) /\ issued' = issued \cup {t}
        /\ review' = [review EXCEPT ![c] = Review(t, s, observed)]
  BY Zenon DEF IssueReview
<1>2. Review(t, s, observed).ticket = t /\ Review(t, s, observed) # None
  <2>1. Review(t, s, observed) \in Reviews
    <3>1. Typed /\ start[c] \in Instants /\ wall \in Int
      BY Zenon DEF AllInv, RunInv, Typed, TypeOK, LocalsSet, IssueReview
    <3>2. observed \in Int
      <4>1. start[c].wall \in Int
        BY <3>1, Zenon DEF Instants
      <4>2. wall \in Int /\ observed \in start[c].wall..wall
        BY <1>1, <3>1, Zenon
      <4> QED BY <4>1, <4>2
    <3>3. TypeOK
      BY <3>1, Zenon DEF Typed
    <3> QED BY <1>1, <3>2, <3>3, ReviewType
  <2> QED BY <2>1, ReviewAssumption, Zenon DEF Review, Reviews
<1>3. /\ pending = None /\ UNCHANGED <<audit, admissions, executions>>
      /\ \A d \in Callers : review[d] = None
      /\ \A d \in Callers \ {c} : review'[d] = review[d]
      /\ review'[c] = Review(t, s, observed)
  BY <1>1, OneReview, Zenon DEF IssueReview, AllInv, Consented, Held, RunInv, Typed, TypeOK, history
<1>4. \A u : ~Holds(u) /\ (Holds(u)' => u = t) /\ (IsAdmitted(u)' <=> IsAdmitted(u))
  BY <1>2, <1>3, Zenon DEF Holds, IsAdmitted
<1>5. Consent!Quiescent
  BY <1>3, <1>4, StageOf, Zenon DEF Consent!Quiescent
<1>6. Consent!Move(t, "unused", "offered")
  BY <1>1, <1>2, <1>3, <1>4, StageOf, StageAfter, StageMoves
<1> QED BY <1>5, <1>6, Zenon DEF Consent!Next, Consent!Offer

LEMMA RunRefines ==
    ASSUME AllInv, NEW c \in Callers, NEW t \in handed, Run(c, t)
    PROVE [Consent!Next]_(Consent!consent)
<1>1. CASE ~(Live(pending) /\ ~busy /\ mono >= notBefore)
  <2>1. Quiet
    BY <1>1, Zenon DEF Run, Quiet, tickets, entry, result
  <2> QED BY <2>1, QuietRefines, Zenon
<1>2. CASE Live(pending) /\ ~busy /\ mono >= notBefore
  <2>1. /\ pending # None /\ pending.ticket = t /\ t \in Tickets /\ t \in issued /\ pending' = None
        /\ admissions' = admissions \cup {[run |-> t, at |-> mono]}
        /\ UNCHANGED <<issued, audit, executions>> /\ review'[c] = pending
        /\ \A d \in Callers : review[d] = None
        /\ \A d \in Callers \ {c} : review'[d] = review[d]
    <3>1. /\ pending # None /\ pending.ticket = t /\ pending' = None /\ pc[c] = "idle"
          /\ admissions' = admissions \cup {[run |-> t, at |-> mono]}
          /\ UNCHANGED <<issued, audit, executions>>
      BY <1>2, Zenon DEF Run, tickets
    <3>2. review \in [Callers -> Reviews \cup {None}] /\ review' = [review EXCEPT ![c] = pending]
      BY <1>2, Zenon DEF Run, AllInv, RunInv, Typed, TypeOK
    <3>3. t \in Tickets /\ t \in issued
      BY <3>1, Zenon DEF AllInv, RunInv, Typed, TypeOK, Reviews, TicketsOnce
    <3>4. \A d \in Callers : review[d] = None
      BY <1>2, <3>1, Zenon DEF AllInv, RunInv, OneOperation, Reserved, Consented
    <3> QED BY <3>1, <3>2, <3>3, <3>4
  <2>2. \A u : IsAdmitted(u)' <=> IsAdmitted(u) \/ u = t
    <3>1. [run |-> t, at |-> mono].run = t /\ [run |-> t, at |-> mono] \in admissions'
      BY <2>1, Zenon
    <3>2. \A a \in admissions' : a \in admissions \/ a.run = t
      BY <2>1
    <3>3. admissions \subseteq admissions'
      BY <2>1, Zenon
    <3> QED BY <3>1, <3>2, <3>3, Zenon DEF IsAdmitted
  <2>3. \A u : ~Holds(u) /\ (Holds(u)' <=> u = t)
    BY <2>1, Zenon DEF Holds
  <2>4. Consent!Move(t, "offered", "granted")
    BY <2>1, <2>2, <2>3, StageOf, StageAfter, StageMoves, Zenon
  <2> QED BY <2>1, <2>4, Zenon DEF Consent!Next, Consent!Grant
<1> QED BY <1>1, <1>2, Zenon

(* A caller that lets go of its review ends the run, unless the review is   *)
(* the pending one; so does the death of the process.                       *)
LEMMA LettingGoRefines ==
    ASSUME AllInv, NEW c \in Callers, pc[c] # "idle", \A d \in Callers : review'[d] = None,
           pending' = pending \/ (pending' = None /\ pending = None),
           UNCHANGED <<issued, admissions, audit, executions>>
    PROVE [Consent!Next]_(Consent!consent)
<1> USE StageOf, StageAfter
<1>1. \A u : (IsAdmitted(u)' <=> IsAdmitted(u)) /\ ~Holds(u)'
  BY Zenon DEF IsAdmitted, Holds
<1>2. \A d \in Callers \ {c} : review[d] = None
  BY OneReview, Zenon
<1>3. CASE review[c] # None /\ pending = None /\ IsAdmitted(review[c].ticket)
  <2>1. /\ review[c].ticket \in Tickets /\ review[c].ticket \in issued
        /\ \A u : Holds(u) <=> u = review[c].ticket
    BY <1>2, <1>3, Zenon DEF AllInv, RunInv, Typed, TypeOK, Reviews, TicketsOnce, Holds
  <2>2. Consent!Move(review[c].ticket, "granted", "spent")
    BY <1>1, <1>3, <2>1, StageMoves
  <2> QED BY <2>1, <2>2 DEF Consent!Next, Consent!End
<1>4. CASE ~(review[c] # None /\ pending = None /\ IsAdmitted(review[c].ticket))
  <2>1. \A u \in Tickets : IsAdmitted(u) /\ Holds(u) => pending # None /\ pending.ticket = u
    BY <1>2, <1>4, Zenon DEF Holds, AllInv, Consented
  <2> QED BY <1>1, <2>1, StageStays
<1> QED BY <1>3, <1>4, Zenon

LEMMA ReleaseRefines ==
    ASSUME AllInv, NEW c \in Callers, Release(c) PROVE [Consent!Next]_(Consent!consent)
<1>1. \A d \in Callers : review'[d] = None
  BY OneReview DEF Release, Forget, AllInv, RunInv, Typed, TypeOK
<1> QED BY <1>1, LettingGoRefines DEF Release, history

LEMMA RestartRefines == ASSUME AllInv, Restart PROVE [Consent!Next]_(Consent!consent)
<1>1. /\ \A d \in Callers : review'[d] = None
      /\ pending' = None /\ UNCHANGED <<issued, admissions, audit, executions>>
  BY Zenon DEF Restart, Nothing, history
<1>2. CASE pending = None /\ \E c \in Callers : pc[c] # "idle"
  BY <1>1, <1>2, LettingGoRefines, Zenon
<1>3. CASE pending # None \/ \A c \in Callers : pc[c] = "idle"
  <2>1. \A u : (IsAdmitted(u)' <=> IsAdmitted(u)) /\ ~Holds(u)'
    BY <1>1, Zenon DEF IsAdmitted, Holds
  <2>2. \A u : IsAdmitted(u) => ~Holds(u)
    BY <1>3, Zenon DEF Holds, IsAdmitted, AllInv, Consented, RunInv, TicketsOnce
  <2>3. CASE pending = None
    BY <1>1, <2>1, <2>2, <2>3, StageOf, StageAfter, StageStays
  <2>4. CASE pending # None
    <3>1. pending.ticket \in Tickets /\ pending.ticket \in issued
      BY <2>4, Zenon DEF AllInv, RunInv, Typed, TypeOK, Reviews, TicketsOnce
    <3>2. Consent!Move(pending.ticket, "offered", "spent")
      BY <1>1, <2>1, <2>2, <2>4, <3>1, StageOf, StageAfter, StageMoves
    <3> QED BY <3>1, <3>2, Zenon DEF Consent!Next, Consent!Withdraw
  <2> QED BY <2>3, <2>4, Zenon
<1> QED BY <1>2, <1>3, Zenon

LEMMA StagesKept ==
    ASSUME UNCHANGED <<issued, pending, review, admissions>>
    PROVE \A u : ConsentStage(u)' = ConsentStage(u)
  BY Zenon DEF ConsentStage

(* The ticket of an active run is granted. *)
LEMMA Granted ==
    ASSUME AllInv, NEW c \in Callers, pc[c] \in RunPhases
    PROVE /\ review[c].ticket \in Tickets /\ pending = None
          /\ ConsentStage(review[c].ticket) = "granted"
<1>1. review[c] \in Reviews /\ review[c] # None /\ review[c].ticket \in Tickets
  BY ReviewAssumption, Zenon DEF AllInv, RunInv, Typed, LocalsSet, Reviews
<1>2. review[c].ticket \in issued
  BY <1>1, Zenon DEF AllInv, RunInv, TicketsOnce
<1>3. pending = None
  BY Zenon DEF AllInv, Held, RunPhases
<1>4. IsAdmitted(review[c].ticket)
  <2>1. [run |-> review[c].ticket, at |-> start[c].mono] \in admissions
    BY Zenon DEF AllInv, RunInv, Admitted
  <2> QED BY <2>1, Zenon DEF IsAdmitted
<1>5. Holds(review[c].ticket)
  BY <1>1, Zenon DEF Holds
<1> QED BY <1>1, <1>2, <1>3, <1>4, <1>5, StageOf

LEMMA InsertRefines ==
    ASSUME AllInv, NEW c \in Callers, NEW from, NEW state, NEW to,
           Record(from, state, to), Insert(c, from, state, to)
    PROVE [Consent!Next]_(Consent!consent)
<1> DEFINE e == Event(c, state)
           t == review[c].ticket
<1> HIDE DEF e
<1>0. InsertEffect(c, from, state, to)
  BY InsertFacts
<1>1. /\ pc[c] = from /\ UNCHANGED <<issued, pending, review, admissions, executions>>
      /\ e.run = t /\ e.state = state
      /\ \/ audit' = audit \cup {e} /\ \A f \in audit : f.run # t \/ f.state # state
         \/ audit' = audit
  BY <1>0, Zenon DEF InsertEffect, e
<1>2. t \in Tickets /\ ConsentStage(t) = "granted" /\ \A u : ConsentStage(u)' = ConsentStage(u)
  BY <1>1, Granted, StagesKept, Zenon DEF Record, RunPhases
<1>3. CASE audit' = audit
  BY <1>1, <1>2, <1>3, StageStays, Zenon
<1>4. CASE audit' = audit \cup {e} /\ \A f \in audit : f.run # t \/ f.state # state
  <2> DEFINE led == [u \in Tickets |-> {f.state : f \in EventsOf(u)}]
  <2>1. state \notin led[t]
    BY <1>2, <1>4, Zenon DEF EventsOf
  <2>2. "finished" \notin led[t]
    BY <1>1, <1>2, Zenon DEF EventsOf, AllInv, Consented, Recorded, Record, RunPhases
  <2>3. state # "authorized" => "authorized" \in led[t]
    <3> SUFFICES ASSUME state # "authorized" PROVE "authorized" \in led[t]
      BY Zenon
    <3>1. Recorded(t, "authorized") # {}
      BY <1>1, Zenon DEF AllInv, Consented, Record, Authorised, RunPhases
    <3> QED BY <1>2, <3>1, Zenon DEF Recorded, EventsOf
  <2>4. led' = [led EXCEPT ![t] = @ \cup {state}]
    <3>1. EventsOf(t)' = EventsOf(t) \cup {e}
      BY <1>1, <1>4, Zenon DEF EventsOf
    <3>2. \A u \in Tickets \ {t} : EventsOf(u)' = EventsOf(u)
      BY <1>1, <1>4, Zenon DEF EventsOf
    <3>3. {f.state : f \in EventsOf(t)'} = {f.state : f \in EventsOf(t)} \cup {state}
      BY <1>1, <3>1, Zenon
    <3> QED BY <1>1, <1>2, <3>2, <3>3
  <2>5. state \in {"authorized", "admitted", "finished"}
    BY Zenon DEF Record
  <2>6. Consent!Log(t, state)
    BY <1>1, <1>2, <2>1, <2>2, <2>3, <2>4 DEF Consent!Log
  <2> QED BY <1>2, <2>5, <2>6, Zenon DEF Consent!Next
<1> QED BY <1>1, <1>3, <1>4

(* The ledger of a run that is about to execute holds its two admissions.   *)
LEMMA LaunchRefines ==
    ASSUME AllInv, NEW c \in Callers, Launch(c), pc'[c] = "execute"
    PROVE [Consent!Next]_(Consent!consent)
<1> DEFINE t == review[c].ticket
           x == [run |-> t, at |-> mono, selection |-> fresh[c]]
<1>1. /\ pc[c] = "launch" /\ executions' = executions \cup {x}
      /\ UNCHANGED <<issued, pending, review, admissions, audit>>
  BY Zenon DEF Launch, Finish, Goto, entry, tickets, AllInv, RunInv, Typed, TypeOK
<1>2. t \in Tickets /\ ConsentStage(t) = "granted" /\ \A u : ConsentStage(u)' = ConsentStage(u)
  BY <1>1, Granted, StagesKept DEF RunPhases
<1>3. {e.state : e \in EventsOf(t)} = {"authorized", "admitted"}
  <2>1. /\ \E e \in EventsOf(t) : e.state = "authorized"
        /\ \E e \in EventsOf(t) : e.state = "admitted"
    BY <1>1, Zenon DEF EventsOf, Recorded, AllInv, Trailed
  <2>2. \A e \in EventsOf(t) : e.state # "finished"
    BY <1>1, Zenon DEF EventsOf, Recorded, AllInv, Consented, RunPhases
  <2>3. \A e \in EventsOf(t) : e.state \in {"authorized", "admitted", "finished"}
    BY Zenon DEF EventsOf, AllInv, RunInv, Typed, TypeOK, Events, Phases
  <2> QED BY <2>1, <2>2, <2>3
<1>4. t \notin {y.run : y \in executions}
  BY <1>1, Zenon DEF AllInv, RunInv, Admitted, BeforeExecution, RunPhases
<1>5. {y.run : y \in executions'} = {y.run : y \in executions} \cup {t}
  <2>1. x.run = t
    BY Zenon
  <2> HIDE DEF x
  <2> QED BY <1>1, <2>1
<1>6. PICK u \in Tickets : u = t
  BY <1>2, Zenon
<1>7. Consent!Perform(u)
  BY <1>1, <1>2, <1>3, <1>4, <1>5, <1>6 DEF Consent!Perform, EventsOf
<1> QED BY <1>7, Zenon DEF Consent!Next

LEMMA StepRefines == AllInv /\ [Next]_vars => [Consent!Next]_(Consent!consent)
<1> SUFFICES ASSUME AllInv, [Next]_vars PROVE [Consent!Next]_(Consent!consent)
  BY Zenon
<1>1. ASSUME NEW c \in Callers, Inserts(c) PROVE [Consent!Next]_(Consent!consent)
  BY <1>1, InsertRefines DEF Inserts, InsertAuthorized, InsertAdmitted, InsertFinished, Record
<1> QED BY <1>1, ConsentFrame, QuietRefines, IssueRefines, ReleaseRefines, RestartRefines,
           RunRefines, LaunchRefines DEF AllInv

(* Prepare, Run and everything that can interrupt them (cancellation, an    *)
(* expired review, a failed insert or clock, a panic, Close, a restart)     *)
(* implement the one-shot consent: every step of the control is a step of   *)
(* OneShotConsent or leaves what it talks about alone.                      *)
THEOREM ImplementsOneShot == Spec => ImplementsConsent
<1>1. Init => Consent!Init
  BY Zenon DEF Init, history, Consent!Init, ConsentStage, EventsOf
<1> QED BY <1>1, AllInvariance, StepRefines, PTL DEF Spec, ImplementsConsent, Consent!Spec

-------------------------------------------------------------------------------
(* The trail can be read *)

(* Where a caller may hold a measurement. *)
Concluding == {"finish", "finishing", "release"}

(* A verdict and the measurement it is recorded with. *)
Sound(outcome, m) ==
    /\ outcome = "completed" => m # None /\ m.complete
    /\ outcome \in {"blocked", "indeterminate"} => m = None
    /\ (outcome = "failed" /\ Kind = "gateway" /\ m # None) => ~m.complete

(* Two events of one run, told in order. *)
InOrder(e, f) ==
    /\ e.selection = f.selection
    /\ e.state = f.state => e = f
    /\ e.state = "authorized" => e.at <= f.at
    /\ e.state = "admitted" /\ f.state = "finished" => e.at <= f.at
    /\ e.state # "finished" /\ f.state = "finished" /\ f.measurement # None =>
          e.at <= f.measurement.started

(* What was recorded of a run in progress, next to what its caller holds.   *)
Foreruns(e, c) ==
    /\ e.selection = review[c].selection /\ e.at <= lastWall
    /\ e.state = "authorized" => pc[c] \notin {"authorize", "authorizing"}
    /\ e.state = "admitted" => pc[c] \in {"launch", "execute", "finish", "finishing"}
    /\ e.state # "finished"
    /\ pc[c] \in {"authorizing", "admitting", "execute", "finishing"} => e.at <= seen[c]
    /\ measured[c] # None => e.at <= measured[c].started

Narrates(c) ==
    /\ pc[c] \notin Concluding => measured[c] = None
    /\ pc[c] \in RunPhases => \A e \in EventsOf(review[c].ticket) : Foreruns(e, c)
    /\ pc[c] \in {"authorizing", "admitting", "execute", "finishing"} => seen[c] <= lastWall
    /\ pc[c] \in {"finish", "finishing"} =>
          /\ Sound(verdict[c], measured[c])
          /\ measured[c] # None => measured[c].started <= lastWall
    /\ pc[c] = "finishing" /\ measured[c] # None => measured[c].started <= seen[c]

(* However a run was interrupted, its events so far tell one story, and     *)
(* what its caller holds continues it.                                      *)
Narrated ==
    /\ \A e \in audit : ValidateEvent(e)
    /\ \A e, f \in audit : e.run = f.run => InOrder(e, f)
    /\ \A c \in Callers : Narrates(c)

(* A caller that does not run anything has nothing to tell. *)
LEMMA Silent ==
    ASSUME NEW c \in Callers, pc'[c] \in {"idle", "inspect", "release"},
           pc'[c] # "release" => measured'[c] = None
    PROVE Narrates(c)'
  BY Zenon DEF Narrates, Concluding, RunPhases

(* While c holds the reservation the others are idle, and stay so. *)
LEMMA OthersSilent ==
    ASSUME AllInv, Narrated, NEW c \in Callers, pc[c] # "idle", NEW where, Goto(c, where),
           \A d \in Callers \ {c} : measured'[d] = measured[d]
    PROVE \A d \in Callers \ {c} : Narrates(d)'
<1> SUFFICES ASSUME NEW d \in Callers \ {c} PROVE Narrates(d)'
  BY Zenon
<1>1. pc[d] = "idle"
  BY OneReview, Zenon
<1>2. pc'[d] = "idle"
  BY <1>1, PcType DEF AllInv, RunInv, Goto
<1>3. measured'[d] = None
  BY <1>1, Zenon DEF Narrated, Narrates, Concluding
<1> QED BY <1>2, <1>3, Silent

(* A step that records nothing, by c. *)
LEMMA Unrecorded ==
    ASSUME AllInv, Narrated, NEW c \in Callers, pc[c] # "idle", NEW where, Goto(c, where),
           \A d \in Callers \ {c} : measured'[d] = measured[d],
           audit' = audit, Narrates(c)'
    PROVE Narrated'
<1>1. \A d \in Callers : Narrates(d)'
  BY OthersSilent, Zenon
<1> QED BY <1>1, Zenon DEF Narrated

(* A step that moves no caller: the high-water mark never falls in it.      *)
LEMMA NobodyMoves ==
    ASSUME AllInv, Narrated, UNCHANGED <<pc, review, seen, measured, verdict, audit>>,
           lastWall' = lastWall \/ (lastWall' = wall /\ wall >= lastWall)
    PROVE Narrated'
<1>1. lastWall \in Int /\ lastWall' \in Int /\ lastWall' >= lastWall
  BY DEF AllInv, RunInv, Typed, TypeOK
<1>2. ASSUME NEW c \in Callers PROVE Narrates(c)'
  <2>1. Narrates(c)
    BY Zenon DEF Narrated
  <2>2. ASSUME pc[c] \in RunPhases, NEW e \in EventsOf(review[c].ticket) PROVE Foreruns(e, c)'
    <3>1. Foreruns(e, c) /\ e.at \in Int
      BY <2>1, <2>2 DEF Narrates, EventsOf, AllInv, RunInv, Typed, TypeOK, Events
    <3> QED BY <1>1, <3>1 DEF Foreruns
  <2>3. EventsOf(review[c].ticket)' = EventsOf(review[c].ticket)
    BY Zenon DEF EventsOf
  <2>4. pc[c] \in {"authorizing", "admitting", "execute", "finishing"} => seen[c] \in Int
    BY Zenon DEF AllInv, RunInv, Typed, LocalsSet
  <2>5. measured[c] # None => measured[c].started \in Int
    BY Zenon DEF AllInv, RunInv, Typed, TypeOK, Measurements
  <2>6. pc[c] \in {"authorizing", "admitting", "execute", "finishing"} => seen[c] <= lastWall'
    BY <1>1, <2>1, <2>4 DEF Narrates
  <2>7. pc[c] \in {"finish", "finishing"} /\ measured[c] # None => measured[c].started <= lastWall'
    BY <1>1, <2>1, <2>5 DEF Narrates
  <2> QED BY <2>1, <2>2, <2>3, <2>6, <2>7 DEF Narrates, Sound
<1> QED BY <1>2, Zenon DEF Narrated

(* The consumed ticket has told nothing yet. *)
LEMMA RunNarrates ==
    ASSUME AllInv, Narrated, NEW c \in Callers, NEW t \in handed, Run(c, t) PROVE Narrated'
<1>1. CASE ~(Live(pending) /\ ~busy /\ mono >= notBefore)
  <2>1. /\ UNCHANGED <<pc, review, seen, measured, verdict, audit>>
        /\ lastWall' = wall /\ wall >= lastWall
    BY <1>1 DEF Run, entry, result, ClockReads
  <2> QED BY <2>1, NobodyMoves
<1>2. CASE Live(pending) /\ ~busy /\ mono >= notBefore
  <2>1. /\ pending # None /\ pending.ticket = t /\ pc[c] = "idle"
        /\ UNCHANGED <<measured, audit>>
        /\ review' = [review EXCEPT ![c] = pending] /\ Goto(c, "authorize")
    BY <1>2 DEF Run, result
  <2>2. pc'[c] = "authorize" /\ review'[c] = pending
    BY <2>1, PcType, EntryType DEF AllInv, RunInv, Goto
  <2>3. \A d \in Callers : pc[d] = "idle" /\ measured[d] = None
    BY <1>2, Zenon DEF AllInv, RunInv, OneOperation, Reserved, Narrated, Narrates, Concluding
  <2>4. \A e \in audit : e.run # t
    <3>1. ~IsAdmitted(t)
      BY <2>1, Zenon DEF IsAdmitted, TicketsOnce, AllInv, RunInv
    <3> QED BY <3>1 DEF AllInv, Consented
  <2>5. EventsOf(review[c].ticket)' = {}
    BY <2>1, <2>2, <2>4 DEF EventsOf
  <2>6. Narrates(c)'
    BY <2>1, <2>2, <2>3, <2>5 DEF Narrates
  <2>7. ASSUME NEW d \in Callers \ {c} PROVE Narrates(d)'
    <3>1. pc'[d] = "idle" /\ measured'[d] = None
      BY <2>1, <2>3, PcType DEF AllInv, RunInv, Goto
    <3> QED BY <3>1, Silent
  <2> QED BY <2>1, <2>6, <2>7 DEF Narrated
<1> QED BY <1>1, <1>2

(* What was told of c's run, next to the types of what c holds. *)
LEMMA Told ==
    ASSUME AllInv, Narrated, NEW c \in Callers, pc[c] \in RunPhases
    PROVE /\ \A e \in EventsOf(review[c].ticket) :
                Foreruns(e, c) /\ e.at \in Int /\ e \in audit /\ e.run = review[c].ticket
          /\ lastWall \in Int /\ wall \in Int
          /\ measured[c] # None => measured[c].started \in Int
          /\ pc \in [Callers -> Stages] /\ measured \in [Callers -> Measurements \cup {None}]
  BY Zenon DEF Narrated, Narrates, EventsOf, AllInv, RunInv, Typed, TypeOK, Events, Measurements

(* record reads the clock: no event of the run is later. *)
LEMMA TimeNarrates ==
    ASSUME AllInv, Narrated, NEW c \in Callers, NEW from, NEW to, RecordTime(c, from, to),
           \/ from = "authorize" /\ to = "authorizing"
           \/ from = "admit" /\ to = "admitting"
           \/ from = "finish" /\ to = "finishing"
    PROVE Narrated'
<1>1. /\ pc[c] = from /\ Goto(c, to) /\ wall >= lastWall /\ lastWall' = wall
      /\ seen' = [seen EXCEPT ![c] = wall]
      /\ UNCHANGED <<review, measured, verdict, audit>>
  BY Zenon DEF RecordTime, ClockReads, entry, result
<1>2. pc[c] \in RunPhases /\ pc[c] # "idle" /\ Narrates(c)
  BY <1>1, Zenon DEF RunPhases, Narrated
<1>3. pc'[c] = to /\ seen'[c] = wall
  <2>1. seen \in [Callers -> Int \cup {None}]
    BY Zenon DEF AllInv, RunInv, Typed, TypeOK
  <2> QED BY <1>1, <1>2, <2>1, Told DEF Goto
<1>4. EventsOf(review[c].ticket)' = EventsOf(review[c].ticket)
  BY <1>1, Zenon DEF EventsOf
<1>5. ASSUME NEW e \in EventsOf(review[c].ticket) PROVE Foreruns(e, c)'
  <2>1. /\ Foreruns(e, c) /\ e.at \in Int /\ lastWall \in Int /\ wall \in Int
    BY <1>2, Told
  <2>2. e.at <= wall
    BY <1>1, <2>1 DEF Foreruns
  <2>3. e.state = "authorized" => to # "authorizing"
    BY <1>1, <2>1 DEF Foreruns
  <2>4. e.state = "admitted" => to = "finishing"
    BY <1>1, <2>1 DEF Foreruns
  <2> QED BY <1>1, <1>3, <2>1, <2>2, <2>3, <2>4 DEF Foreruns
<1>6. measured[c] # None /\ pc'[c] = "finishing" => measured[c].started <= wall
  BY <1>1, <1>2, <1>3, Told DEF Narrates
<1>7. wall <= wall
  BY <1>2, Told
<1>8. pc'[c] \notin Concluding => measured'[c] = None
  BY <1>1, <1>2, <1>3, Zenon DEF Narrates, Concluding
<1>9. pc'[c] \in {"finish", "finishing"} => Sound(verdict[c], measured[c])
  BY <1>1, <1>2, <1>3 DEF Narrates
<1>10. Narrates(c)'
  BY <1>1, <1>3, <1>4, <1>5, <1>6, <1>7, <1>8, <1>9 DEF Narrates, Sound
<1> QED BY <1>1, <1>2, <1>10, Unrecorded

(* Run goes on, or ends without a measurement, between two records. *)
LEMMA PassageNarrates ==
    ASSUME AllInv, Narrated, NEW c \in Callers, pc[c] \in {"revalidate", "launch", "execute"},
           lastWall' = lastWall \/ (lastWall' = wall /\ wall >= lastWall),
           UNCHANGED <<review, measured, audit>>, NEW where, Goto(c, where),
           \/ where = "finish" /\ verdict'[c] # "completed"
           \/ where = "admit" /\ pc[c] = "revalidate"
           \/ where = "execute" /\ pc[c] = "launch" /\ lastWall' = wall /\ seen'[c] = wall
    PROVE Narrated'
<1>1. pc[c] \in RunPhases /\ pc[c] # "idle" /\ Narrates(c) /\ measured[c] = None
  BY Zenon DEF RunPhases, Narrated, Narrates, Concluding
<1>2. pc'[c] = where /\ measured'[c] = None /\ where \in RunPhases
  BY <1>1, Told DEF Goto, RunPhases
<1>3. EventsOf(review[c].ticket)' = EventsOf(review[c].ticket)
  BY Zenon DEF EventsOf
<1>4. ASSUME NEW e \in EventsOf(review[c].ticket) PROVE Foreruns(e, c)'
  <2>1. /\ Foreruns(e, c) /\ e.at \in Int /\ lastWall \in Int /\ wall \in Int
    BY <1>1, Told
  <2>2. e.at <= lastWall'
    BY <2>1 DEF Foreruns
  <2>3. e.state = "admitted" => pc[c] # "revalidate"
    BY <2>1, Zenon DEF Foreruns
  <2>4. where = "execute" => e.at <= seen'[c]
    BY <2>2, Zenon
  <2> QED BY <1>2, <2>1, <2>2, <2>3, <2>4 DEF Foreruns
<1>5. where = "execute" => seen'[c] <= lastWall'
  BY <1>1, Told
<1>6. where = "finish" => Sound(verdict'[c], None)
  BY Zenon DEF Sound
<1>7. Narrates(c)'
  BY <1>2, <1>3, <1>4, <1>5, <1>6, Zenon DEF Narrates, Sound
<1> QED BY <1>1, <1>7, Unrecorded

(* The verdict on what the executor returned fits what is kept of it. *)
LEMMA VerdictSound ==
    ASSUME NEW c \in Callers, NEW sample \in Samples(c), NEW err \in Errors,
           seen[c] \in Int, wall \in Int, NEW m,
           m = IF sample = None \/ ~ValidSample(c, sample, err) THEN None
               ELSE [started |-> sample.started, complete |-> Complete(sample)]
    PROVE /\ Sound(Verdict(c, sample, err), m)
          /\ m # None => m.started \in Int /\ seen[c] <= m.started /\ m.started <= wall
<1>1. CASE m = None
  <2>1. Verdict(c, sample, err) # "completed"
    <3>1. CASE sample = None
      BY <3>1, Zenon DEF Verdict, ValidSample, TimeoutIsEvidence
    <3>2. CASE sample # None /\ ValidSample(c, sample, err)
      <4>1. Complete(sample) \in BOOLEAN /\ sample.started \in Int
        BY <3>2 DEF Samples, Complete
      <4> QED BY <1>1, <3>2, <4>1, MeasurementAssumption
    <3>3. CASE ~ValidSample(c, sample, err)
      BY <3>3, Zenon DEF Verdict
    <3> QED BY <3>1, <3>2, <3>3
  <2> QED BY <1>1, <2>1 DEF Sound
<1>2. CASE m # None
  <2>1. /\ sample # None /\ ValidSample(c, sample, err)
        /\ m = [started |-> sample.started, complete |-> Complete(sample)]
    BY <1>2, Zenon
  <2>2. /\ sample.started \in (seen[c] - 1)..wall /\ sample.started >= seen[c]
        /\ Kind = "gateway" => (Complete(sample) <=> err = "none")
        /\ err = "none" => Complete(sample)
    BY <2>1 DEF Samples, ValidSample
  <2>3. m.started = sample.started /\ m.complete = Complete(sample)
    BY <2>1
  <2>4. Verdict(c, sample, err) = "completed" => Complete(sample)
    BY <2>1, <2>2 DEF Verdict, TimeoutIsEvidence, Complete
  <2>5. Verdict(c, sample, err) = "failed" => err # "none"
    BY <2>1, Zenon DEF Verdict
  <2>6. Verdict(c, sample, err) \notin {"blocked", "indeterminate"}
    BY Zenon DEF Verdict
  <2>7. Sound(Verdict(c, sample, err), m)
    BY <1>2, <2>2, <2>3, <2>4, <2>5, <2>6 DEF Sound
  <2> QED BY <2>2, <2>3, <2>7
<1> QED BY <1>1, <1>2, Zenon

LEMMA ReturnNarrates ==
    ASSUME AllInv, Narrated, NEW c \in Callers, ExecutorReturns(c) PROVE Narrated'
<1>1. /\ pc[c] = "execute" /\ wall >= lastWall /\ lastWall' = wall /\ Goto(c, "finish")
      /\ UNCHANGED <<review, audit>>
  BY Zenon DEF ExecutorReturns, ClockReads, Finish, entry
<1>2. pc[c] \in RunPhases /\ pc[c] # "idle" /\ Narrates(c) /\ seen[c] \in Int
  BY <1>1, Zenon DEF RunPhases, Narrated, AllInv, RunInv, Typed, LocalsSet
<1>3. PICK sample \in Samples(c), err \in Errors :
        /\ verdict' = [verdict EXCEPT ![c] = Verdict(c, sample, err)]
        /\ measured' = [measured EXCEPT ![c] =
              IF sample = None \/ ~ValidSample(c, sample, err) THEN None
              ELSE [started |-> sample.started, complete |-> Complete(sample)]]
  BY Zenon DEF ExecutorReturns, Finish
<1> DEFINE m == IF sample = None \/ ~ValidSample(c, sample, err) THEN None
                ELSE [started |-> sample.started, complete |-> Complete(sample)]
<1>4. verdict'[c] = Verdict(c, sample, err) /\ measured'[c] = m
  <2>1. verdict \in [Callers -> Outcomes \cup {None}] /\ measured \in [Callers -> Measurements \cup {None}]
    BY Zenon DEF AllInv, RunInv, Typed, TypeOK
  <2> QED BY <1>3, <2>1
<1>5. /\ Sound(Verdict(c, sample, err), m)
      /\ m # None => m.started \in Int /\ seen[c] <= m.started /\ m.started <= wall
  <2>1. wall \in Int
    BY <1>2, Told
  <2> QED BY <1>2, <2>1, VerdictSound
<1> HIDE DEF m
<1>6. pc'[c] = "finish"
  BY <1>1, <1>2, Told DEF Goto
<1>7. EventsOf(review[c].ticket)' = EventsOf(review[c].ticket)
  BY <1>1, Zenon DEF EventsOf
<1>8. ASSUME NEW e \in EventsOf(review[c].ticket) PROVE Foreruns(e, c)'
  <2>1. /\ Foreruns(e, c) /\ e.at \in Int /\ lastWall \in Int /\ wall \in Int
    BY <1>2, Told
  <2>2. e.at <= wall /\ e.at <= seen[c]
    BY <1>1, <2>1 DEF Foreruns
  <2>3. m # None => e.at <= m.started
    BY <1>2, <1>5, <2>1, <2>2
  <2> QED BY <1>1, <1>4, <1>6, <2>1, <2>2, <2>3 DEF Foreruns
<1>9. Narrates(c)'
  BY <1>1, <1>4, <1>5, <1>6, <1>7, <1>8 DEF Narrates, Concluding, Sound
<1>10. \A d \in Callers \ {c} : measured'[d] = measured[d]
  BY <1>2, <1>3, Told
<1> QED BY <1>1, <1>2, <1>9, <1>10, Unrecorded

(* An event that is stored continues the story of its run. *)
LEMMA EventContinues ==
    ASSUME AllInv, Narrated, NEW c \in Callers, NEW from, NEW state, NEW to,
           Record(from, state, to), pc[c] = from, NEW f \in audit, f.run = review[c].ticket,
           f.state # state
    PROVE InOrder(f, Event(c, state)) /\ InOrder(Event(c, state), f)
<1> DEFINE e == Event(c, state)
<1>1. /\ e.state = state /\ e.at = seen[c] /\ e.selection = review[c].selection
      /\ e.measurement = IF state = "finished" THEN measured[c] ELSE None
  BY Zenon DEF Event
<1> HIDE DEF e
<1>2. pc[c] \in RunPhases /\ f \in EventsOf(review[c].ticket)
  BY Zenon DEF Record, RunPhases, EventsOf
<1>3. Foreruns(f, c)
  BY <1>2, Told
<1>4. f.state \in {"authorized", "admitted", "finished"}
  BY Zenon DEF AllInv, RunInv, Typed, TypeOK, Events, Phases
<1>5. /\ f.selection = e.selection /\ f.at <= e.at
      /\ f.state = "authorized" \/ (f.state = "admitted" /\ state = "finished")
      /\ state # "authorized"
      /\ e.measurement # None => f.at <= e.measurement.started
  BY <1>1, <1>3, <1>4 DEF Foreruns, Record
<1>6. InOrder(f, e)
  BY <1>1, <1>5 DEF InOrder
<1>7. InOrder(e, f)
  BY <1>1, <1>5 DEF InOrder, Record
<1> QED BY <1>6, <1>7 DEF e

LEMMA InsertNarrates ==
    ASSUME AllInv, Narrated, NEW c \in Callers, NEW from, NEW state, NEW to,
           Record(from, state, to), Insert(c, from, state, to)
    PROVE Narrated'
<1> DEFINE e == Event(c, state)
           t == review[c].ticket
<1>1. InsertEffect(c, from, state, to) /\ pc[c] = from
  BY InsertFacts DEF Insert
<1>2. UNCHANGED <<review, seen, measured, verdict, lastWall>>
  BY Zenon DEF Insert, locals, entry, result
<1>3. \/ /\ audit' = audit \cup {e} /\ ValidateEvent(e)
         /\ \A f \in audit : f.run # t \/ f.state # state
      \/ audit' = audit /\ pc'[c] = "release"
  <2>1. audit' = audit \/ (audit' = audit \cup {e} /\ ValidateEvent(e))
    BY Zenon DEF Insert
  <2> QED BY <1>1, <2>1 DEF InsertEffect
<1>4. e.run = t /\ e.state = state /\ e.at = seen[c] /\ e.selection = review[c].selection
  BY Zenon DEF Event
<1>5. \A f \in audit : f.run = t /\ f.state # state => InOrder(f, e) /\ InOrder(e, f)
  BY <1>1, EventContinues
<1> HIDE DEF e, t
<1>6. pc[c] \in RunPhases /\ seen[c] \in Int /\ seen[c] <= lastWall
  BY <1>1 DEF Record, RunPhases, AllInv, RunInv, Typed, LocalsSet, Narrated, Narrates
<1>7. InOrder(e, e)
  <2>1. e.at <= e.at
    BY <1>4, <1>6
  <2> QED BY <2>1 DEF InOrder
<1>8. \A f \in audit' : ValidateEvent(f)
  BY <1>3 DEF Narrated
<1>9. \A f, g \in audit' : f.run = g.run => InOrder(f, g)
  <2>1. \A f, g \in audit : f.run = g.run => InOrder(f, g)
    BY Zenon DEF Narrated
  <2> QED BY <1>3, <1>4, <1>5, <1>7, <2>1
<1>10. Narrates(c)'
  <2>1. CASE pc'[c] = "release"
    BY <2>1, Silent
  <2>2. CASE pc'[c] # "release"
    <3>1. /\ pc'[c] = to /\ audit' = audit \cup {e}
          /\ \/ pc[c] = "authorizing" /\ state = "authorized" /\ to = "revalidate"
             \/ pc[c] = "admitting" /\ state = "admitted" /\ to = "launch"
      BY <1>1, <1>3, <2>2 DEF InsertEffect, Record
    <3>2. measured[c] = None
      BY <3>1 DEF Narrated, Narrates, Concluding
    <3>3. ASSUME NEW f \in EventsOf(review[c].ticket)' PROVE Foreruns(f, c)'
      <4>1. CASE f = e
        BY <1>2, <1>4, <1>6, <3>1, <3>2, <4>1 DEF Foreruns
      <4>2. CASE f # e
        <5>1. f \in EventsOf(review[c].ticket)
          BY <1>2, <3>1, <3>3, <4>2 DEF EventsOf
        <5>2. Foreruns(f, c)
          BY <1>6, <5>1, Told
        <5> QED BY <1>2, <3>1, <3>2, <5>2 DEF Foreruns
      <4> QED BY <4>1, <4>2
    <3> QED BY <1>2, <3>1, <3>2, <3>3 DEF Narrates
  <2> QED BY <2>1, <2>2
<1>11. ASSUME NEW d \in Callers \ {c} PROVE Narrates(d)'
  <2>1. pc'[d] = "idle" /\ pc[d] = "idle"
    BY <1>1, Zenon DEF InsertEffect
  <2>2. measured'[d] = None
    BY <1>2, <2>1 DEF Narrated, Narrates, Concluding
  <2> QED BY <2>1, <2>2, Silent
<1> QED BY <1>8, <1>9, <1>10, <1>11 DEF Narrated

(* The steps in which a caller enters or leaves without running. *)
LEMMA LeavingNarrates ==
    ASSUME AllInv, Narrated, NEW c \in Callers, NEW where \in {"idle", "inspect", "release"},
           Goto(c, where), audit' = audit,
           \A d \in Callers \ {c} : measured'[d] = measured[d],
           pc[c] = "idle" => where # "release" /\ ~busy /\ measured' = measured,
           where # "release" => measured'[c] = None
    PROVE Narrated'
<1>1. pc'[c] = where
  BY PcType, Zenon DEF AllInv, RunInv, Goto
<1>2. Narrates(c)'
  BY <1>1, Silent
<1>3. CASE pc[c] # "idle"
  BY <1>2, <1>3, Unrecorded
<1>4. CASE pc[c] = "idle"
  <2>1. ASSUME NEW d \in Callers \ {c} PROVE Narrates(d)'
    <3>1. pc[d] = "idle"
      BY <1>4, Zenon DEF AllInv, RunInv, OneOperation, Reserved
    <3>2. pc'[d] = "idle"
      BY <3>1, PcType DEF AllInv, RunInv, Goto
    <3>3. measured'[d] = None
      BY <3>1 DEF Narrated, Narrates, Concluding
    <3> QED BY <3>2, <3>3, Silent
  <2> QED BY <1>2, <2>1 DEF Narrated
<1> QED BY <1>3, <1>4

LEMMA RestartNarrates == ASSUME Narrated, Restart PROVE Narrated'
<1>1. ASSUME NEW c \in Callers PROVE Narrates(c)'
  <2>1. pc'[c] = "idle" /\ measured'[c] = None
    BY Zenon DEF Restart, Nothing
  <2> QED BY <2>1, Silent
<1> QED BY <1>1 DEF Narrated, Restart

LEMMA NarratedStep == AllInv /\ Narrated /\ [Next]_vars => Narrated'
<1> SUFFICES ASSUME AllInv, Narrated, [Next]_vars PROVE Narrated'
  BY Zenon
<1>0. /\ \A c \in Callers : pc[c] \notin Concluding => measured[c] = None
      /\ pc \in [Callers -> Stages] /\ verdict \in [Callers -> Outcomes \cup {None}]
      /\ seen \in [Callers -> Int \cup {None}] /\ measured \in [Callers -> Measurements \cup {None}]
  BY Zenon DEF Narrated, Narrates, AllInv, RunInv, Typed, TypeOK
<1>1. ASSUME NEW c \in Callers, Refuse(c) \/ CallerCancels(c) \/ DeadlinePasses(c) PROVE Narrated'
  <2>1. /\ UNCHANGED <<pc, review, seen, measured, verdict, audit>>
        /\ lastWall' = lastWall \/ (lastWall' = wall /\ wall >= lastWall)
    BY <1>1 DEF Refuse, CallerCancels, DeadlinePasses, ClockReads, locals, entry, result, control
  <2> QED BY <2>1, NobodyMoves
<1>2. ASSUME NEW c \in Callers, Prepare(c) PROVE Narrated'
  <2>1. Goto(c, "inspect") /\ UNCHANGED <<audit, measured>> /\ ~busy /\ measured'[c] = None
    BY <1>0, <1>2 DEF Prepare, result, Concluding
  <2> QED BY <2>1, LeavingNarrates
<1>3. ASSUME NEW c \in Callers, InspectFails(c) \/ InspectRefused(c) \/ IssueReview(c) \/ AbandonRun(c)
      PROVE Narrated'
  <2>1. Goto(c, "release") /\ UNCHANGED <<audit, measured>> /\ pc[c] # "idle"
    BY <1>3 DEF InspectFails, InspectRefused, IssueReview, AbandonRun, locals, result
  <2> QED BY <2>1, LeavingNarrates
<1>4. ASSUME NEW c \in Callers, Authorize(c) \/ Admit(c) \/ Conclude(c) PROVE Narrated'
  BY <1>4, TimeNarrates DEF Authorize, Admit, Conclude
<1>5. ASSUME NEW c \in Callers, Inserts(c) PROVE Narrated'
  BY <1>5, InsertNarrates DEF Inserts, InsertAuthorized, InsertAdmitted, InsertFinished, Record
<1>6. ASSUME NEW c \in Callers, RevalidateStops(c) \/ ExecutorPanics(c) PROVE Narrated'
  <2>1. /\ pc[c] \in {"revalidate", "execute"} /\ UNCHANGED <<lastWall, review, measured, audit>>
        /\ Goto(c, "finish") /\ verdict'[c] # "completed"
    BY <1>0, <1>6 DEF RevalidateStops, ExecutorPanics, Finish, control, entry
  <2> QED BY <2>1, PassageNarrates
<1>7. ASSUME NEW c \in Callers, Revalidate(c) PROVE Narrated'
  <2>1. /\ pc[c] = "revalidate" /\ wall >= lastWall /\ lastWall' = wall
        /\ UNCHANGED <<review, measured, audit>>
        /\ Goto(c, "admit") \/ (Goto(c, "finish") /\ verdict'[c] # "completed")
    BY <1>0, <1>7 DEF Revalidate, ClockReads, Finish, entry
  <2> QED BY <2>1, PassageNarrates
<1>8. ASSUME NEW c \in Callers, Launch(c) PROVE Narrated'
  <2>1. /\ pc[c] = "launch" /\ wall >= lastWall /\ lastWall' = wall
        /\ UNCHANGED <<review, measured, audit>>
        /\ \/ Goto(c, "execute") /\ seen'[c] = wall
           \/ Goto(c, "finish") /\ verdict'[c] # "completed"
    BY <1>0, <1>8 DEF Launch, ClockReads, Finish, entry
  <2> QED BY <2>1, PassageNarrates
<1>9. ASSUME NEW c \in Callers, ClockFails(c) PROVE Narrated'
  <2>1. UNCHANGED <<audit, measured, review, seen, verdict, lastWall>>
    BY <1>9, Zenon DEF ClockFails, locals, entry, result
  <2>2. CASE pc[c] = "idle"
    <3>1. pc' = pc
      BY <1>0, <1>9, <2>2 DEF ClockFails, Goto
    <3> QED BY <2>1, <3>1, NobodyMoves
  <2>3. CASE pc[c] # "idle"
    <3>1. Goto(c, "release")
      BY <1>9, <2>3 DEF ClockFails
    <3> QED BY <2>1, <2>3, <3>1, LeavingNarrates
  <2> QED BY <2>2, <2>3
<1>10. ASSUME NEW c \in Callers, Release(c) PROVE Narrated'
  <2>1. /\ pc[c] # "idle" /\ Goto(c, "idle") /\ audit' = audit /\ measured'[c] = None
        /\ \A d \in Callers \ {c} : measured'[d] = measured[d]
    BY <1>0, <1>10 DEF Release, Forget
  <2> QED BY <2>1, LeavingNarrates
<1>11. CASE (\E t \in handed : Discard(t)) \/ Close \/ Tick \/ SetClock \/ UNCHANGED vars
  <2>1. UNCHANGED <<pc, review, seen, measured, verdict, audit, lastWall>>
    BY <1>11 DEF Discard, Close, Tick, SetClock, vars, locals, entry, result, control
  <2> QED BY <2>1, NobodyMoves
<1> QED BY <1>1, <1>2, <1>3, <1>4, <1>5, <1>6, <1>7, <1>8, <1>9, <1>10, <1>11, RunNarrates,
           ReturnNarrates, RestartNarrates DEF Next, PrepareStep, RunStep, Inserts

(* One event of a phase, so at most three of a run. *)
LEMMA AtMostThree ==
    ASSUME NEW S \in SUBSET Events, \A e, f \in S : e.state = f.state => e = f
    PROVE Cardinality(S) <= 3
<1> DEFINE phase == [e \in S |-> e.state]
<1>1. IsFiniteSet(Phases) /\ Cardinality(Phases) = 3
  <2>1. IsFiniteSet({"authorized"}) /\ Cardinality({"authorized"}) = 1
    BY FS_Singleton, Zenon
  <2>2. /\ IsFiniteSet({"authorized"} \cup {"admitted"})
        /\ Cardinality({"authorized"} \cup {"admitted"}) = 2
    BY <2>1, FS_AddElement
  <2>3. /\ IsFiniteSet(({"authorized"} \cup {"admitted"}) \cup {"finished"})
        /\ Cardinality(({"authorized"} \cup {"admitted"}) \cup {"finished"}) = 3
    BY <2>2, FS_AddElement
  <2>4. Phases = ({"authorized"} \cup {"admitted"}) \cup {"finished"}
    BY Zenon DEF Phases
  <2> QED BY <2>3, <2>4, Zenon
<1>2. phase \in Injection(S, Phases)
  <2>1. phase \in [S -> Phases]
    BY Zenon DEF Events
  <2>2. \A e, f \in S : phase[e] = phase[f] => e = f
    BY Zenon
  <2> QED BY <2>1, <2>2 DEF Injection, IsInjective
<1> HIDE DEF phase
<1> QED BY <1>1, <1>2, FS_Injection

(* The latest phase that was kept has the latest time. *)
LEMMA LastPhase ==
    ASSUME NEW S \in SUBSET Events, S # {}, \A e, f \in S : InOrder(e, f)
    PROVE \E e \in S : \A f \in S : f.at <= e.at
<1>1. \A e \in S : e.state \in {"authorized", "admitted", "finished"} /\ e.at \in Int
  BY Zenon DEF Events, Phases
<1>2. ASSUME NEW e \in S, NEW f \in S,
             \/ f.state = "authorized" \/ f.state = e.state
             \/ f.state = "admitted" /\ e.state = "finished"
      PROVE f.at <= e.at
  <2>1. InOrder(f, e) /\ e.at <= e.at
    BY <1>1
  <2> QED BY <1>2, <2>1 DEF InOrder
<1>3. CASE \E e \in S : e.state = "finished"
  BY <1>1, <1>2, <1>3
<1>4. CASE (\A e \in S : e.state # "finished") /\ \E e \in S : e.state = "admitted"
  BY <1>1, <1>2, <1>4
<1>5. CASE \A e \in S : e.state = "authorized"
  BY <1>2, <1>5
<1> QED BY <1>1, <1>3, <1>4, <1>5

LEMMA NarratedReads == AllInv /\ Narrated => TrailIsReadable
<1> SUFFICES ASSUME AllInv, Narrated PROVE TrailIsReadable
  BY Zenon
<1>1. ASSUME NEW c \in Callers, NEW state \in {"authorized", "admitted"} PROVE ValidateEvent(Event(c, state))
  <2>1. /\ Event(c, state).state = state /\ Event(c, state).outcome = None
        /\ Event(c, state).measurement = None
    BY Zenon DEF Event
  <2> QED BY <2>1, Zenon DEF ValidateEvent
<1>2. ASSUME NEW c \in Callers, pc[c] = "finishing" PROVE ValidateEvent(Event(c, "finished"))
  <2>1. /\ Event(c, "finished").state = "finished" /\ Event(c, "finished").outcome = verdict[c]
        /\ Event(c, "finished").measurement = measured[c] /\ Event(c, "finished").at = seen[c]
    BY Zenon DEF Event
  <2>2. verdict[c] \in Outcomes
    BY <1>2 DEF AllInv, RunInv, Typed, LocalsSet
  <2>3. Sound(verdict[c], measured[c]) /\ (measured[c] # None => measured[c].started <= seen[c])
    BY <1>2, Zenon DEF Narrated, Narrates
  <2> QED BY <2>1, <2>2, <2>3 DEF ValidateEvent, ValidMeasurement, Sound
<1>3. ASSUME NEW run \in issued, NEW kept \in SUBSET EventsOf(run), kept # {}
      PROVE \E e \in kept : DescribeAccepts(kept, e.at)
  <2>1. kept \subseteq audit /\ kept \in SUBSET Events /\ \A e \in kept : e.run = run
    BY <1>3, Zenon DEF EventsOf, AllInv, RunInv, Typed, TypeOK
  <2>2. (\A e \in kept : ValidateEvent(e)) /\ \A e, f \in kept : InOrder(e, f)
    BY <2>1, Zenon DEF Narrated
  <2>3. PICK last \in kept : \A f \in kept : f.at <= last.at
    BY <1>3, <2>1, <2>2, LastPhase
  <2>4. \A e, f \in kept : e.selection = f.selection /\ (e.state = f.state => e = f)
    BY <2>2 DEF InOrder
  <2>5. Cardinality(kept) <= 3
    BY <2>1, <2>4, AtMostThree
  <2>6. ASSUME NEW i \in 1..3, NEW j \in 1..3, i < j, NEW e \in kept, NEW f \in kept,
               e.state = PhaseOrder[i], f.state = PhaseOrder[j]
        PROVE e.at <= f.at
    <3>1. \/ e.state = "authorized"
          \/ e.state = "admitted" /\ f.state = "finished"
      BY <2>6 DEF PhaseOrder
    <3> QED BY <2>2, <3>1 DEF InOrder
  <2>7. ASSUME NEW e \in kept, NEW f \in kept, e.state = "finished", e.measurement # None,
               f.state # "finished"
        PROVE f.at <= e.measurement.started
    BY <2>2, <2>7 DEF InOrder
  <2>8. DescribeAccepts(kept, last.at)
    BY <1>3, <2>1, <2>2, <2>3, <2>4, <2>5, <2>6, <2>7 DEF DescribeAccepts
  <2> QED BY <2>8
<1> QED BY <1>1, <1>2, <1>3, Zenon DEF TrailIsReadable

(* record never locks the control by an event its own ValidateEvent         *)
(* refuses; and whatever part of a run's events survives retention, a       *)
(* crash or a lost write, DescribeRetainedRun accepts as the story of one   *)
(* run: phases in the order of their times, one selection, no measurement   *)
(* older than the admission it was taken under.                             *)
THEOREM ReadableTrail == Spec => []TrailIsReadable
<1>1. Init => Narrated
  BY Zenon DEF Init, Narrated, Narrates, Nothing, Concluding, RunPhases
<1>2. AllInv /\ AllInv' /\ Narrated /\ [Next]_vars => Narrated'
  BY NarratedStep, Zenon
<1> QED BY <1>1, <1>2, AllInvariance, NarratedReads, PTL DEF Spec
===============================================================================
