------------------------------ MODULE RunControl ------------------------------
(***************************************************************************)
(* The one-shot run control of an active check: gatewayrun.Control, and    *)
(* its twins in packages resolverrun and httpsrun (constant Kind).         *)
(* Callers are goroutines of consent sessions.  Prepare inspects the       *)
(* network and leaves one pending review; Run consumes it, records         *)
(* "authorized", revalidates, records "admitted", calls the executor and   *)
(* records "finished".  The mutex-protected sections are single steps;     *)
(* between them every collaborator call is a step of its own, so other     *)
(* callers, cancellation, shutdown, clock changes and process death        *)
(* interleave with each of them.                                           *)
(*                                                                         *)
(* A Go time is a reading of two clocks: `mono' only advances, `wall' may  *)
(* be set.  MaxTime, Tickets and MaxLag bound the model, not the code.      *)
(***************************************************************************)
EXTENDS RunHistory

CONSTANTS Callers,          \* goroutines that call Prepare, Run and Discard
          Tickets,          \* values the random source can return
          Selections,       \* what a preflight can select
          RunInterval, OperationTimeout, ReviewLifetime,
          MaxLag,           \* how far the wall clock may be set back
          MaxTime           \* bound on elapsed time

ASSUME ConstantsAssumption ==
    /\ RunInterval \in Nat /\ OperationTimeout \in Nat /\ ReviewLifetime \in Nat
    /\ OperationTimeout < RunInterval
    /\ MaxTime \in Nat /\ MaxLag \in Nat
    /\ None \notin {"clock", "audit"}

(* A review is not a nil pointer. *)
ASSUME ReviewAssumption ==
    None \notin [ticket : Tickets, selection : Selections, expiresAt : Int, deadline : Int]

(* Nor is a measurement. *)
ASSUME MeasurementAssumption == None \notin [started : Int, complete : BOOLEAN]

VARIABLES
    mono, wall,                       \* the machine's clocks
    pending, busy, closed, fault,     \* fields of Control
    lastWall, notBefore,
    activeCancel,                     \* {c}: the cancel function of c's context
    drained,
    pc,                               \* where each caller is
    start, review,                    \* its locals: the time it began, the
    seen, fresh,                      \* consumed review, its last clock reading,
    measured, verdict,                \* the fresh selection, what finish records
    canceled,                         \* callers whose context is done
    audit,                            \* the durable audit_events table
    issued, handed,                   \* tickets drawn, tickets callers hold
    admissions, executions, reported  \* what happened, for the properties

clocks   == <<mono, wall>>
slot     == <<busy, activeCancel>>
shutdown == <<closed, drained>>
tickets  == <<issued, handed>>
entry    == <<start, review>>
result   == <<measured, verdict>>
locals   == <<entry, seen, fresh, result>>
history  == <<admissions, executions, reported>>
control  == <<pending, slot, shutdown, fault, lastWall, notBefore>>
vars     == <<clocks, control, pc, locals, canceled, tickets, audit, history>>

Now == [mono |-> mono, wall |-> wall]

Nothing == [c \in Callers |-> None]

(* New: a restarted control waits a full interval before its first review. *)
Init ==
    /\ mono = 0 /\ wall = 0
    /\ pending = None /\ busy = FALSE /\ closed = FALSE /\ fault = None
    /\ lastWall = 0 /\ notBefore = RunInterval
    /\ activeCancel = {} /\ drained = FALSE
    /\ pc = [c \in Callers |-> "idle"]
    /\ start = Nothing /\ review = Nothing /\ seen = Nothing /\ fresh = Nothing
    /\ measured = Nothing /\ verdict = Nothing
    /\ canceled = {} /\ audit = {} /\ issued = {} /\ handed = {}
    /\ admissions = {} /\ executions = {} /\ reported = {}

-------------------------------------------------------------------------------
(* Helpers that the code runs under the mutex. *)

Available == fault = None /\ ~closed

(* Mutant: the high-water mark of the wall clock is not compared. *)
ClockReadsIgnoresRollback == fault = None

(* clockLocked succeeds, and moves the high-water mark. *)
ClockReads == fault = None /\ wall >= lastWall

Live(r) == wall < r.expiresAt /\ mono < r.deadline

(* overlong: the gateway control allows exactly OperationTimeout, the      *)
(* resolver and HTTPS controls do not.                                     *)
Late(elapsed) == IF Kind = "gateway" THEN elapsed > OperationTimeout
                                     ELSE elapsed >= OperationTimeout

Overlong(c) == Late(mono - start[c].mono) \/ Late(wall - start[c].wall)

Goto(c, where) == pc' = [pc EXCEPT ![c] = where]

(* The fault paths of clockLocked and record: the control locks for good,  *)
(* the pending review is gone, the active context is canceled.             *)
Lock(reason) ==
    /\ fault' = reason
    /\ pending' = None
    /\ canceled' = canceled \cup activeCancel

Finish(c, outcome) ==
    /\ verdict' = [verdict EXCEPT ![c] = outcome]
    /\ Goto(c, "finish")

Forget(c) ==
    /\ start' = [start EXCEPT ![c] = None] /\ review' = [review EXCEPT ![c] = None]
    /\ seen' = [seen EXCEPT ![c] = None] /\ fresh' = [fresh EXCEPT ![c] = None]
    /\ measured' = [measured EXCEPT ![c] = None] /\ verdict' = [verdict EXCEPT ![c] = None]

-------------------------------------------------------------------------------
(* Prepare *)

(* Refusals that change nothing but the clock's high-water mark: Prepare   *)
(* while busy, cooling down or with a live review outstanding; Run, at any *)
(* time, with a ticket that is not the pending one.                        *)
Refuse(c) ==
    /\ pc[c] = "idle" /\ Available /\ ClockReads
    /\ wall # lastWall
    /\ lastWall' = wall
    /\ UNCHANGED <<clocks, pending, slot, shutdown, fault, notBefore, pc, locals,
                   canceled, tickets, audit, history>>

Prepare(c) ==
    /\ pc[c] = "idle" /\ Available /\ ClockReads
    /\ mono + OperationTimeout <= MaxTime
    /\ ~busy /\ mono >= notBefore
    /\ pending # None => ~Live(pending)
    /\ lastWall' = wall
    /\ pending' = None /\ busy' = TRUE /\ activeCancel' = {c}
    /\ start' = [start EXCEPT ![c] = Now]
    /\ Goto(c, "inspect")
    /\ UNCHANGED <<clocks, shutdown, fault, notBefore, review, seen, fresh, result,
                   canceled, tickets, audit, history>>

(* The preflight fails or panics, or the random source fails. *)
InspectFails(c) ==
    /\ pc[c] = "inspect"
    /\ Goto(c, "release")
    /\ UNCHANGED <<clocks, control, locals, canceled, tickets, audit, history>>

(* The evidence is refused after the clock was read: closed, canceled,     *)
(* overlong, malformed or older than the call.                             *)
InspectRefused(c) ==
    /\ pc[c] = "inspect" /\ ClockReads
    /\ lastWall' = wall
    /\ Goto(c, "release")
    /\ UNCHANGED <<clocks, pending, slot, shutdown, fault, notBefore, locals,
                   canceled, tickets, audit, history>>

(* The review expires ReviewLifetime after its evidence was observed.      *)
Review(ticket, selection, observed) ==
    [ticket |-> ticket, selection |-> selection,
     expiresAt |-> observed + ReviewLifetime,
     deadline |-> mono + (observed + ReviewLifetime - wall)]

IssueReview(c) ==
    /\ pc[c] = "inspect" /\ ClockReads /\ Available
    /\ c \notin canceled /\ ~Overlong(c)
    /\ lastWall' = wall
    /\ \E t \in Tickets \ issued, s \in Selections, observed \in start[c].wall..wall :
          /\ observed + ReviewLifetime > wall
          /\ pending' = Review(t, s, observed)
          /\ review' = [review EXCEPT ![c] = Review(t, s, observed)]
          /\ issued' = issued \cup {t}
    /\ Goto(c, "release")
    /\ UNCHANGED <<clocks, slot, shutdown, fault, notBefore, start, seen, fresh,
                   result, canceled, handed, audit, history>>

-------------------------------------------------------------------------------
(* Run *)


(* Mutant: the review is left pending while it runs. *)
RunKeepsReview(c, t) ==
    /\ pc[c] = "idle" /\ Available /\ ClockReads
    /\ mono + OperationTimeout <= MaxTime
    /\ pending # None /\ pending.ticket = t
    /\ Live(pending) /\ ~busy /\ mono >= notBefore
    /\ lastWall' = wall
    /\ busy' = TRUE /\ activeCancel' = {c}
    /\ notBefore' = mono + RunInterval
    /\ start' = [start EXCEPT ![c] = Now] /\ review' = [review EXCEPT ![c] = pending]
    /\ admissions' = admissions \cup {[run |-> t, at |-> mono]}
    /\ Goto(c, "authorize")
    /\ UNCHANGED <<clocks, pending, shutdown, fault, seen, fresh, result, canceled,
                   tickets, audit, executions, reported>>

(* The ticket is consumed under the mutex, whatever happens next.  A live  *)
(* review reserves the control and starts the interval to the next run.    *)
Run(c, t) ==
    /\ pc[c] = "idle" /\ Available /\ ClockReads
    /\ mono + OperationTimeout <= MaxTime
    /\ pending # None /\ pending.ticket = t
    /\ lastWall' = wall
    /\ pending' = None
    /\ IF Live(pending) /\ ~busy /\ mono >= notBefore
          THEN /\ busy' = TRUE /\ activeCancel' = {c}
               /\ notBefore' = mono + RunInterval
               /\ start' = [start EXCEPT ![c] = Now] /\ review' = [review EXCEPT ![c] = pending]
               /\ admissions' = admissions \cup {[run |-> t, at |-> mono]}
               /\ Goto(c, "authorize")
          ELSE UNCHANGED <<busy, activeCancel, notBefore, entry, admissions, pc>>
    /\ UNCHANGED <<clocks, shutdown, fault, seen, fresh, result, canceled, tickets,
                   audit, executions, reported>>

(* ctx.Err() right after the reservation: nothing was recorded. *)
AbandonRun(c) ==
    /\ pc[c] = "authorize" /\ c \in canceled
    /\ Goto(c, "release")
    /\ UNCHANGED <<clocks, control, locals, canceled, tickets, audit, history>>

(* record: the event takes its time from the clock before it is written.   *)
RecordTime(c, from, to) ==
    /\ pc[c] = from /\ ClockReads
    /\ lastWall' = wall
    /\ seen' = [seen EXCEPT ![c] = wall]
    /\ Goto(c, to)
    /\ UNCHANGED <<clocks, pending, slot, shutdown, fault, notBefore, entry, fresh,
                   result, canceled, tickets, audit, history>>

Authorize(c) == c \notin canceled /\ RecordTime(c, "authorize", "authorizing")
Admit(c) == RecordTime(c, "admit", "admitting")
Conclude(c) == RecordTime(c, "finish", "finishing")

Event(c, state) ==
    [run |-> review[c].ticket, state |-> state, at |-> seen[c],
     selection |-> review[c].selection,
     outcome |-> IF state = "finished" THEN verdict[c] ELSE None,
     measurement |-> IF state = "finished" THEN measured[c] ELSE None]

(* Mutant: the error of the insert is dropped. *)
InsertDropsError(c, from, state, to) ==
    /\ pc[c] = from
    /\ \E durable \in BOOLEAN :
          LET e == Event(c, state) IN
          /\ durable => /\ ValidateEvent(e)
                        /\ \A f \in audit : f.run # e.run \/ f.state # e.state
          /\ audit' = IF durable THEN audit \cup {e} ELSE audit
          /\ reported' = IF state = "finished"
                         THEN reported \cup {[run |-> e.run, outcome |-> e.outcome]}
                         ELSE reported
    /\ Goto(c, to)
    /\ UNCHANGED <<clocks, control, locals, canceled, tickets, admissions,
                   executions>>

(* The insert may fail, and may fail after it has become durable; a row    *)
(* key is one run and phase.  The event counts only when the insert        *)
(* returned nil and the context is still live (the terminal event has a    *)
(* context of its own).  Everything else locks the control.                *)
Insert(c, from, state, to) ==
    /\ pc[c] = from
    /\ \E durable, acknowledged \in BOOLEAN :
          LET e  == Event(c, state)
              ok == acknowledged /\ (state = "finished" \/ c \notin canceled)
          IN
          /\ acknowledged => durable
          /\ durable => /\ ValidateEvent(e)
                        /\ \A f \in audit : f.run # e.run \/ f.state # e.state
          /\ audit' = IF durable THEN audit \cup {e} ELSE audit
          /\ reported' = IF ok /\ state = "finished"
                         THEN reported \cup {[run |-> e.run, outcome |-> e.outcome]}
                         ELSE reported
          /\ IF ok THEN Goto(c, to) /\ UNCHANGED <<fault, pending, canceled>>
                   ELSE Goto(c, "release") /\ Lock("audit")
    /\ UNCHANGED <<clocks, slot, shutdown, lastWall, notBefore, locals, tickets,
                   admissions, executions>>

InsertAuthorized(c) == Insert(c, "authorizing", "authorized", "revalidate")
InsertAdmitted(c) == Insert(c, "admitting", "admitted", "launch")
InsertFinished(c) == Insert(c, "finishing", "finished", "release")

(* The fresh preflight: canceled before or after the call, or it failed.   *)
RevalidateStops(c) ==
    /\ pc[c] = "revalidate"
    /\ Finish(c, IF c \in canceled THEN "canceled" ELSE "blocked")
    /\ UNCHANGED <<clocks, control, entry, seen, fresh, measured, canceled,
                   tickets, audit, history>>

SameSelection(a, b) == a = b

(* It answered: expired, overlong, invalid or changed evidence blocks.     *)
Revalidate(c) ==
    /\ pc[c] = "revalidate" /\ c \notin canceled /\ ClockReads
    /\ lastWall' = wall
    /\ \E s \in Selections, valid \in BOOLEAN :
          IF /\ Live(review[c]) /\ ~Overlong(c) /\ valid
             /\ SameSelection(review[c].selection, s)
             THEN fresh' = [fresh EXCEPT ![c] = s] /\ Goto(c, "admit") /\ UNCHANGED verdict
             ELSE Finish(c, "blocked") /\ UNCHANGED fresh
    /\ UNCHANGED <<clocks, pending, slot, shutdown, fault, notBefore, entry, seen,
                   measured, canceled, tickets, audit, history>>

(* Freshness and cancellation are checked again after the durable          *)
(* admission; only then does the executor get the selection.               *)
Launch(c) ==
    /\ pc[c] = "launch" /\ ClockReads
    /\ lastWall' = wall
    /\ IF c \notin canceled /\ Live(review[c]) /\ ~Overlong(c)
          THEN /\ seen' = [seen EXCEPT ![c] = wall]
               /\ executions' = executions \cup
                     {[run |-> review[c].ticket, at |-> mono, selection |-> fresh[c]]}
               /\ Goto(c, "execute") /\ UNCHANGED verdict
          ELSE /\ Finish(c, IF c \in canceled THEN "canceled" ELSE "blocked")
               /\ UNCHANGED <<seen, executions>>
    /\ UNCHANGED <<clocks, pending, slot, shutdown, fault, notBefore, entry, fresh,
                   measured, canceled, tickets, audit, admissions, reported>>

ExecutorPanics(c) ==
    /\ pc[c] = "execute"
    /\ Finish(c, "indeterminate")
    /\ UNCHANGED <<clocks, control, entry, seen, fresh, measured, canceled,
                   tickets, audit, history>>

Errors == {"none", "canceled", "deadline", "other"}

(* What an executor may return besides an error: no sample, or one that    *)
(* started at some instant and is partial, complete or, for the resolver   *)
(* and HTTPS exchanges, a completed timeout.                               *)
Samples(c) ==
    {None} \cup [started : (seen[c] - 1)..wall,
                 form : {"partial", "complete"} \cup
                        IF Kind = "gateway" THEN {} ELSE {"timeout"}]

Complete(sample) == sample.form # "partial"

(* validateSample: evidence older than the launch stands for every sample  *)
(* that is not about this run.  A gateway sample is complete exactly when  *)
(* the executor reports no error.                                          *)
ValidSample(c, sample, err) ==
    IF sample = None THEN err # "none"
    ELSE /\ sample.started >= seen[c]
         /\ sample.started < review[c].expiresAt
         /\ IF Kind = "gateway" THEN Complete(sample) <=> err = "none"
                                ELSE err = "none" => Complete(sample)

(* A phase timeout of an HTTPS exchange is evidence, not a cancellation.   *)
TimeoutIsEvidence(sample) == Kind = "https" /\ sample # None /\ sample.form = "timeout"

(* The order in which Run classifies what the executor returned. *)
Verdict(c, sample, err) ==
    IF ~ValidSample(c, sample, err) THEN "failed"
    ELSE IF \/ c \in canceled \/ ~Live(review[c]) \/ Overlong(c)
            \/ err = "canceled" THEN "canceled"
    ELSE IF err = "none" \/ (err = "deadline" /\ TimeoutIsEvidence(sample)) THEN "completed"
    ELSE IF err = "deadline" THEN "canceled" ELSE "failed"

ExecutorReturns(c) ==
    /\ pc[c] = "execute" /\ ClockReads
    /\ lastWall' = wall
    /\ \E sample \in Samples(c), err \in Errors :
          /\ Finish(c, Verdict(c, sample, err))
          /\ measured' = [measured EXCEPT ![c] =
                IF sample = None \/ ~ValidSample(c, sample, err) THEN None
                ELSE [started |-> sample.started, complete |-> Complete(sample)]]
    /\ UNCHANGED <<clocks, pending, slot, shutdown, fault, notBefore, entry, seen,
                   fresh, canceled, tickets, audit, history>>

-------------------------------------------------------------------------------
(* Clock failure, release, discard, shutdown *)

ClockUsers == {"inspect", "authorize", "revalidate", "admit", "launch", "execute", "finish"}

(* Mutant: the early return after a clock failure skips the release. *)
ClockFailsWithoutRelease(c) ==
    /\ \/ pc[c] = "idle" /\ Available
       \/ pc[c] \in ClockUsers /\ (pc[c] \in {"authorize", "revalidate"} => c \notin canceled)
    /\ ~ClockReads
    /\ IF fault = None THEN Lock("clock") ELSE UNCHANGED <<fault, pending, canceled>>
    /\ Goto(c, "idle")
    /\ UNCHANGED <<clocks, slot, shutdown, lastWall, notBefore, locals, tickets,
                   audit, history>>

(* A caller whose clock read sees the wall clock behind the high-water     *)
(* mark locks the control; one that finds it locked gives up.  No event is *)
(* written: there is no time to put in it.                                 *)
ClockFails(c) ==
    /\ \/ pc[c] = "idle" /\ Available
       \/ pc[c] \in ClockUsers /\ (pc[c] \in {"authorize", "revalidate"} => c \notin canceled)
    /\ ~ClockReads
    /\ IF fault = None THEN Lock("clock") ELSE UNCHANGED <<fault, pending, canceled>>
    /\ Goto(c, IF pc[c] = "idle" THEN "idle" ELSE "release")
    /\ UNCHANGED <<clocks, slot, shutdown, lastWall, notBefore, locals, tickets,
                   audit, history>>

(* The deferred release; the caller now holds the ticket Prepare returned. *)
Release(c) ==
    /\ pc[c] = "release"
    /\ busy' = FALSE /\ activeCancel' = {}
    /\ drained' = (drained \/ closed)
    /\ handed' = handed \cup (IF review[c] = None THEN {} ELSE {review[c].ticket})
    /\ Forget(c)
    /\ canceled' = canceled \ {c}
    /\ Goto(c, "idle")
    /\ UNCHANGED <<clocks, pending, closed, fault, lastWall, notBefore, issued,
                   audit, history>>

Discard(t) ==
    /\ t \in handed
    /\ pending # None /\ pending.ticket = t
    /\ pending' = None
    /\ UNCHANGED <<clocks, slot, shutdown, fault, lastWall, notBefore, pc, locals,
                   canceled, tickets, audit, history>>

Close ==
    /\ ~closed
    /\ closed' = TRUE
    /\ pending' = None
    /\ canceled' = canceled \cup activeCancel
    /\ drained' = (drained \/ ~busy)
    /\ UNCHANGED <<clocks, slot, fault, lastWall, notBefore, pc, locals, tickets,
                   audit, history>>

-------------------------------------------------------------------------------
(* The environment *)

(* The caller hangs up, or its context was canceled from above. *)
CallerCancels(c) ==
    /\ pc[c] \notin {"idle", "release"} /\ c \notin canceled
    /\ canceled' = canceled \cup {c}
    /\ UNCHANGED <<clocks, control, pc, locals, tickets, audit, history>>

Least(a, b) == IF a < b THEN a ELSE b

(* The context ends OperationTimeout after the call began; Run's also with *)
(* the consumed review, on either clock.                                   *)
Deadline(c) ==
    IF review[c] = None THEN start[c].mono + OperationTimeout
    ELSE Least(start[c].mono + OperationTimeout,
               Least(start[c].mono + (review[c].expiresAt - start[c].wall), review[c].deadline))

(* The timer of the context fires, at its deadline or later. *)
DeadlinePasses(c) ==
    /\ pc[c] # "idle" /\ mono >= Deadline(c)
    /\ CallerCancels(c)

Tick ==
    /\ mono < MaxTime
    /\ mono' = mono + 1 /\ wall' = wall + 1
    /\ UNCHANGED <<control, pc, locals, canceled, tickets, audit, history>>

SetClock ==
    /\ wall' \in (mono - MaxLag)..mono /\ wall' # wall
    /\ UNCHANGED <<mono, control, pc, locals, canceled, tickets, audit, history>>

(* Mutant: a new control does not wait out the interval. *)
RestartWithoutWaiting ==
    /\ pending' = None /\ busy' = FALSE /\ closed' = FALSE /\ fault' = None
    /\ lastWall' = wall /\ notBefore' = mono
    /\ activeCancel' = {} /\ drained' = FALSE
    /\ pc' = [c \in Callers |-> "idle"]
    /\ start' = Nothing /\ review' = Nothing /\ seen' = Nothing /\ fresh' = Nothing
    /\ measured' = Nothing /\ verdict' = Nothing
    /\ canceled' = {} /\ handed' = {}
    /\ UNCHANGED <<clocks, audit, issued, history>>

(* The process dies and a new controller builds a new control. *)
Restart ==
    /\ pending' = None /\ busy' = FALSE /\ closed' = FALSE /\ fault' = None
    /\ lastWall' = wall /\ notBefore' = mono + RunInterval
    /\ activeCancel' = {} /\ drained' = FALSE
    /\ pc' = [c \in Callers |-> "idle"]
    /\ start' = Nothing /\ review' = Nothing /\ seen' = Nothing /\ fresh' = Nothing
    /\ measured' = Nothing /\ verdict' = Nothing
    /\ canceled' = {} /\ handed' = {}
    /\ UNCHANGED <<clocks, issued, audit, history>>

PrepareStep(c) == Prepare(c) \/ InspectFails(c) \/ InspectRefused(c) \/ IssueReview(c)

RunStep(c) ==
    \/ AbandonRun(c) \/ Authorize(c) \/ InsertAuthorized(c)
    \/ RevalidateStops(c) \/ Revalidate(c)
    \/ Admit(c) \/ InsertAdmitted(c) \/ Launch(c)
    \/ ExecutorPanics(c) \/ ExecutorReturns(c)
    \/ Conclude(c) \/ InsertFinished(c)

Next ==
    \/ \E c \in Callers :
          \/ Refuse(c) \/ PrepareStep(c) \/ RunStep(c) \/ ClockFails(c) \/ Release(c)
          \/ CallerCancels(c) \/ DeadlinePasses(c)
          \/ \E t \in handed : Run(c, t)
    \/ \E t \in handed : Discard(t)
    \/ Close \/ Tick \/ SetClock \/ Restart

Spec == Init /\ [][Next]_vars
-------------------------------------------------------------------------------
(* Properties *)

RunPhases == {"authorize", "authorizing", "revalidate", "admit", "admitting", "launch",
              "execute", "finish", "finishing"}

Stages == {"idle", "inspect", "release"} \cup RunPhases

Instants == [mono : Int, wall : Int]

Reviews == [ticket : Tickets, selection : Selections, expiresAt : Int, deadline : Int]

Measurements == [started : Int, complete : BOOLEAN]

Events == [run : Tickets, state : Phases, at : Int, selection : Selections,
           outcome : Outcomes \cup {None}, measurement : Measurements \cup {None}]

(* Every variable has the type of the Go field or local it stands for. *)
TypeOK ==
    /\ mono \in Nat /\ wall \in Int
    /\ pending \in Reviews \cup {None}
    /\ busy \in BOOLEAN /\ closed \in BOOLEAN /\ drained \in BOOLEAN
    /\ fault \in {None, "clock", "audit"}
    /\ lastWall \in Int /\ notBefore \in Nat
    /\ activeCancel \subseteq Callers /\ canceled \subseteq Callers
    /\ pc \in [Callers -> Stages]
    /\ start \in [Callers -> Instants \cup {None}]
    /\ review \in [Callers -> Reviews \cup {None}]
    /\ seen \in [Callers -> Int \cup {None}] /\ fresh \in [Callers -> Selections \cup {None}]
    /\ measured \in [Callers -> Measurements \cup {None}]
    /\ verdict \in [Callers -> Outcomes \cup {None}]
    /\ audit \subseteq Events
    /\ issued \subseteq Tickets /\ handed \subseteq Tickets
    /\ admissions \subseteq [run : Tickets, at : Nat]
    /\ executions \subseteq [run : Tickets, at : Nat, selection : Selections]
    /\ reported \subseteq [run : Tickets, outcome : Outcomes]

Reserved == {c \in Callers : pc[c] # "idle"}

(* The reservation is exclusive, and busy and activeCancel always describe *)
(* its holder, through every early return, panic, lock and shutdown.       *)
OneOperation ==
    /\ \A c, d \in Reserved : c = d
    /\ busy <=> Reserved # {}
    /\ activeCancel = Reserved

Recorded(run, state) == {e \in audit : e.run = run /\ e.state = state}

(* The executor only ever ran for a run whose "authorized" and "admitted"  *)
(* events are durable, with the selection that was reviewed.               *)
ExecutionIsAdmitted ==
    \A x \in executions, state \in {"authorized", "admitted"} :
       \E e \in Recorded(x.run, state) : e.selection = x.selection

(* A consent is good for one execution: the executor is never entered for  *)
(* a run that it was entered for before, across cancellation and restart.  *)
ExecutesOnce ==
    [][\A c \in Callers : (pc[c] # "execute" /\ pc'[c] = "execute") =>
          \A x \in executions : x.run # review[c].ticket]_vars

Apart(s, t, d) == s - t >= d \/ t - s >= d

(* Reservations, of whatever outcome, are RunInterval apart even across a  *)
(* restart; executions can only be OperationTimeout closer than that.      *)
RunSpacing ==
    /\ \A a, b \in admissions : a # b => Apart(a.at, b.at, RunInterval)
    /\ \A x, y \in executions :
          x.run # y.run => Apart(x.at, y.at, RunInterval - OperationTimeout)

(* A review somebody holds can be run: the refusal after its ticket was    *)
(* consumed (busy or cooling down) never burns a consent.                  *)
HeldReviewIsAdmissible ==
    (pending # None /\ pending.ticket \in handed) =>
        ~busy /\ Available /\ mono >= notBefore

(* What a reservation guarantees for as long as it and its traces last: it *)
(* is exclusive, it spaces the runs, a review that was handed out can use  *)
(* it, and nothing executes under it that is not durably admitted:         *)
(* OneOperation, RunSpacing, HeldReviewIsAdmissible, ExecutionIsAdmitted.  *)
ReservationHolds ==
    OneOperation /\ RunSpacing /\ HeldReviewIsAdmissible /\ ExecutionIsAdmitted

(* Once Shutdown may return, nothing is left that executes or writes an    *)
(* audit, and nothing starts.                                              *)
DrainedIsQuiet ==
    [][(drained /\ drained') => UNCHANGED <<pc, audit, executions>>]_vars

(* An outcome is reported only when its terminal event is durable, and     *)
(* "completed" only for a run that was executed.                           *)
ReportsAreDurable ==
    \A r \in reported :
       /\ \E e \in Recorded(r.run, "finished") : e.outcome = r.outcome
       /\ r.outcome = "completed" => \E x \in executions : x.run = r.run

EventsOf(run) == {e \in audit : e.run = run}

(* How the run control implements OneShotConsent: a ticket is granted from *)
(* its reservation until the caller that holds it releases the control.    *)
ConsentStage(t) ==
    IF t \notin issued THEN "unused"
    ELSE IF pending # None /\ pending.ticket = t THEN "offered"
    ELSE IF /\ \E a \in admissions : a.run = t
            /\ \E c \in Callers : review[c] # None /\ review[c].ticket = t
         THEN "granted" ELSE "spent"

Consent == INSTANCE OneShotConsent WITH
    stage <- [t \in Tickets |-> ConsentStage(t)],
    ledger <- [t \in Tickets |-> {e.state : e \in EventsOf(t)}],
    performed <- {x.run : x \in executions}

(* The control implements the one-shot consent: Run's consumption of the   *)
(* ticket, the order of its audits around the execution, and every way it  *)
(* can be interrupted are steps of OneShotConsent.                         *)
ImplementsConsent == Consent!Spec

(* The control never locks itself by writing an event that its own         *)
(* validation refuses, and whatever part of a run's trail survives         *)
(* retention, crashes and lost writes, DescribeRetainedRun accepts it.     *)
TrailIsReadable ==
    /\ \A c \in Callers :
          /\ pc[c] = "authorizing" => ValidateEvent(Event(c, "authorized"))
          /\ pc[c] = "admitting" => ValidateEvent(Event(c, "admitted"))
          /\ pc[c] = "finishing" => ValidateEvent(Event(c, "finished"))
    /\ \A run \in issued : \A kept \in SUBSET EventsOf(run) :
          kept # {} => \E e \in kept : DescribeAccepts(kept, e.at)

(* A clock or audit fault is permanent: only a new process offers, admits  *)
(* or executes anything again.                                             *)
LockedForGood ==
    [][fault # None => /\ fault' # None \/ Restart
                       /\ UNCHANGED <<issued, admissions, executions>>]_vars

-------------------------------------------------------------------------------
(* Liveness: collaborators return once their context is done, timers fire, *)
(* SQLite answers, time passes.  Nobody has to call, cancel or shut down.  *)

Cooperate(c) ==
    /\ pc[c] # "idle"
    /\ pc[c] \in {"inspect", "revalidate", "execute"} => c \in canceled
    /\ PrepareStep(c) \/ RunStep(c) \/ ClockFails(c) \/ Release(c)

Fairness == /\ \A c \in Callers : WF_vars(Cooperate(c)) /\ WF_vars(DeadlinePasses(c))
            /\ WF_vars(Tick)

FairSpec == Spec /\ Fairness

(* A reservation is always given back, even when no collaborator returns   *)
(* before its deadline, and so a shutdown always drains (or the process is *)
(* replaced).                                                              *)
ReservationIsReleased ==
    /\ busy ~> ~busy
    /\ closed ~> (drained \/ ~closed)

===============================================================================
