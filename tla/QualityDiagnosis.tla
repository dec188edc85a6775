---------------------------- MODULE QualityDiagnosis ----------------------------
(***************************************************************************)
(* Retained check history, from the audit rows that the run controls write *)
(* to what the web shows.  Runs of the gateway, resolver and HTTPS checks  *)
(* add their rows while a reader follows the handlers GatewayHistory,      *)
(* ResolverHistory, HTTPSHistory and QualityDiagnosis: it reads the        *)
(* enrolled binding, then one snapshot of the store, then the binding      *)
(* again, and the web checks the answer before it shows it.                *)
(* A row is [kind, run, state, outcome, at, selection, measurement]; its   *)
(* selection is [scope, iface, family], its measurement Nil or a shape of  *)
(* Shapes[kind] with the times started and completed.  Audit rows are kept *)
(* for half a year, so none expires within the day that a list looks back; *)
(* execution-only rows of the first schema version, and the lookup of one  *)
(* run by its reference, are left out.                                     *)
(***************************************************************************)
EXTENDS NetworkQuality, FiniteSetsExt

CONSTANTS Bindings,          \* the enrollments that may be active
          Families,          \* the address families of a selection, by kind
          Shapes,            \* what a check may have measured, by kind
          MaxHistoryRuns,    \* MaxGatewayHistoryRuns and its twins
          MaxHistoryScan,    \* MaxGatewayHistoryScan and its twins
          HistoryWindow,     \* GatewayHistoryWindow and its twins
          MinSample,         \* the two paced seconds of a complete gateway sample
          OperationTimeout,  \* the duration that no gateway or resolver sample reaches
          ComparisonTime,    \* freshness and completion skew of a comparison
          MaxRuns, MaxWall, MaxRestarts, MaxBindings  \* bounds of the model

ASSUME DiagnosisAssumption ==
    /\ HistoryWindow \in Nat /\ MaxHistoryRuns \in Nat /\ MaxHistoryScan \in Nat
    /\ MinSample \in Nat /\ OperationTimeout \in Nat /\ ComparisonTime \in Nat
    /\ MinSample < OperationTimeout /\ OperationTimeout <= ComparisonTime
    /\ MaxWall \in Nat

ASSUME ShapesAssumption ==
    /\ \A s \in Shapes["gateway"] : DOMAIN s = {"complete", "replies"}
    /\ \A s \in Shapes["resolver"] :
          /\ DOMAIN s = {"complete", "exchange", "reply", "expect", "gap"}
          /\ s.reply # Nil => s.reply.answer \in {"none", "present", "nodata", "referral", "unclassified"}
    /\ \A s \in Shapes["https"] : DOMAIN s = {"complete", "exchange", "status", "expect", "gap"}

VARIABLES wall,      \* the wall clock
          enrolled,  \* the active binding, or Nil
          trail,     \* the audit rows
          running,   \* the run each control executes, or Nil
          faults,    \* restarts and changes of enrollment so far
          reader     \* the read in progress
historyVars == <<wall, enrolled, trail, running, faults, reader>>

Kinds == {"gateway", "resolver", "https"}

GatewayRuns == INSTANCE RunHistory WITH Kind <- "gateway", None <- Nil
ResolverRuns == INSTANCE RunHistory WITH Kind <- "resolver", None <- Nil
HTTPSRuns == INSTANCE RunHistory WITH Kind <- "https", None <- Nil

(* The structural limits of a sample; only an unfinished gateway sample    *)
(* has no end.                                                             *)
ValidTimes(kind, m, at) ==
    /\ m.started <= at
    /\ IF m.completed = Nil THEN kind = "gateway" /\ ~m.complete
       ELSE /\ m.started <= m.completed /\ m.completed <= at
            /\ kind # "https" => m.completed - m.started < OperationTimeout
            /\ kind = "https" => m.completed - m.started <= MaxCheckTime
            /\ (kind = "gateway" /\ m.complete) => m.completed - m.started >= MinSample

(* A record with the fields of both. *)
Joined(f, g) == [x \in DOMAIN f \cup DOMAIN g |-> IF x \in DOMAIN f THEN f[x] ELSE g[x]]

AsSample(r) ==
    Joined([id |-> <<r.kind, r.run>>, target |-> r.kind, layer |-> r.kind,
            family |-> r.selection.family, iface |-> r.selection.iface,
            started |-> r.measurement.started, completed |-> r.measurement.completed],
           IF r.kind = "gateway"
           THEN [attempts |-> 3, successes |-> r.measurement.replies, gap |-> "none",
                 outcome |-> IF r.measurement.replies = 0 THEN "failed"
                             ELSE IF r.measurement.replies < 3 THEN "partial" ELSE "succeeded"]
           ELSE [f \in DOMAIN r.measurement \ {"started", "completed", "complete"} |-> r.measurement[f]])

ValidEvent(e) ==
    /\ CASE e.kind = "gateway"  -> GatewayRuns!ValidateEvent(e)
         [] e.kind = "resolver" -> ResolverRuns!ValidateEvent(e)
         [] e.kind = "https"    -> HTTPSRuns!ValidateEvent(e)
    /\ e.measurement # Nil =>
          /\ ValidTimes(e.kind, e.measurement, e.at)
          /\ e.kind = "resolver" => validateResolverMeasurement(AsSample(e))
          /\ e.kind = "https" => validateHTTPSMeasurement(AsSample(e))
-------------------------------------------------------------------------------
Quiet == [k \in Kinds |-> Nil]
Idle == [stage |-> "idle"]

HistoryInit ==
    /\ wall = 0 /\ enrolled \in Bindings /\ trail = {} /\ running = Quiet
    /\ faults = [restarts |-> 0, bindings |-> 0] /\ reader = Idle

Row(kind, run, selection, state, outcome, m) ==
    [kind |-> kind, run |-> run, selection |-> selection, state |-> state,
     outcome |-> outcome, at |-> wall, measurement |-> m]

(* A run identifier is random; here, the next number of its kind.          *)
RunsOf(kind) == {r.run : r \in {s \in trail : s.kind = kind}}
NewRun(kind) == Cardinality(RunsOf(kind)) + 1

InsertRunAudit(row) == ValidEvent(row) /\ trail' = trail \cup {row}

(* A control starts a run for the binding it reviewed.                     *)
RunAuthorized(kind, family) ==
    /\ running[kind] = Nil /\ enrolled # Nil /\ NewRun(kind) <= MaxRuns
    /\ LET selection == [scope |-> enrolled.scope, iface |-> enrolled.iface, family |-> family]
       IN  /\ InsertRunAudit(Row(kind, NewRun(kind), selection, "authorized", Nil, Nil))
           /\ running' = [running EXCEPT ![kind] =
                 [run |-> NewRun(kind), selection |-> selection, admitted |-> Nil]]
    /\ UNCHANGED <<wall, enrolled, faults, reader>>

RunAdmitted(kind) ==
    /\ running[kind] # Nil /\ running[kind].admitted = Nil
    /\ InsertRunAudit(Row(kind, running[kind].run, running[kind].selection, "admitted", Nil, Nil))
    /\ running' = [running EXCEPT ![kind].admitted = wall]
    /\ UNCHANGED <<wall, enrolled, faults, reader>>

FinalRow(kind, outcome, m) ==
    Row(kind, running[kind].run, running[kind].selection, "finished", outcome, m)

(* A run that was not admitted has measured nothing.  A sample starts with *)
(* the admission: the moment between the two is part of the wait for it.   *)
RunFinished(kind) ==
    /\ running[kind] # Nil
    /\ \/ \E outcome \in {"blocked", "canceled", "failed", "indeterminate"} :
             InsertRunAudit(FinalRow(kind, outcome, Nil))
       \/ /\ running[kind].admitted # Nil
          /\ \E outcome \in {"completed", "canceled", "failed"}, shape \in Shapes[kind],
                completed \in (running[kind].admitted..wall) \cup {Nil} :
                InsertRunAudit(FinalRow(kind, outcome,
                   Joined(shape, [started |-> running[kind].admitted, completed |-> completed])))
    /\ running' = [running EXCEPT ![kind] = Nil]
    /\ UNCHANGED <<wall, enrolled, faults, reader>>

WallTicks == /\ wall < MaxWall /\ wall' = wall + 1
             /\ UNCHANGED <<enrolled, trail, running, faults, reader>>

(* The controller stops in the middle of its runs; the clock may have been *)
(* set back when it starts again.                                          *)
ControllerRestarts ==
    /\ faults.restarts < MaxRestarts /\ reader.stage \in {"idle", "shown"}
    /\ faults' = [faults EXCEPT !.restarts = @ + 1]
    /\ running' = Quiet /\ wall' \in {wall, wall - 1} \cap Nat
    /\ UNCHANGED <<enrolled, trail, reader>>

BindingChanges ==
    /\ faults.bindings < MaxBindings
    /\ faults' = [faults EXCEPT !.bindings = @ + 1]
    /\ enrolled' \in (Bindings \cup {Nil}) \ {enrolled}
    /\ UNCHANGED <<wall, trail, running, reader>>
-------------------------------------------------------------------------------
(* DescribeRetainedRun folds the rows of one run.                          *)
LastAt(events) == Last({e.at : e \in events})

DescribeAcceptsRun(kind, events, asOf) ==
    /\ \A e \in events : ValidEvent(e)
    /\ CASE kind = "gateway"  -> GatewayRuns!DescribeAccepts(events, asOf)
         [] kind = "resolver" -> ResolverRuns!DescribeAccepts(events, asOf)
         [] kind = "https"    -> HTTPSRuns!DescribeAccepts(events, asOf)

Unknown == [state |-> "unknown", confidence |-> "unknown", matched |-> Nil]

GatewayAssessment(m) ==
    IF ~m.complete THEN [Unknown EXCEPT !.state = "incomplete"]
    ELSE [state |-> IF m.replies = 3 THEN "all-replied"
                    ELSE IF m.replies = 0 THEN "no-replies" ELSE "some-replies",
          confidence |-> "limited", matched |-> Nil]

(* Samples are assessed at their own end, never at the time of the read.   *)
AtItsEnd(m) == [start |-> m.started, asOf |-> m.completed, freshness |-> 1, skew |-> 1]

ResolverAssessment(r) ==
    LET m == AsSample(r) IN
    [state |-> resolverResult(m),
     confidence |-> IF m.exchange \in {"not-measured", "incomplete"} THEN "unknown" ELSE "limited",
     matched |-> IF resolverResult(m) \in FinalResults
                    THEN assessResolverMeasurement(m, AtItsEnd(m)) = "check-succeeded" ELSE Nil]

HTTPSAssessment(r) ==
    LET m == AsSample(r) IN
    [state |-> httpsResult(m),
     confidence |-> IF m.exchange \in {"not-measured", "incomplete"} THEN "unknown" ELSE "limited",
     matched |-> HTTPSMatched(m)]

HistoricalAssessment(r) ==
    IF r.measurement = Nil THEN Unknown
    ELSE IF r.kind = "gateway" THEN GatewayAssessment(r.measurement)
    ELSE IF r.kind = "resolver" THEN ResolverAssessment(r) ELSE HTTPSAssessment(r)

DescribeRetainedRun(events) ==
    LET any == CHOOSE e \in events : TRUE
        last == {e \in events : e.state = "finished"}
        end == CHOOSE e \in last : TRUE
        run == [kind |-> any.kind, run |-> any.run, selection |-> any.selection,
                lastAuditAt |-> LastAt(events), retained |-> {e.state : e \in events},
                outcome |-> IF last = {} THEN "unknown" ELSE end.outcome,
                measurement |-> IF last = {} THEN Nil ELSE end.measurement]
    IN  Joined(run, [assessment |-> HistoricalAssessment(run)])

(* The newest n elements of a set of rows or runs, where equally new ones  *)
(* may come in either order.                                               *)
Newest(all, n, Time(_)) ==
    IF Cardinality(all) <= n THEN {all}
    ELSE {some \in kSubset(n, all) : \A x \in some, y \in all \ some : Time(y) <= Time(x)}

RowTime(row) == row.at
InWindow(rows, asOf) == {r \in rows : asOf - HistoryWindow <= r.at /\ r.at <= asOf}

RowsOf(rows, kind, run, asOf) == {r \in rows : r.kind = kind /\ r.run = run /\ r.at <= asOf}

(* One list of one kind: the runs met among the scanned rows, the newest   *)
(* first, each then read in full.  Nil stands for an error.                *)
HistoryPages(kind, rows, scanned, scope, asOf) ==
    LET mine == {r \in scanned : r.kind = kind /\ r.selection.scope = scope}
        ids == {r.run : r \in mine}
        MetAt(id) == LastAt({r \in mine : r.run = id})
        truncated == Cardinality(ids) > MaxHistoryRuns
        Events(id) == RowsOf(rows, kind, id, asOf)
    IN  {IF \E id \in picked : ~DescribeAcceptsRun(kind, Events(id), asOf) THEN Nil
         ELSE [runs |-> {DescribeRetainedRun(Events(id)) : id \in picked},
               truncated |-> truncated,
               scanTruncated |-> ~truncated /\ Cardinality(InWindow(rows, asOf)) > MaxHistoryScan]
            : picked \in Newest(ids, MaxHistoryRuns, MetAt)}

ReadGatewayHistory(rows, scanned, scope, asOf) == HistoryPages("gateway", rows, scanned, scope, asOf)
ReadResolverHistory(rows, scanned, scope, asOf) == HistoryPages("resolver", rows, scanned, scope, asOf)
ReadHTTPSHistory(rows, scanned, scope, asOf) == HistoryPages("https", rows, scanned, scope, asOf)
-------------------------------------------------------------------------------
(* Mutant: the latest run that measured something speaks for its layer. *)
SelectsUsable(runs) ==
    {r \in runs : r.measurement # Nil /\ \A s \in runs :
        s.measurement # Nil => s.lastAuditAt <= r.lastAuditAt}

(* The latest run of one layer, whatever it measured; several when the     *)
(* latest audit times are equal.                                           *)
SelectLatest(runs) == {r \in runs : \A s \in runs : s.lastAuditAt <= r.lastAuditAt}

SampleStatus(r) ==
    LET m == r.measurement IN
    IF "finished" \notin r.retained THEN "missing-terminal"
    ELSE IF m = Nil THEN "no-measurement"
    ELSE IF CASE r.kind = "gateway"  -> m.complete
              [] r.kind = "resolver" -> m.exchange \in {"response-received", "timeout", "transport-error"}
              [] r.kind = "https"    -> m.exchange \notin {"incomplete", "not-measured"}
         THEN "recorded" ELSE "incomplete"

DiagnosisRun(r) ==
    [run |-> r, status |-> SampleStatus(r),
     started |-> IF r.measurement = Nil THEN Nil ELSE r.measurement.started,
     completed |-> IF r.measurement = Nil THEN Nil ELSE r.measurement.completed]

Context(item) == [item.run.selection EXCEPT !.scope = "any"]

(* Mutant: a sample is compared up to and including the end of the time    *)
(* within which samples are comparable.                                    *)
ComparesAtTheLimit(selected, anchor) ==
    IF Cardinality(selected) < 2 THEN "insufficient-evidence"
    ELSE IF \E r \in selected : r.status # "recorded" THEN "latest-run-unmeasured"
    ELSE IF \E r, s \in selected : Context(r) # Context(s) THEN "observation-context-mismatch"
    ELSE IF \E r \in selected : anchor - r.started > MaxWindow THEN "observations-too-far-apart"
    ELSE IF \E r \in selected : anchor - r.completed > ComparisonTime THEN "insufficient-evidence"
    ELSE ""

(* Why the latest runs cannot be compared, or "".  All of them must be     *)
(* usable: nobody picks a convenient subset.                               *)
qualityDiagnosisPrecondition(selected, anchor) ==
    IF Cardinality(selected) < 2 THEN "insufficient-evidence"
    ELSE IF \E r \in selected : r.status # "recorded" THEN "latest-run-unmeasured"
    ELSE IF \E r, s \in selected : Context(r) # Context(s) THEN "observation-context-mismatch"
    ELSE IF \E r \in selected : anchor - r.started > MaxWindow THEN "observations-too-far-apart"
    ELSE IF \E r \in selected : anchor - r.completed >= ComparisonTime THEN "insufficient-evidence"
    ELSE ""

CorroborationInput(selected) ==
    LET Of(kind) == {AsSample(r.run) : r \in {s \in selected : s.run.kind = kind}}
        first == CHOOSE r \in selected : TRUE
    IN  [network |-> Of("gateway"), resolvers |-> Of("resolver"), https |-> Of("https"),
         iface |-> first.run.selection.iface, family |-> first.run.selection.family]

ComparisonWindow(selected, anchor) ==
    [start |-> Earliest({r.started : r \in selected}), asOf |-> anchor,
     freshness |-> ComparisonTime, skew |-> ComparisonTime]

(* diagnoseRetainedQuality; Nil stands for ErrQualityHistory.              *)
diagnoseRetainedQuality(out, pages) ==
    LET tops == {SelectLatest(pages[k].runs) : k \in Kinds}
        selected == {DiagnosisRun(r) : r \in UNION tops}
        anchor == IF selected = {} THEN Nil ELSE Last({r.run.lastAuditAt : r \in selected})
        bounded == [out EXCEPT !.selected = selected, !.assessmentAt = anchor,
                       !.truncated = \E k \in Kinds : pages[k].truncated,
                       !.scanTruncated = \E k \in Kinds : pages[k].scanTruncated]
        why == IF bounded.truncated \/ bounded.scanTruncated THEN "history-incomplete"
               ELSE qualityDiagnosisPrecondition(selected, anchor)
        result == Corroborate(CorroborationInput(selected), ComparisonWindow(selected, anchor))
    IN  IF \E top \in tops : Cardinality(top) > 1 THEN Nil
        ELSE IF why # "" THEN Joined(bounded, Nothing(why))
        ELSE IF result = Nil THEN Nil ELSE Joined(bounded, result)

NotEnrolled(readAt) ==
    [enrolled |-> FALSE, readAt |-> readAt, truncated |-> FALSE, scanTruncated |-> FALSE,
     selected |-> {}, assessmentAt |-> Nil]
-------------------------------------------------------------------------------
(* validatedHTTPSHistoryRun and its resolver twin: the web sees only the   *)
(* latest phase of a run, describes that alone, and must come to the same  *)
(* assessment.                                                             *)
LatestPhase(r) ==
    [kind |-> r.kind, run |-> r.run, selection |-> r.selection, at |-> r.lastAuditAt,
     state |-> IF "finished" \in r.retained THEN "finished"
               ELSE IF "admitted" \in r.retained THEN "admitted" ELSE "authorized",
     outcome |-> IF "finished" \in r.retained THEN r.outcome ELSE Nil,
     measurement |-> r.measurement]

RevalidatedRun(r, asOf) ==
    /\ r.retained # {}
    /\ "finished" \notin r.retained => r.outcome = "unknown" /\ r.measurement = Nil
    /\ DescribeAcceptsRun(r.kind, {LatestPhase(r)}, asOf)
    /\ DescribeRetainedRun({LatestPhase(r)}).assessment = r.assessment

ShowsGatewayRun(r, asOf) ==
    /\ r.retained # {}
    /\ IF "finished" \notin r.retained THEN r.outcome = "unknown" /\ r.measurement = Nil
       ELSE r.outcome = "completed" => r.measurement # Nil /\ r.measurement.complete
    /\ r.measurement # Nil =>
          /\ ValidTimes("gateway", r.measurement, r.lastAuditAt)
          /\ r.outcome \in {"completed", "canceled", "failed"}
          /\ r.outcome = "failed" => ~r.measurement.complete
    /\ r.assessment = HistoricalAssessment(r)

ShownInWindow(page, asOf) ==
    /\ Cardinality(page.runs) <= MaxHistoryRuns
    /\ \A r \in page.runs : asOf - HistoryWindow <= r.lastAuditAt /\ r.lastAuditAt <= asOf
    /\ \A r, s \in page.runs : r.run = s.run => r = s

projectWebGatewayHistory(page, asOf) ==
    ShownInWindow(page, asOf) /\ \A r \in page.runs : ShowsGatewayRun(r, asOf)
projectWebResolverHistory(page, asOf) ==
    ShownInWindow(page, asOf) /\ \A r \in page.runs : RevalidatedRun(r, asOf)
projectWebHTTPSHistory(page, asOf) ==
    ShownInWindow(page, asOf) /\ \A r \in page.runs : RevalidatedRun(r, asOf)

(* What the web requires of one selected run.                              *)
ShowsSelected(item, v) ==
    LET r == item.run IN
    /\ v.readAt - HistoryWindow <= r.lastAuditAt /\ r.lastAuditAt <= v.readAt
    /\ item.status = "missing-terminal" <=> r.outcome = "unknown"
    /\ \/ /\ item.status \in {"missing-terminal", "no-measurement"}
          /\ item.started = Nil /\ item.completed = Nil
       \/ /\ item.status \in {"incomplete", "recorded"}
          /\ item.started # Nil /\ item.started <= r.lastAuditAt
          /\ r.outcome \in {"completed", "failed", "canceled"}
          /\ item.status = "incomplete" => r.outcome # "completed"
          /\ item.completed = Nil => item.status # "recorded" /\ r.kind = "gateway"
          /\ item.completed # Nil =>
                /\ item.started <= item.completed /\ item.completed <= r.lastAuditAt
                /\ r.kind # "https" => item.completed - item.started < OperationTimeout
          /\ (r.kind = "gateway" /\ item.status = "recorded") =>
                r.outcome # "failed" /\ item.completed - item.started >= MinSample
    /\ (r.kind = "resolver" /\ r.outcome = "completed") => item.status = "recorded"
    /\ r.kind = "https" =>
          /\ projectWebHTTPSHistory([runs |-> {r}], v.readAt)
          /\ item.status = SampleStatus(r)

ShownConclusions ==
    {"dns-query-issue-with-responses", "icmp-misses-with-responses",
     "external-check-issue-with-responses", "problems-across-selected-layers",
     "selected-checks-matched", "mixed-or-limited-evidence"}

projectWebQualityDiagnosis(v) ==
    LET Of(kind) == {r \in v.selected : r.run.kind = kind}
        anchor == IF v.selected = {} THEN Nil ELSE Last({r.run.lastAuditAt : r \in v.selected})
        expected == IF ~v.enrolled THEN "not-enrolled"
                    ELSE IF v.truncated \/ v.scanTruncated THEN "history-incomplete"
                    ELSE qualityDiagnosisPrecondition(v.selected, anchor)
    IN  /\ v.enrolled \/ (v.selected = {} /\ ~v.truncated /\ ~v.scanTruncated)
        /\ \A k \in Kinds : Cardinality(Of(k)) <= 1
        /\ \A r \in v.selected : ShowsSelected(r, v)
        /\ v.assessmentAt = anchor
        /\ IF expected # ""
           THEN /\ v.conclusion = expected /\ v.confidence = "unknown"
                /\ v.compared = {} /\ v.start = Nil /\ v.end = Nil
           ELSE /\ v.conclusion \in ShownConclusions /\ v.confidence = "limited"
                /\ v.conclusion = "external-check-issue-with-responses" =>
                      Of("https") # {} /\ \A r \in Of("https") : r.run.assessment.matched # TRUE
                /\ v.conclusion = "selected-checks-matched" =>
                      \A r \in Of("https") : r.run.assessment.matched = TRUE
                /\ v.conclusion = "dns-query-issue-with-responses" => Of("resolver") # {}
                /\ v.conclusion = "icmp-misses-with-responses" => Of("gateway") # {}
                /\ v.compared = {<<r.run.kind, r.run.run>> : r \in v.selected}
                /\ v.start = Earliest({r.started : r \in v.selected})
                /\ v.end = Last({r.completed : r \in v.selected})
-------------------------------------------------------------------------------
(* The reads.  "refused" is an answer: the network is not the one that was *)
(* enrolled when the read began.  "failed" and "rejected" are what the web *)
(* reports as unavailable, because the controller or the web itself found  *)
(* the history inconsistent.                                               *)
BeginRead(request) ==
    /\ reader.stage = "idle"
    /\ reader' = [stage |-> IF enrolled = Nil THEN "answered" ELSE "bound", request |-> request,
                  readAt |-> wall, binding |-> enrolled, rows |-> {},
                  answer |-> IF request = "diagnosis" THEN Joined(NotEnrolled(wall), Nothing("not-enrolled"))
                             ELSE [runs |-> {}, truncated |-> FALSE, scanTruncated |-> FALSE]]
    /\ UNCHANGED <<wall, enrolled, trail, running, faults>>

ReadPages(k, scanned) ==
    CASE k = "gateway"  -> ReadGatewayHistory(trail, scanned, reader.binding.scope, reader.readAt)
      [] k = "resolver" -> ReadResolverHistory(trail, scanned, reader.binding.scope, reader.readAt)
      [] k = "https"    -> ReadHTTPSHistory(trail, scanned, reader.binding.scope, reader.readAt)

(* readQualityHistory reads the three lists from one snapshot.             *)
ReadSnapshot ==
    /\ reader.stage = "bound"
    /\ IF enrolled = Nil \/ enrolled.scope # reader.binding.scope
       THEN reader' = [reader EXCEPT !.stage = "refused"]
       ELSE \E scanned \in Newest(InWindow(trail, reader.readAt), MaxHistoryScan, RowTime) :
            \E gateway \in ReadPages("gateway", scanned), resolver \in ReadPages("resolver", scanned),
               https \in ReadPages("https", scanned) :
               LET pages == [gateway |-> gateway, resolver |-> resolver, https |-> https]
                   wanted == IF reader.request = "diagnosis" THEN Kinds ELSE {reader.request}
               IN  reader' = [reader EXCEPT
                      !.stage = IF \E k \in wanted : pages[k] = Nil THEN "failed" ELSE "read",
                      !.rows = trail,
                      !.answer = IF reader.request = "diagnosis" THEN pages ELSE pages[reader.request]]
    /\ UNCHANGED <<wall, enrolled, trail, running, faults>>

(* The binding is read again; only an unchanged one is answered for.       *)
AnswerRead ==
    /\ reader.stage = "read"
    /\ LET out == [NotEnrolled(reader.readAt) EXCEPT !.enrolled = TRUE]
           answer == IF reader.request = "diagnosis" THEN diagnoseRetainedQuality(out, reader.answer)
                     ELSE reader.answer
       IN  reader' = IF enrolled # reader.binding THEN [reader EXCEPT !.stage = "refused"]
                     ELSE IF answer = Nil THEN [reader EXCEPT !.stage = "failed"]
                     ELSE [reader EXCEPT !.stage = "answered", !.answer = answer]
    /\ UNCHANGED <<wall, enrolled, trail, running, faults>>

WebShows ==
    /\ reader.stage = "answered"
    /\ LET fits == CASE reader.request = "gateway" -> projectWebGatewayHistory(reader.answer, reader.readAt)
                     [] reader.request = "resolver" -> projectWebResolverHistory(reader.answer, reader.readAt)
                     [] reader.request = "https" -> projectWebHTTPSHistory(reader.answer, reader.readAt)
                     [] reader.request = "diagnosis" -> projectWebQualityDiagnosis(reader.answer)
       IN  reader' = [reader EXCEPT !.stage = IF fits THEN "shown" ELSE "rejected"]
    /\ UNCHANGED <<wall, enrolled, trail, running, faults>>

(* One read of one list: the handlers of the controller and of the web.    *)
Serves(request) ==
    \/ BeginRead(request)
    \/ reader.stage # "idle" /\ reader.request = request /\ (ReadSnapshot \/ AnswerRead)
Shows(request) == reader.stage # "idle" /\ reader.request = request /\ WebShows

GatewayHistory == Serves("gateway")
ResolverHistory == Serves("resolver")
HTTPSHistory == Serves("https")
ServesDiagnosis == Serves("diagnosis")
handleGatewayHistory == Shows("gateway")
handleResolverHistory == Shows("resolver")
handleHTTPSHistory == Shows("https")
handleQualityDiagnosis == Shows("diagnosis")

HistoryNext ==
    \/ \E k \in Kinds : \/ \E family \in Families[k] : RunAuthorized(k, family)
                        \/ RunAdmitted(k) \/ RunFinished(k)
    \/ WallTicks \/ ControllerRestarts \/ BindingChanges
    \/ GatewayHistory \/ ResolverHistory \/ HTTPSHistory \/ ServesDiagnosis
    \/ handleGatewayHistory \/ handleResolverHistory \/ handleHTTPSHistory
    \/ handleQualityDiagnosis

HistorySpec == HistoryInit /\ [][HistoryNext]_historyVars
-------------------------------------------------------------------------------
(* Two runs of one kind whose latest rows carry the same time.             *)
Tied ==
    \E r, s \in InWindow(reader.rows, reader.readAt) :
       r.kind = s.kind /\ r.run # s.run /\ r.at = s.at

(* Whatever the run controls wrote, in whatever phase a run is, was        *)
(* abandoned or failed, however the clock was set between runs and however *)
(* the bounded lists were cut: a history or diagnosis that the controller  *)
(* reads is one that it can describe and that the web accepts, unless two  *)
(* runs of one kind cannot be ordered.  The controller and the web check   *)
(* the evidence separately, so this is an agreement of four packages.      *)
RetainedIsShown ==
    /\ reader.stage # "rejected"
    /\ reader.stage = "failed" => Tied

(* A comparison rests on the newest run of every layer that has one in the *)
(* enrolled scope: the newest audit row of a kind belongs to a run that is *)
(* compared, so a newer run that is unfinished, unmeasured or incomplete   *)
(* is never passed over for an older success.                              *)
NewestIsCompared ==
    (reader.stage \in {"answered", "shown"} /\ reader.request = "diagnosis"
        /\ reader.answer.confidence = "limited") =>
       \A r \in InWindow(reader.rows, reader.readAt) :
          \/ r.selection.scope # reader.binding.scope
          \/ <<r.kind, r.run>> \in reader.answer.compared
          \/ \E s \in InWindow(reader.rows, reader.readAt) :
                s.kind = r.kind /\ s.at > r.at /\ <<s.kind, s.run>> \in reader.answer.compared
===============================================================================
