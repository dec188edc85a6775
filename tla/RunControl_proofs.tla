-------------------------- MODULE RunControl_proofs --------------------------
(*****************************************************************************)
(* Proofs about RunControl, for any callers, tickets, selections, limits     *)
(* and any length of time: who may run, what is durable before an            *)
(* execution, what a held review is worth, and what shutdown and faults put  *)
(* an end to.                                                                *)
(*****************************************************************************)
EXTENDS RunControl, TLAPS

-------------------------------------------------------------------------------
(* Types *)

(* What a caller's locals hold where its code uses them. *)
LocalsSet ==
    \A c \in Callers :
       /\ pc[c] = "inspect" \/ pc[c] \in RunPhases => start[c] \in Instants
       /\ pc[c] \in RunPhases => review[c] \in Reviews
       /\ pc[c] \in {"authorizing", "admitting", "finishing", "execute"} => seen[c] \in Int
       /\ pc[c] \in {"finish", "finishing"} => verdict[c] \in Outcomes
       /\ pc[c] \in {"admit", "admitting", "launch"} => fresh[c] = review[c].selection

Typed == TypeOK /\ LocalsSet

LEMMA PcType == Typed => pc \in [Callers -> Stages]
  BY Zenon DEF Typed, TypeOK

LEMMA ClockType == Typed => mono \in Nat /\ wall \in Int /\ notBefore \in Nat
  BY Zenon DEF Typed, TypeOK

LEMMA EntryType ==
    Typed => /\ start \in [Callers -> Instants \cup {None}]
             /\ review \in [Callers -> Reviews \cup {None}]
  BY Zenon DEF Typed, TypeOK

LEMMA HistoryType ==
    Typed => /\ \A a \in admissions : a.run \in Tickets /\ a.at \in Nat
             /\ \A x \in executions : x.run \in Tickets /\ x.at \in Nat
  BY Zenon DEF Typed, TypeOK

LEMMA NothingType ==
    /\ Nothing \in [Callers -> Instants \cup {None}]
    /\ Nothing \in [Callers -> Reviews \cup {None}]
    /\ Nothing \in [Callers -> Int \cup {None}]
    /\ Nothing \in [Callers -> Selections \cup {None}]
    /\ Nothing \in [Callers -> Measurements \cup {None}]
    /\ Nothing \in [Callers -> Outcomes \cup {None}]
  BY Zenon DEF Nothing

LEMMA TypedInit == Init => Typed
<1> SUFFICES ASSUME Init PROVE Typed
  BY Zenon
<1>1. pc \in [Callers -> Stages] /\ LocalsSet
  BY Zenon DEF Init, LocalsSet, Stages, RunPhases
<1>2. mono \in Nat /\ wall \in Int /\ lastWall \in Int /\ notBefore \in Nat
  BY ConstantsAssumption DEF Init
<1>3. /\ start = Nothing /\ review = Nothing /\ seen = Nothing /\ fresh = Nothing
      /\ measured = Nothing /\ verdict = Nothing
      /\ pending = None /\ fault = None
  BY Zenon DEF Init
<1>4. /\ audit = {} /\ issued = {} /\ handed = {} /\ admissions = {} /\ executions = {}
      /\ reported = {} /\ activeCancel = {} /\ canceled = {}
      /\ busy \in BOOLEAN /\ closed \in BOOLEAN /\ drained \in BOOLEAN
  BY Zenon DEF Init
<1> QED BY <1>1, <1>2, <1>3, <1>4, NothingType, Zenon DEF Typed, TypeOK

LEMMA ReviewType ==
    ASSUME TypeOK, NEW t \in Tickets, NEW s \in Selections, NEW observed \in Int
    PROVE Review(t, s, observed) \in Reviews
  BY ConstantsAssumption DEF TypeOK, Review, Reviews

LEMMA EventType ==
    ASSUME Typed, NEW c \in Callers, NEW state \in Phases,
           \/ pc[c] = "authorizing" /\ state = "authorized"
           \/ pc[c] = "admitting" /\ state = "admitted"
           \/ pc[c] = "finishing" /\ state = "finished"
    PROVE Event(c, state) \in Events
<1>1. review[c] \in Reviews /\ seen[c] \in Int
  BY Zenon DEF Typed, LocalsSet, RunPhases
<1>2. review[c].ticket \in Tickets /\ review[c].selection \in Selections
  BY <1>1, Zenon DEF Reviews
<1>3. state = "finished" => verdict[c] \in Outcomes
  BY Zenon DEF Typed, LocalsSet, RunPhases
<1>4. measured[c] \in Measurements \cup {None}
  BY Zenon DEF Typed, TypeOK
<1> QED BY <1>1, <1>2, <1>3, <1>4, Zenon DEF Event, Events

LEMMA VerdictType ==
    ASSUME NEW c \in Callers, NEW sample, NEW err PROVE Verdict(c, sample, err) \in Outcomes
  BY Zenon DEF Verdict, Outcomes

(* One insert keeps the types, whatever becomes of it. *)
LEMMA InsertTyped ==
    ASSUME Typed, NEW c \in Callers, NEW from, NEW state, NEW to, Insert(c, from, state, to),
           \/ from = "authorizing" /\ state = "authorized" /\ to = "revalidate"
           \/ from = "admitting" /\ state = "admitted" /\ to = "launch"
           \/ from = "finishing" /\ state = "finished" /\ to = "release"
    PROVE Typed'
<1>1. Event(c, state) \in Events
  BY EventType, Zenon DEF Insert, Phases
<1>2. state = "finished" => Event(c, state).outcome \in Outcomes
  BY Zenon DEF Event, Typed, LocalsSet, Insert, RunPhases
<1>3. Event(c, state).run \in Tickets
  BY <1>1, Zenon DEF Events
<1>4. audit' \subseteq Events
  BY <1>1, Zenon DEF Insert, Typed, TypeOK
<1>5. reported' \subseteq [run : Tickets, outcome : Outcomes]
  BY <1>2, <1>3 DEF Insert, Typed, TypeOK
<1>6. /\ fault' \in {None, "clock", "audit"} /\ pending' \in Reviews \cup {None}
      /\ canceled' \subseteq Callers
  BY Zenon DEF Insert, Lock, Typed, TypeOK
<1>7. pc' = [pc EXCEPT ![c] = to] \/ pc' = [pc EXCEPT ![c] = "release"]
  BY Zenon DEF Insert, Goto
<1>8. TypeOK'
  BY <1>4, <1>5, <1>6, <1>7, Zenon DEF Insert, Typed, TypeOK, Stages, RunPhases,
     clocks, slot, shutdown, locals, entry, result, tickets
<1>9. LocalsSet'
  BY <1>7 DEF Insert, Typed, TypeOK, LocalsSet, Stages, RunPhases, locals, entry, result
<1> QED BY <1>8, <1>9, Zenon DEF Typed

(* Every step keeps the types and the locals. *)
LEMMA TypedStep == Typed /\ [Next]_vars => Typed'
<1> SUFFICES ASSUME Typed, [Next]_vars PROVE Typed'
  BY Zenon
<1> USE ConstantsAssumption DEF Typed, TypeOK, LocalsSet, Stages, RunPhases, Goto,
    clocks, control, slot, shutdown, locals, entry, result, tickets, history
<1>1. ASSUME NEW c \in Callers, Refuse(c) \/ InspectFails(c) \/ InspectRefused(c) \/ AbandonRun(c)
      PROVE Typed'
  BY <1>1 DEF Refuse, InspectFails, InspectRefused, AbandonRun
<1>2. ASSUME NEW c \in Callers, Prepare(c) PROVE Typed'
  <2>1. Now \in Instants
    BY DEF Now, Instants
  <2> QED BY <1>2, <2>1, Zenon DEF Prepare
<1>3. ASSUME NEW c \in Callers, IssueReview(c) PROVE Typed'
  <2>1. PICK t \in Tickets \ issued, s \in Selections, observed \in start[c].wall..wall :
          /\ pending' = Review(t, s, observed)
          /\ review' = [review EXCEPT ![c] = Review(t, s, observed)]
          /\ issued' = issued \cup {t}
    BY <1>3, Zenon DEF IssueReview
  <2>2. Review(t, s, observed) \in Reviews
    BY ReviewType
  <2> QED BY <1>3, <2>1, <2>2, Zenon DEF IssueReview
<1>4. ASSUME NEW c \in Callers, NEW t \in handed, Run(c, t) PROVE Typed'
  <2>1. Now \in Instants /\ pending \in Reviews
    BY <1>4 DEF Run, Now, Instants
  <2>2. CASE Live(pending) /\ ~busy /\ mono >= notBefore
    BY <1>4, <2>1, <2>2 DEF Run
  <2>3. CASE ~(Live(pending) /\ ~busy /\ mono >= notBefore)
    BY <1>4, <2>3, Zenon DEF Run
  <2> QED BY <2>2, <2>3, Zenon
<1>5. ASSUME NEW c \in Callers, Authorize(c) \/ Admit(c) \/ Conclude(c) PROVE Typed'
  BY <1>5 DEF Authorize, Admit, Conclude, RecordTime
<1>6. ASSUME NEW c \in Callers, InsertAuthorized(c) \/ InsertAdmitted(c) \/ InsertFinished(c)
      PROVE Typed'
  BY <1>6, InsertTyped, Zenon DEF InsertAuthorized, InsertAdmitted, InsertFinished
<1>7. ASSUME NEW c \in Callers, RevalidateStops(c) \/ ExecutorPanics(c) PROVE Typed'
  BY <1>7 DEF RevalidateStops, ExecutorPanics, Finish, Outcomes
<1>8. ASSUME NEW c \in Callers, Revalidate(c) PROVE Typed'
  BY <1>8 DEF Revalidate, Finish, SameSelection, Outcomes
<1>9. ASSUME NEW c \in Callers, Launch(c) PROVE Typed'
  <2>1. [run |-> review[c].ticket, at |-> mono, selection |-> fresh[c]]
          \in [run : Tickets, at : Nat, selection : Selections]
    BY <1>9, Zenon DEF Launch, Reviews
  <2>2. CASE c \notin canceled /\ Live(review[c]) /\ ~Overlong(c)
    BY <1>9, <2>1, <2>2 DEF Launch
  <2>3. CASE ~(c \notin canceled /\ Live(review[c]) /\ ~Overlong(c))
    BY <1>9, <2>3 DEF Launch, Finish, Outcomes
  <2> QED BY <2>2, <2>3, Zenon
<1>10. ASSUME NEW c \in Callers, ExecutorReturns(c) PROVE Typed'
  <2>1. PICK sample \in Samples(c), err \in Errors :
          /\ Finish(c, Verdict(c, sample, err))
          /\ measured' = [measured EXCEPT ![c] =
                IF sample = None \/ ~ValidSample(c, sample, err) THEN None
                ELSE [started |-> sample.started, complete |-> Complete(sample)]]
    BY <1>10, Zenon DEF ExecutorReturns
  <2>2. sample # None => sample.started \in Int
    <3>1. sample = None \/ sample \in [started : (seen[c] - 1)..wall,
                                       form : {"partial", "complete"} \cup
                                              IF Kind = "gateway" THEN {} ELSE {"timeout"}]
      BY Zenon DEF Samples
    <3>2. \A i \in (seen[c] - 1)..wall : i \in Int
      OBVIOUS
    <3> QED BY <3>1, <3>2, Zenon
  <2>3. measured' \in [Callers -> Measurements \cup {None}]
    BY <2>1, <2>2, Zenon DEF Measurements, Complete
  <2>4. Verdict(c, sample, err) \in Outcomes
    BY VerdictType, Zenon
  <2> QED BY <1>10, <2>1, <2>3, <2>4, Zenon DEF ExecutorReturns, Finish
<1>11. ASSUME NEW c \in Callers, ClockFails(c) PROVE Typed'
  BY <1>11, Zenon DEF ClockFails, Lock
<1>12. ASSUME NEW c \in Callers, Release(c) PROVE Typed'
  <2>1. handed' \subseteq Tickets
    BY <1>12, Zenon DEF Release, Reviews
  <2> QED BY <1>12, <2>1, Zenon DEF Release, Forget
<1>13. ASSUME NEW t \in handed, Discard(t) PROVE Typed'
  BY <1>13, Zenon DEF Discard
<1>14. CASE Close
  BY <1>14, Zenon DEF Close
<1>15. ASSUME NEW c \in Callers, CallerCancels(c) \/ DeadlinePasses(c) PROVE Typed'
  BY <1>15, Zenon DEF CallerCancels, DeadlinePasses
<1>16. CASE Tick
  BY <1>16 DEF Tick
<1>17. CASE SetClock
  BY <1>17 DEF SetClock
<1>18. CASE Restart
  <2>1. pc' \in [Callers -> Stages] /\ LocalsSet'
    BY <1>18, Zenon DEF Restart
  <2>4. notBefore' \in Nat /\ lastWall' \in Int /\ mono' = mono /\ wall' = wall
    BY <1>18 DEF Restart
  <2>2. /\ start' = Nothing /\ review' = Nothing /\ seen' = Nothing /\ fresh' = Nothing
        /\ measured' = Nothing /\ verdict' = Nothing
    BY <1>18, Zenon DEF Restart
  <2>3. TypeOK'
    BY <1>18, <2>4, <2>1, <2>2, NothingType DEF Restart
  <2> QED BY <2>1, <2>3, Zenon
<1>19. CASE UNCHANGED vars
  BY <1>19, Zenon DEF vars
<1> QED
  BY <1>1, <1>2, <1>3, <1>4, <1>5, <1>6, <1>7, <1>8, <1>9, <1>10, <1>11, <1>12, <1>13,
     <1>14, <1>15, <1>16, <1>17, <1>18, <1>19, Zenon DEF Next, PrepareStep, RunStep

(* Every variable of the run control keeps its type. *)
THEOREM TypeCorrect == Spec => []TypeOK
<1>1. Typed => TypeOK
  BY Zenon DEF Typed
<1> QED BY <1>1, TypedInit, TypedStep, PTL DEF Spec

-------------------------------------------------------------------------------
(* The reservation *)

(* Steps that leave the reservation with whoever holds it. *)
LEMMA SlotKept ==
    ASSUME Typed, OneOperation, NEW c \in Callers, NEW where \in Stages \ {"idle"},
           pc[c] # "idle", Goto(c, where), UNCHANGED slot
    PROVE OneOperation'
<1>1. Reserved' = Reserved
  BY Zenon DEF Reserved, Goto, Typed, TypeOK
<1> QED BY <1>1, Zenon DEF OneOperation, slot

LEMMA SlotTaken ==
    ASSUME Typed, OneOperation, NEW c \in Callers, NEW where \in Stages \ {"idle"},
           ~busy, Goto(c, where), busy' = TRUE, activeCancel' = {c}
    PROVE OneOperation'
<1>1. Reserved = {}
  BY Zenon DEF OneOperation
<1>2. Reserved' = {c}
  BY <1>1, Zenon DEF Reserved, Goto, Typed, TypeOK
<1> QED BY <1>2, Zenon DEF OneOperation

LEMMA SlotStep == Typed /\ OneOperation /\ [Next]_vars => OneOperation'
<1> SUFFICES ASSUME Typed, OneOperation, [Next]_vars PROVE OneOperation'
  BY Zenon
<1> USE DEF Stages, RunPhases
<1>1. ASSUME NEW c \in Callers, Prepare(c) PROVE OneOperation'
  BY <1>1, SlotTaken, Zenon DEF Prepare
<1>2. ASSUME NEW c \in Callers, NEW t \in handed, Run(c, t) PROVE OneOperation'
  <2>1. CASE Live(pending) /\ ~busy /\ mono >= notBefore
    BY <1>2, <2>1, SlotTaken, Zenon DEF Run
  <2>2. CASE ~(Live(pending) /\ ~busy /\ mono >= notBefore)
    BY <1>2, <2>2, Zenon DEF Run, OneOperation, Reserved
  <2> QED BY <2>1, <2>2, Zenon
<1>3. ASSUME NEW c \in Callers, PrepareStep(c), ~Prepare(c) PROVE OneOperation'
  BY <1>3, SlotKept, Zenon DEF PrepareStep, InspectFails, InspectRefused, IssueReview, control
<1>4. ASSUME NEW c \in Callers, RunStep(c) PROVE OneOperation'
  <2>1. PICK where \in Stages \ {"idle"} : Goto(c, where)
    BY <1>4, Zenon DEF RunStep, AbandonRun, Authorize, Admit, Conclude, RecordTime, InsertAuthorized,
       InsertAdmitted, InsertFinished, Insert, RevalidateStops, Revalidate, Launch,
       ExecutorPanics, ExecutorReturns, Finish
  <2>2. pc[c] # "idle" /\ UNCHANGED slot
    BY <1>4, Zenon DEF RunStep, AbandonRun, Authorize, Admit, Conclude, RecordTime, InsertAuthorized,
       InsertAdmitted, InsertFinished, Insert, RevalidateStops, Revalidate, Launch,
       ExecutorPanics, ExecutorReturns, control
  <2> QED BY <2>1, <2>2, SlotKept, Zenon
<1>5. ASSUME NEW c \in Callers, ClockFails(c) PROVE OneOperation'
  <2>1. CASE pc[c] = "idle"
    BY <1>5, <2>1 DEF ClockFails, Goto, OneOperation, Reserved, slot, Typed, TypeOK
  <2>2. CASE pc[c] # "idle"
    BY <1>5, <2>2, SlotKept, Zenon DEF ClockFails
  <2> QED BY <2>1, <2>2, Zenon
<1>6. ASSUME NEW c \in Callers, Release(c) PROVE OneOperation'
  <2>1. Reserved = {c}
    BY <1>6, Zenon DEF Release, OneOperation, Reserved
  <2>2. Reserved' = {}
    BY <1>6, <2>1, Zenon DEF Release, Goto, Reserved, Typed, TypeOK
  <2> QED BY <1>6, <2>2, Zenon DEF Release, OneOperation
<1>7. CASE Restart
  BY <1>7, Zenon DEF Restart, OneOperation, Reserved
<1>8. ASSUME UNCHANGED <<pc, slot>> PROVE OneOperation'
  BY <1>8, Zenon DEF OneOperation, Reserved, slot
<1>9. ASSUME NEW c \in Callers, Refuse(c) \/ CallerCancels(c) \/ DeadlinePasses(c)
      PROVE OneOperation'
  BY <1>9, <1>8, Zenon DEF Refuse, CallerCancels, DeadlinePasses, control
<1>10. CASE (\E t \in handed : Discard(t)) \/ Close \/ Tick \/ SetClock \/ UNCHANGED vars
  BY <1>10, <1>8, Zenon DEF Discard, Close, Tick, SetClock, control, vars
<1> QED
  BY <1>1, <1>2, <1>3, <1>4, <1>5, <1>6, <1>7, <1>9, <1>10, Zenon DEF Next

(* The reservation of the control is exclusive, and busy and activeCancel  *)
(* always describe its holder.                                             *)
THEOREM Exclusive == Spec => []OneOperation
<1>1. Init => OneOperation
  BY Zenon DEF Init, OneOperation, Reserved
<1> QED BY <1>1, TypedInit, TypedStep, SlotStep, PTL DEF Spec

-------------------------------------------------------------------------------
(* The interval between runs *)

(* Only Run admits, and the interval it starts never shrinks. *)
LEMMA AdmissionFrame ==
    ASSUME Typed, [Next]_vars
    PROVE \/ \E c \in Callers, t \in handed : Run(c, t)
          \/ /\ UNCHANGED admissions
             /\ mono' >= mono
             /\ notBefore' = notBefore \/ notBefore' = mono + RunInterval
<1> DEFINE Framed == /\ UNCHANGED admissions
                     /\ mono' >= mono
                     /\ notBefore' = notBefore \/ notBefore' = mono + RunInterval
<1>1. UNCHANGED <<admissions, mono, notBefore>> => Framed
  BY DEF Typed, TypeOK
<1>2. ASSUME NEW c \in Callers, Refuse(c) \/ PrepareStep(c) \/ ClockFails(c) \/ Release(c)
                                \/ CallerCancels(c) \/ DeadlinePasses(c)
      PROVE Framed
  BY <1>1, <1>2, Zenon DEF Refuse, PrepareStep, Prepare, InspectFails, InspectRefused, IssueReview,
     ClockFails, Release, CallerCancels, DeadlinePasses, clocks, control, history
<1>3. ASSUME NEW c \in Callers, RunStep(c) PROVE Framed
  BY <1>1, <1>3, Zenon DEF RunStep, AbandonRun, Authorize, Admit, Conclude, RecordTime,
     InsertAuthorized, InsertAdmitted, InsertFinished, Insert, RevalidateStops, Revalidate,
     Launch, ExecutorPanics, ExecutorReturns, clocks, control, history
<1>4. CASE (\E t \in handed : Discard(t)) \/ Close \/ SetClock \/ UNCHANGED vars
  BY <1>1, <1>4, Zenon DEF Discard, Close, SetClock, clocks, control, history, vars
<1>5. CASE Tick
  BY <1>5, ClockType DEF Tick, control, history
<1>6. CASE Restart
  BY <1>6, ClockType DEF Restart, clocks, history
<1> QED BY <1>2, <1>3, <1>4, <1>5, <1>6, Zenon DEF Next

Spaced ==
    /\ \A a \in admissions : a.at <= mono /\ a.at + RunInterval <= notBefore
    /\ \A a, b \in admissions : a # b => Apart(a.at, b.at, RunInterval)

LEMMA SpacedStep == Typed /\ Spaced /\ [Next]_vars => Spaced'
<1> SUFFICES ASSUME Typed, Spaced, [Next]_vars PROVE Spaced'
  BY Zenon
<1>1. /\ mono \in Nat /\ notBefore \in Nat /\ mono' \in Nat /\ notBefore' \in Nat
      /\ \A a \in admissions : a.at \in Nat
  <2>1. Typed'
    BY TypedStep, Zenon
  <2>2. mono' \in Nat /\ notBefore' \in Nat
    BY <2>1, Zenon DEF Typed, TypeOK
  <2> QED BY <2>2, ClockType, HistoryType, Zenon
<1>2. ASSUME NEW c \in Callers, NEW t \in handed, Run(c, t) PROVE Spaced'
  <2>1. CASE Live(pending) /\ ~busy /\ mono >= notBefore
    <3> DEFINE new == [run |-> t, at |-> mono]
    <3>1. /\ admissions' = admissions \cup {new} /\ new.at = mono
          /\ mono' = mono /\ notBefore' = mono + RunInterval
      BY <1>2, <2>1, Zenon DEF Run, clocks
    <3>2. \A a \in admissions : a.at + RunInterval <= mono
      BY <1>1, <2>1, ConstantsAssumption DEF Spaced
    <3>3. \A a \in admissions' : a.at <= mono' /\ a.at + RunInterval <= notBefore'
      BY <1>1, <3>1, <3>2, ConstantsAssumption
    <3>4. \A a \in admissions : Apart(a.at, mono, RunInterval) /\ Apart(mono, a.at, RunInterval)
      BY <1>1, <3>2, ConstantsAssumption DEF Apart
    <3> HIDE DEF new
    <3> QED BY <3>1, <3>3, <3>4, Zenon DEF Spaced
  <2>2. CASE ~(Live(pending) /\ ~busy /\ mono >= notBefore)
    BY <1>2, <2>2, Zenon DEF Run, clocks, Spaced
  <2> QED BY <2>1, <2>2, Zenon
<1>3. ASSUME UNCHANGED admissions, mono' >= mono,
             notBefore' = notBefore \/ notBefore' = mono + RunInterval
      PROVE Spaced'
  <2>1. \A a \in admissions : a.at <= mono' /\ a.at + RunInterval <= notBefore'
    BY <1>1, <1>3, ConstantsAssumption DEF Spaced
  <2> QED BY <1>3, <2>1, Zenon DEF Spaced
<1> QED BY <1>2, <1>3, AdmissionFrame, Zenon

-------------------------------------------------------------------------------
(* Tickets *)

(* Only IssueReview, Run, Release and Restart touch tickets; any other     *)
(* step can only drop the pending review.                                  *)
LEMMA TicketFrame ==
    ASSUME [Next]_vars
    PROVE \/ \E c \in Callers : IssueReview(c) \/ Release(c) \/ \E t \in handed : Run(c, t)
          \/ Restart
          \/ /\ UNCHANGED <<issued, handed, review, admissions>>
             /\ pending' = pending \/ pending' = None
<1> DEFINE Framed == /\ UNCHANGED <<issued, handed, review, admissions>>
                     /\ pending' = pending \/ pending' = None
<1> USE DEF tickets, control, locals, entry, history, Lock
<1>1. ASSUME NEW c \in Callers, Refuse(c) \/ Prepare(c) \/ InspectFails(c) \/ InspectRefused(c)
                                \/ ClockFails(c) \/ CallerCancels(c) \/ DeadlinePasses(c)
      PROVE Framed
  BY <1>1, Zenon DEF Refuse, Prepare, InspectFails, InspectRefused, ClockFails, CallerCancels,
     DeadlinePasses
<1>2. ASSUME NEW c \in Callers, RunStep(c) PROVE Framed
  BY <1>2, Zenon DEF RunStep, AbandonRun, Authorize, Admit, Conclude, RecordTime,
     InsertAuthorized, InsertAdmitted, InsertFinished, Insert, RevalidateStops, Revalidate,
     Launch, ExecutorPanics, ExecutorReturns
<1>3. CASE (\E t \in handed : Discard(t)) \/ Close \/ Tick \/ SetClock \/ UNCHANGED vars
  BY <1>3, Zenon DEF Discard, Close, Tick, SetClock, vars
<1> QED BY <1>1, <1>2, <1>3, Zenon DEF Next, PrepareStep

(* A ticket is drawn once, admitted at most once, and not pending again    *)
(* once it was admitted.                                                   *)
TicketsOnce ==
    /\ handed \subseteq issued
    /\ \A c \in Callers : review[c] # None => review[c].ticket \in issued
    /\ \A a \in admissions : a.run \in issued
    /\ \A a, b \in admissions : a.run = b.run => a = b
    /\ pending # None => /\ pending.ticket \in issued
                         /\ \A a \in admissions : a.run # pending.ticket

LEMMA TicketsStep == Typed /\ TicketsOnce /\ [Next]_vars => TicketsOnce'
<1> SUFFICES ASSUME Typed, TicketsOnce, [Next]_vars PROVE TicketsOnce'
  OBVIOUS
<1> USE EntryType DEF TicketsOnce
<1>1. ASSUME NEW c \in Callers, IssueReview(c) PROVE TicketsOnce'
  <2>1. PICK t \in Tickets \ issued, s \in Selections, observed \in start[c].wall..wall :
          /\ pending' = Review(t, s, observed)
          /\ review' = [review EXCEPT ![c] = Review(t, s, observed)]
          /\ issued' = issued \cup {t}
    BY <1>1, Zenon DEF IssueReview
  <2>2. Review(t, s, observed).ticket = t
    BY Zenon DEF Review
  <2>3. UNCHANGED <<handed, admissions>>
    BY <1>1, Zenon DEF IssueReview, history
  <2>4. \A d \in Callers : review'[d] # None => review'[d].ticket \in issued'
    BY <2>1, <2>2, Zenon
  <2>5. pending' # None => /\ pending'.ticket \in issued'
                           /\ \A a \in admissions' : a.run # pending'.ticket
    BY <2>1, <2>2, <2>3
  <2> QED BY <2>1, <2>3, <2>4, <2>5, Zenon
<1>2. ASSUME NEW c \in Callers, NEW t \in handed, Run(c, t) PROVE TicketsOnce'
  <2>1. CASE Live(pending) /\ ~busy /\ mono >= notBefore
    <3>1. /\ pending # None /\ pending.ticket = t /\ pending' = None
          /\ review' = [review EXCEPT ![c] = pending]
          /\ UNCHANGED <<issued, handed>>
      BY <1>2, <2>1, Zenon DEF Run, tickets
    <3>2. PICK new : new.run = t /\ admissions' = admissions \cup {new}
      BY <1>2, <2>1, Zenon DEF Run
    <3>3. \A d \in Callers : review'[d] # None => review'[d].ticket \in issued'
      BY <3>1, Zenon
    <3> QED BY <3>1, <3>2, <3>3, Zenon
  <2>2. CASE ~(Live(pending) /\ ~busy /\ mono >= notBefore)
    BY <1>2, <2>2, Zenon DEF Run, tickets, entry
  <2> QED BY <2>1, <2>2, Zenon
<1>3. ASSUME NEW c \in Callers, Release(c) PROVE TicketsOnce'
  BY <1>3, Zenon DEF Release, Forget, history
<1>4. CASE Restart
  BY <1>4, Zenon DEF Restart, Nothing, history
<1>5. ASSUME UNCHANGED <<issued, handed, review, admissions>>, pending' = pending \/ pending' = None
      PROVE TicketsOnce'
  BY <1>5, Zenon
<1> QED BY <1>1, <1>2, <1>3, <1>4, <1>5, TicketFrame, Zenon

-------------------------------------------------------------------------------
(* Executions *)

BeforeExecution == RunPhases \ {"execute", "finish", "finishing"}

(* An active run was admitted when it began, an execution at most          *)
(* OperationTimeout after its admission, and once.                         *)
Admitted ==
    /\ \A c \in Callers : pc[c] \in RunPhases =>
          [run |-> review[c].ticket, at |-> start[c].mono] \in admissions
    /\ \A c \in Callers : pc[c] \in BeforeExecution =>
          \A x \in executions : x.run # review[c].ticket
    /\ \A x \in executions : \E a \in admissions :
          a.run = x.run /\ a.at <= x.at /\ x.at <= a.at + OperationTimeout

LEMMA OnTime ==
    ASSUME Typed, NEW c \in Callers, start[c] \in Instants, ~Overlong(c)
    PROVE mono <= start[c].mono + OperationTimeout
<1>1. mono \in Nat /\ start[c].mono \in Int /\ ~Late(mono - start[c].mono)
  BY ClockType, Zenon DEF Overlong, Instants
<1> QED BY <1>1, ConstantsAssumption DEF Late

(* The locals of c alone change, and c moves on without entering a phase.  *)
Moves(c, where) ==
    /\ Goto(c, where)
    /\ where \in RunPhases => pc[c] \in RunPhases /\ UNCHANGED <<start[c], review[c]>>
    /\ where \in BeforeExecution => pc[c] \in BeforeExecution
    /\ where # "execute"
    /\ \A d \in Callers \ {c} : UNCHANGED <<start[d], review[d]>>

LEMMA MoveKeepsAdmitted ==
    ASSUME Typed, Admitted, NEW c \in Callers, NEW where \in Stages, Moves(c, where),
           UNCHANGED <<admissions, executions>>
    PROVE Admitted'
<1>1. \A d \in Callers : pc'[d] = IF d = c THEN where ELSE pc[d]
  BY Zenon DEF Moves, Goto, Typed, TypeOK
<1>2. \A d \in Callers : pc'[d] \in RunPhases =>
         pc[d] \in RunPhases /\ start'[d] = start[d] /\ review'[d] = review[d]
  BY <1>1, Zenon DEF Moves
<1>3. \A d \in Callers : pc'[d] \in BeforeExecution => pc[d] \in BeforeExecution
  BY <1>1, Zenon DEF Moves
<1>4. BeforeExecution \subseteq RunPhases
  BY Zenon DEF BeforeExecution
<1> QED BY <1>2, <1>3, <1>4, Zenon DEF Admitted

(* Everything but Run, Launch and Restart is such a move, or stays put.    *)
LEMMA StepsMove ==
    ASSUME Typed, [Next]_vars
    PROVE \/ \E c \in Callers : Launch(c) \/ \E t \in handed : Run(c, t)
          \/ Restart
          \/ /\ UNCHANGED <<admissions, executions>>
             /\ \/ UNCHANGED <<pc, start, review>>
                \/ \E c \in Callers, where \in Stages : Moves(c, where)
<1> DEFINE Framed == /\ UNCHANGED <<admissions, executions>>
                     /\ \/ UNCHANGED <<pc, start, review>>
                        \/ \E c \in Callers, where \in Stages : Moves(c, where)
<1> USE DEF Typed, TypeOK, locals, entry, control, history, Stages, RunPhases, BeforeExecution
<1>1. ASSUME NEW c \in Callers, NEW where \in Stages, Goto(c, where),
             where \in RunPhases => pc[c] \in RunPhases,
             where \in BeforeExecution => pc[c] \in BeforeExecution, where # "execute",
             UNCHANGED <<start, review, admissions, executions>>
      PROVE Framed
  <2>1. Moves(c, where)
    BY <1>1, Zenon DEF Moves
  <2> QED BY <2>1, <1>1, Zenon
<1>2. ASSUME NEW c \in Callers, Refuse(c) \/ CallerCancels(c) \/ DeadlinePasses(c) PROVE Framed
  BY <1>2, Zenon DEF Refuse, CallerCancels, DeadlinePasses
<1>3. ASSUME NEW c \in Callers, Prepare(c) PROVE Framed
  <2>1. Moves(c, "inspect")
    BY <1>3, Zenon DEF Moves, Prepare, Goto
  <2> QED BY <2>1, <1>3, Zenon DEF Prepare
<1>4. ASSUME NEW c \in Callers, InspectFails(c) \/ InspectRefused(c) PROVE Framed
  BY <1>4, <1>1, Zenon DEF InspectFails, InspectRefused
<1>5. ASSUME NEW c \in Callers, IssueReview(c) PROVE Framed
  <2>1. Moves(c, "release")
    BY <1>5, Zenon DEF Moves, IssueReview, Goto
  <2> QED BY <2>1, <1>5, Zenon DEF IssueReview
<1>6. ASSUME NEW c \in Callers, RunStep(c), ~Launch(c) PROVE Framed
  <2>1. UNCHANGED <<start, review, admissions, executions>>
    BY <1>6, Zenon DEF RunStep, AbandonRun, Authorize, Admit, Conclude, RecordTime,
       InsertAuthorized, InsertAdmitted, InsertFinished, Insert, RevalidateStops, Revalidate,
       ExecutorPanics, ExecutorReturns
  <2>2. \E where \in Stages : /\ Goto(c, where)
                              /\ where \in RunPhases => pc[c] \in RunPhases
                              /\ where \in BeforeExecution => pc[c] \in BeforeExecution
                              /\ where # "execute"
    BY <1>6, Zenon DEF RunStep, AbandonRun, Authorize, Admit, Conclude, RecordTime,
       InsertAuthorized, InsertAdmitted, InsertFinished, Insert, RevalidateStops, Revalidate,
       ExecutorPanics, ExecutorReturns, Finish
  <2> QED BY <2>1, <2>2, <1>1, Zenon
<1>7. ASSUME NEW c \in Callers, ClockFails(c) PROVE Framed
  BY <1>7, <1>1, Zenon DEF ClockFails
<1>8. ASSUME NEW c \in Callers, Release(c) PROVE Framed
  <2>1. Moves(c, "idle")
    BY <1>8, Zenon DEF Moves, Release, Forget, Goto
  <2> QED BY <2>1, <1>8, Zenon DEF Release
<1>9. CASE (\E t \in handed : Discard(t)) \/ Close \/ Tick \/ SetClock \/ UNCHANGED vars
  BY <1>9, Zenon DEF Discard, Close, Tick, SetClock, vars
<1> QED BY <1>2, <1>3, <1>4, <1>5, <1>6, <1>7, <1>8, <1>9, Zenon DEF Next, PrepareStep

LEMMA AdmittedStep ==
    Typed /\ OneOperation /\ Spaced /\ TicketsOnce /\ Admitted /\ [Next]_vars => Admitted'
<1> SUFFICES ASSUME Typed, OneOperation, Spaced, TicketsOnce, Admitted, [Next]_vars
             PROVE Admitted'
  BY Zenon
<1>1. ASSUME NEW c \in Callers, NEW t \in handed, Run(c, t) PROVE Admitted'
  <2>1. CASE Live(pending) /\ ~busy /\ mono >= notBefore
    <3>1. /\ pc' = [pc EXCEPT ![c] = "authorize"]
          /\ start' = [start EXCEPT ![c] = Now] /\ review' = [review EXCEPT ![c] = pending]
          /\ admissions' = admissions \cup {[run |-> t, at |-> mono]}
          /\ executions' = executions /\ pending.ticket = t /\ pending # None
      BY <1>1, <2>1, Zenon DEF Run, Goto
    <3>2. \A d \in Callers : pc[d] = "idle"
      BY <2>1, Zenon DEF OneOperation, Reserved
    <3>3. \A d \in Callers : pc'[d] \in RunPhases => d = c
      BY <3>1, <3>2, Zenon DEF RunPhases, Typed, TypeOK
    <3>4. review'[c].ticket = t /\ start'[c].mono = mono
      BY <3>1, Zenon DEF Typed, TypeOK, Now
    <3>5. \A x \in executions : x.run # t
      BY <3>1, Zenon DEF Admitted, TicketsOnce
    <3>6. BeforeExecution \subseteq RunPhases
      BY Zenon DEF BeforeExecution
    <3>7. \A x \in executions' : \E a \in admissions' :
            a.run = x.run /\ a.at <= x.at /\ x.at <= a.at + OperationTimeout
      BY <3>1, Zenon DEF Admitted
    <3>8. [run |-> review'[c].ticket, at |-> start'[c].mono] \in admissions'
      BY <3>1, <3>4
    <3> QED BY <3>1, <3>3, <3>4, <3>5, <3>6, <3>7, <3>8, Zenon DEF Admitted
  <2>2. CASE ~(Live(pending) /\ ~busy /\ mono >= notBefore)
    BY <1>1, <2>2, Zenon DEF Run, Admitted, entry
  <2> QED BY <2>1, <2>2, Zenon
<1>2. ASSUME NEW c \in Callers, Launch(c) PROVE Admitted'
  <2>1. CASE c \notin canceled /\ Live(review[c]) /\ ~Overlong(c)
    <3> DEFINE x == [run |-> review[c].ticket, at |-> mono, selection |-> fresh[c]]
               a == [run |-> review[c].ticket, at |-> start[c].mono]
    <3>1. /\ pc[c] = "launch" /\ pc' = [pc EXCEPT ![c] = "execute"]
          /\ UNCHANGED <<start, review, admissions>> /\ executions' = executions \cup {x}
      BY <1>2, <2>1, Zenon DEF Launch, Goto, entry
    <3>2. a \in admissions
      BY <3>1, Zenon DEF Admitted, RunPhases
    <3>3. a.at <= mono /\ mono <= a.at + OperationTimeout
      <4>1. start[c] \in Instants
        BY <3>1, Zenon DEF Typed, LocalsSet, RunPhases
      <4> QED BY <3>2, <4>1, <2>1, OnTime, Zenon DEF Spaced
    <3>6. x.run = a.run /\ x.at = mono
      BY Zenon
    <3> HIDE DEF x, a
    <3>4. \A y \in executions' : \E b \in admissions' :
            b.run = y.run /\ b.at <= y.at /\ y.at <= b.at + OperationTimeout
      BY <3>1, <3>2, <3>3, <3>6, Zenon DEF Admitted
    <3>5. \A d \in Callers : pc'[d] \in RunPhases => d = c
      BY <3>1, Zenon DEF OneOperation, Reserved, RunPhases, Typed, TypeOK
    <3>7. pc'[c] = "execute"
      BY <3>1, PcType, Zenon
    <3> QED BY <3>1, <3>2, <3>4, <3>5, <3>7, Zenon DEF a, Admitted, BeforeExecution, RunPhases
  <2>2. CASE ~(c \notin canceled /\ Live(review[c]) /\ ~Overlong(c))
    <3>1. Moves(c, "finish") /\ UNCHANGED <<admissions, executions>>
      BY <1>2, <2>2, Zenon DEF Launch, Finish, Moves, entry, RunPhases, BeforeExecution
    <3> QED BY <3>1, MoveKeepsAdmitted, Zenon DEF Stages, RunPhases
  <2> QED BY <2>1, <2>2, Zenon
<1>3. CASE Restart
  BY <1>3, Zenon DEF Restart, Admitted, RunPhases, BeforeExecution, history
<1>4. ASSUME UNCHANGED <<pc, start, review, admissions, executions>> PROVE Admitted'
  BY <1>4, Zenon DEF Admitted
<1>5. ASSUME NEW c \in Callers, NEW where \in Stages, Moves(c, where),
             UNCHANGED <<admissions, executions>>
      PROVE Admitted'
  BY <1>5, MoveKeepsAdmitted, Zenon
<1> QED BY <1>1, <1>2, <1>3, <1>4, <1>5, StepsMove, Zenon

(* What the run control keeps about its runs. *)
RunInv == Typed /\ OneOperation /\ Spaced /\ TicketsOnce /\ Admitted

LEMMA RunInvInit == Init => RunInv
<1> SUFFICES ASSUME Init PROVE RunInv
  OBVIOUS
<1>1. OneOperation /\ Spaced /\ TicketsOnce /\ Admitted
  BY Zenon DEF Init, OneOperation, Reserved, Spaced, TicketsOnce, Nothing, Admitted,
     RunPhases, BeforeExecution
<1> QED BY <1>1, TypedInit, Zenon DEF RunInv

LEMMA RunInvStep == RunInv /\ [Next]_vars => RunInv'
  BY TypedStep, SlotStep, SpacedStep, TicketsStep, AdmittedStep, Zenon DEF RunInv

LEMMA SpacingFollows == RunInv => RunSpacing
<1> SUFFICES ASSUME RunInv PROVE RunSpacing
  BY Zenon
<1>1. ASSUME NEW x \in executions, NEW y \in executions, x.run # y.run
      PROVE Apart(x.at, y.at, RunInterval - OperationTimeout)
  <2>1. PICK a \in admissions :
          a.run = x.run /\ a.at <= x.at /\ x.at <= a.at + OperationTimeout
    BY Zenon DEF RunInv, Admitted
  <2>2. PICK b \in admissions :
          b.run = y.run /\ b.at <= y.at /\ y.at <= b.at + OperationTimeout
    BY Zenon DEF RunInv, Admitted
  <2>3. Apart(a.at, b.at, RunInterval)
    BY <1>1, <2>1, <2>2, Zenon DEF RunInv, Spaced
  <2>4. x.at \in Nat /\ y.at \in Nat /\ a.at \in Nat /\ b.at \in Nat
    BY Zenon DEF RunInv, Typed, TypeOK
  <2> QED BY <2>1, <2>2, <2>3, <2>4, ConstantsAssumption DEF Apart
<1> QED BY <1>1, Zenon DEF RunSpacing, RunInv, Spaced

(* Runs keep their interval for any number of tickets and restarts: the    *)
(* notBefore of Run and New spaces reservations by RunInterval, and an     *)
(* execution starts at most OperationTimeout after its reservation.        *)
THEOREM Spacing == Spec => []RunSpacing
  BY RunInvInit, RunInvStep, SpacingFollows, PTL DEF Spec

(* A consent executes at most once, whatever the interleaving: entering    *)
(* the executor needs a run that was not executed before.                  *)
THEOREM OnceOnly == Spec => ExecutesOnce
<1>1. RunInv /\ [Next]_vars =>
         [\A c \in Callers : (pc[c] # "execute" /\ pc'[c] = "execute") =>
             \A x \in executions : x.run # review[c].ticket]_vars
  <2> SUFFICES ASSUME RunInv, [Next]_vars, NEW c \in Callers,
                      pc[c] # "execute", pc'[c] = "execute"
               PROVE \A x \in executions : x.run # review[c].ticket
    BY Zenon
  <2> USE DEF RunInv, Typed, TypeOK
  <2>1. ASSUME NEW d \in Callers, Launch(d) PROVE d = c /\ pc[c] = "launch"
    BY <2>1, Zenon DEF Launch, Finish, Goto
  <2>2. ASSUME NEW d \in Callers, NEW t \in handed, Run(d, t) PROVE FALSE
    BY <2>2, Zenon DEF Run, Goto
  <2>3. ~Restart
    BY Zenon DEF Restart
  <2>4. ASSUME NEW d \in Callers, NEW where \in Stages, Moves(d, where)
        PROVE FALSE
    BY <2>4, Zenon DEF Moves, Goto
  <2> QED BY <2>1, <2>2, <2>3, <2>4, StepsMove, Zenon DEF Admitted, BeforeExecution, RunPhases
<1> QED BY <1>1, RunInvInit, RunInvStep, PTL DEF Spec, ExecutesOnce

-------------------------------------------------------------------------------
(* The durable trail *)

(* What is durable when a run has come so far. *)
Trailed ==
    /\ \A c \in Callers : pc[c] \in {"revalidate", "admit", "admitting", "launch"} =>
          \E e \in Recorded(review[c].ticket, "authorized") : e.selection = review[c].selection
    /\ \A c \in Callers : pc[c] = "launch" =>
          \E e \in Recorded(review[c].ticket, "admitted") : e.selection = review[c].selection
    /\ ExecutionIsAdmitted

(* Steps that record nothing new, execute nothing and reach no later phase. *)
LEMMA TrailKept ==
    ASSUME Typed, Trailed, audit \subseteq audit', UNCHANGED executions,
           \A c \in Callers : pc'[c] \in {"revalidate", "admit", "admitting", "launch"} =>
              /\ pc[c] \in {"revalidate", "admit", "admitting", "launch"}
              /\ pc'[c] = "launch" => pc[c] = "launch"
              /\ review'[c] = review[c]
    PROVE Trailed'
<1>1. \A run, state : Recorded(run, state) \subseteq Recorded(run, state)'
  BY Zenon DEF Recorded
<1>2. ExecutionIsAdmitted'
  BY <1>1, Zenon DEF Trailed, ExecutionIsAdmitted
<1> QED BY <1>1, <1>2, Zenon DEF Trailed

LEMMA TrailedStep == RunInv /\ Trailed /\ [Next]_vars => Trailed'
<1> SUFFICES ASSUME RunInv, Trailed, [Next]_vars PROVE Trailed'
  OBVIOUS
<1> USE DEF RunInv, Typed, TypeOK
<1>1. ASSUME NEW c \in Callers, Refuse(c) \/ Prepare(c) \/ InspectFails(c) \/ InspectRefused(c)
                \/ IssueReview(c) \/ ClockFails(c) \/ Release(c) \/ CallerCancels(c)
                \/ DeadlinePasses(c)
      PROVE Trailed'
  BY <1>1, TrailKept DEF Refuse, Prepare, InspectFails, InspectRefused, IssueReview, ClockFails,
     Release, Forget, CallerCancels, DeadlinePasses, Goto, locals, entry, history
<1>2. ASSUME NEW c \in Callers, NEW t \in handed, Run(c, t) PROVE Trailed'
  BY <1>2, TrailKept, Zenon DEF Run, Goto, entry
<1>3. ASSUME NEW c \in Callers, AbandonRun(c) \/ Authorize(c) \/ RevalidateStops(c)
                \/ Revalidate(c) \/ Admit(c) \/ ExecutorPanics(c) \/ ExecutorReturns(c)
                \/ Conclude(c)
      PROVE Trailed'
  BY <1>3, TrailKept, Zenon DEF AbandonRun, Authorize, RevalidateStops, Revalidate, Admit,
     ExecutorPanics, ExecutorReturns, Conclude, RecordTime, Finish, Goto, locals, entry, history
<1>4. ASSUME NEW c \in Callers, InsertFinished(c) PROVE Trailed'
  BY <1>4, TrailKept, Zenon DEF InsertFinished, Insert, Goto, locals, entry
<1>5. ASSUME NEW c \in Callers, NEW state, NEW from, NEW to, Insert(c, from, state, to),
             \/ from = "authorizing" /\ state = "authorized" /\ to = "revalidate"
             \/ from = "admitting" /\ state = "admitted" /\ to = "launch"
      PROVE Trailed'
  <2>1. PICK durable \in BOOLEAN, acknowledged \in BOOLEAN :
          LET e  == Event(c, state)
              ok == acknowledged /\ (state = "finished" \/ c \notin canceled)
          IN /\ acknowledged => durable
             /\ audit' = IF durable THEN audit \cup {e} ELSE audit
             /\ IF ok THEN Goto(c, to) ELSE Goto(c, "release")
    BY <1>5, Zenon DEF Insert
  <2>2. UNCHANGED <<executions, review>> /\ audit \subseteq audit' /\ pc[c] = from
    BY <1>5, <2>1, Zenon DEF Insert, locals, entry
  <2>3. CASE pc' = [pc EXCEPT ![c] = "release"]
    BY <2>2, <2>3, TrailKept, Zenon
  <2>4. CASE pc' = [pc EXCEPT ![c] = to] /\ Event(c, state) \in audit'
    <3>1. \A run, s : Recorded(run, s) \subseteq Recorded(run, s)'
      BY <2>2, Zenon DEF Recorded
    <3>2. ExecutionIsAdmitted'
      BY <3>1, <2>2, Zenon DEF Trailed, ExecutionIsAdmitted
    <3>3. /\ Event(c, state).run = review[c].ticket /\ Event(c, state).state = state
          /\ Event(c, state).selection = review[c].selection
      BY Zenon DEF Event
    <3>4. \E e \in Recorded(review[c].ticket, state)' : e.selection = review[c].selection
      BY <2>2, <2>4, <3>3, Zenon DEF Recorded
    <3> QED BY <1>5, <2>2, <2>4, <3>1, <3>2, <3>4 DEF Trailed
  <2> QED BY <2>1, <2>3, <2>4, Zenon DEF Goto
<1>6. ASSUME NEW c \in Callers, Launch(c) PROVE Trailed'
  <2>1. pc[c] = "launch" /\ UNCHANGED <<review, audit>>
    BY <1>6, Zenon DEF Launch, entry
  <2>2. \A d \in Callers : pc'[d] \notin {"revalidate", "admit", "admitting", "launch"}
    <3>1. \A d \in Callers \ {c} : pc[d] = "idle"
      BY <2>1, Zenon DEF OneOperation, Reserved
    <3>2. pc' = [pc EXCEPT ![c] = "execute"] \/ pc' = [pc EXCEPT ![c] = "finish"]
      BY <1>6, Zenon DEF Launch, Finish, Goto
    <3> QED BY <3>1, <3>2, Zenon
  <2>3. fresh[c] = review[c].selection
    BY <2>1, Zenon DEF LocalsSet
  <2>4. \A run, state : Recorded(run, state) = Recorded(run, state)'
    BY <2>1, Zenon DEF Recorded
  <2>5. executions' \subseteq executions \cup
          {[run |-> review[c].ticket, at |-> mono, selection |-> fresh[c]]}
    BY <1>6, Zenon DEF Launch
  <2>6. ASSUME NEW x \in executions', NEW state \in {"authorized", "admitted"}
        PROVE \E e \in Recorded(x.run, state)' : e.selection = x.selection
    <3>1. CASE x \in executions
      BY <2>4, <3>1, Zenon DEF Trailed, ExecutionIsAdmitted
    <3>2. CASE x = [run |-> review[c].ticket, at |-> mono, selection |-> fresh[c]]
      <4>1. x.run = review[c].ticket /\ x.selection = review[c].selection
        BY <2>3, <3>2, Zenon
      <4> QED BY <2>1, <2>4, <4>1 DEF Trailed
    <3> QED BY <2>5, <3>1, <3>2, Zenon
  <2> QED BY <2>2, <2>6, Zenon DEF Trailed, ExecutionIsAdmitted
<1>7. CASE (\E t \in handed : Discard(t)) \/ Close \/ Tick \/ SetClock \/ UNCHANGED vars
  BY <1>7, TrailKept, Zenon DEF Discard, Close, Tick, SetClock, locals, entry, history, vars
<1>8. CASE Restart
  BY <1>8, TrailKept, Zenon DEF Restart, history
<1> QED BY <1>1, <1>2, <1>3, <1>4, <1>5, <1>6, <1>7, <1>8 DEF Next, PrepareStep, RunStep,
     InsertAuthorized, InsertAdmitted

(* Nothing is executed without its durable authorization and admission of  *)
(* the selection that was reviewed, whatever audit writes fail and         *)
(* whenever the process dies.                                              *)
THEOREM AdmittedFirst == Spec => []ExecutionIsAdmitted
<1>1. Init => Trailed
  BY Zenon DEF Init, Trailed, ExecutionIsAdmitted
<1>2. Trailed => ExecutionIsAdmitted
  BY Zenon DEF Trailed
<1> QED BY <1>1, <1>2, RunInvInit, RunInvStep, TrailedStep, PTL DEF Spec

-------------------------------------------------------------------------------
(* The pending review, shutdown and faults *)

(* While a review is pending the control is available and rested, and only *)
(* the Prepare that issued it can still be on its way out.                 *)
Held ==
    /\ pending # None =>
          /\ Available /\ mono >= notBefore
          /\ \A c \in Callers : pc[c] # "idle" => pc[c] = "release" /\ pending.ticket \notin handed
    /\ \A c \in Callers : pc[c] = "inspect" => mono >= notBefore

LEMMA HeldStep == RunInv /\ Held /\ [Next]_vars => Held'
<1> SUFFICES ASSUME RunInv, Held, [Next]_vars PROVE Held'
  OBVIOUS
<1> USE PcType DEF RunInv, Held, Available, Goto
<1>1. ASSUME pending' = pending \/ pending' = None,
             mono' >= mono, UNCHANGED <<pc, notBefore, fault, handed>>,
             closed' = closed \/ pending' = None
      PROVE Held'
  <2>1. mono \in Nat /\ notBefore \in Nat
    BY ClockType, Zenon
  <2>2. Typed'
    BY TypedStep, Zenon
  <2>3. mono' \in Nat
    BY <2>2, Zenon DEF Typed, TypeOK
  <2>4. mono >= notBefore => mono' >= notBefore
    BY <1>1, <2>1, <2>3
  <2> QED BY <1>1, <2>4
<1>2. ASSUME NEW c \in Callers, Refuse(c) \/ CallerCancels(c) \/ DeadlinePasses(c) PROVE Held'
  <2>1. UNCHANGED <<mono, pc, notBefore, fault, handed, pending, closed>>
    BY <1>2, Zenon DEF Refuse, CallerCancels, DeadlinePasses, clocks, control, shutdown, tickets
  <2> QED BY <1>1, <2>1, ClockType, Zenon
<1>3. ASSUME NEW c \in Callers, InspectFails(c) \/ InspectRefused(c) PROVE Held'
  <2>1. pc[c] = "inspect" /\ pc' = [pc EXCEPT ![c] = "release"] /\ pending = None
    BY <1>3, Zenon DEF InspectFails, InspectRefused
  <2>2. UNCHANGED <<pending, mono, notBefore>>
    BY <1>3, Zenon DEF InspectFails, InspectRefused, clocks, control
  <2> QED BY <2>1, <2>2, Zenon
<1>4. ASSUME NEW c \in Callers, Prepare(c) PROVE Held'
  <2>1. pending' = None /\ mono' >= notBefore'
    BY <1>4, Zenon DEF Prepare, clocks
  <2> QED BY <2>1, Zenon
<1>5. ASSUME NEW c \in Callers, IssueReview(c) PROVE Held'
  <2>1. PICK t \in Tickets \ issued, s \in Selections, observed \in start[c].wall..wall :
          pending' = Review(t, s, observed)
    BY <1>5, Zenon DEF IssueReview
  <2>2. pending'.ticket \notin handed
    BY <2>1, Zenon DEF Review, TicketsOnce
  <2>3. /\ pc[c] = "inspect" /\ pc' = [pc EXCEPT ![c] = "release"]
        /\ Available /\ UNCHANGED <<mono, notBefore, fault, closed, handed>>
    BY <1>5, Zenon DEF IssueReview, clocks, shutdown
  <2>4. \A d \in Callers \ {c} : pc[d] = "idle"
    BY <2>3, Zenon DEF OneOperation, Reserved
  <2>5. \A d \in Callers : pc'[d] # "inspect" /\ (pc'[d] # "idle" => pc'[d] = "release")
    BY <2>3, <2>4, Zenon
  <2> QED BY <2>2, <2>3, <2>5, Zenon
<1>6. ASSUME NEW c \in Callers, NEW t \in handed, Run(c, t) PROVE Held'
  <2>1. pending # None /\ pending' = None
    BY <1>6, Zenon DEF Run
  <2>2. pc' = pc \/ pc' = [pc EXCEPT ![c] = "authorize"]
    BY <1>6, Zenon DEF Run
  <2>3. \A d \in Callers : pc'[d] # "inspect"
    BY <2>1, <2>2, Zenon
  <2> QED BY <2>1, <2>3, Zenon
<1>7. ASSUME NEW c \in Callers, RunStep(c) PROVE Held'
  <2>1. pc[c] \in RunPhases
    BY <1>7, Zenon DEF RunStep, AbandonRun, Authorize, Admit, Conclude, RecordTime, InsertAuthorized,
       InsertAdmitted, InsertFinished, Insert, RevalidateStops, Revalidate, Launch,
       ExecutorPanics, ExecutorReturns, RunPhases
  <2>2. pending = None
    BY <2>1, Zenon DEF RunPhases
  <2>3. \A d \in Callers \ {c} : pc[d] = "idle"
    BY <2>1, Zenon DEF OneOperation, Reserved, RunPhases
  <2>4. pending' = None
    BY <1>7, <2>2, Zenon DEF RunStep, AbandonRun, Authorize, Admit, Conclude, RecordTime,
       InsertAuthorized, InsertAdmitted, InsertFinished, Insert, Lock, RevalidateStops,
       Revalidate, Launch, ExecutorPanics, ExecutorReturns, control
  <2>5. \E where \in Stages \ {"inspect"} : pc' = [pc EXCEPT ![c] = where]
    BY <1>7, Zenon DEF RunStep, AbandonRun, Authorize, Admit, Conclude, RecordTime,
       InsertAuthorized, InsertAdmitted, InsertFinished, Insert, RevalidateStops,
       Revalidate, Launch, ExecutorPanics, ExecutorReturns, Finish, Stages, RunPhases
  <2>6. \A d \in Callers : pc'[d] # "inspect"
    BY <2>3, <2>5, Zenon
  <2> QED BY <2>4, <2>6, Zenon
<1>8. ASSUME NEW c \in Callers, ClockFails(c) PROVE Held'
  <2>1. pending' = None
    BY <1>8, Zenon DEF ClockFails, Lock
  <2>2. UNCHANGED <<mono, notBefore>>
    BY <1>8, Zenon DEF ClockFails, clocks
  <2>3. \A d \in Callers : pc'[d] = "inspect" => pc[d] = "inspect"
    BY <1>8, Zenon DEF ClockFails
  <2> QED BY <2>1, <2>2, <2>3, Zenon
<1>9. ASSUME NEW c \in Callers, Release(c) PROVE Held'
  <2>1. pc[c] = "release" /\ pc' = [pc EXCEPT ![c] = "idle"]
    BY <1>9, Zenon DEF Release
  <2>2. \A d \in Callers \ {c} : pc[d] = "idle"
    BY <2>1, Zenon DEF OneOperation, Reserved
  <2>3. UNCHANGED <<pending, mono, notBefore, fault, closed>>
    BY <1>9, Zenon DEF Release, clocks
  <2> QED BY <2>1, <2>2, <2>3, Zenon
<1>10. CASE (\E t \in handed : Discard(t)) \/ Close \/ SetClock \/ UNCHANGED vars
  <2>1. mono >= mono
    BY ClockType
  <2>2. /\ UNCHANGED <<mono, pc, notBefore, fault, handed>>
        /\ pending' = None \/ UNCHANGED <<pending, closed>>
    BY <1>10, Zenon DEF Discard, Close, SetClock, vars, clocks, control, shutdown, tickets
  <2> QED BY <1>1, <2>1, <2>2, Zenon
<1>11. CASE Tick
  BY <1>1, <1>11, ClockType DEF Tick, control, shutdown, tickets
<1>12. CASE Restart
  BY <1>12, Zenon DEF Restart
<1> QED BY <1>2, <1>3, <1>4, <1>5, <1>6, <1>7, <1>8, <1>9, <1>10, <1>11, <1>12, Zenon
     DEF Next, PrepareStep

(* Run's refusal of a matching ticket because the control is busy or       *)
(* cooling down is dead code: a review that a caller holds is admissible.  *)
THEOREM HeldReviews == Spec => []HeldReviewIsAdmissible
<1>1. Init => Held
  BY Zenon DEF Init, Held
<1>2. RunInv /\ Held => HeldReviewIsAdmissible
  BY Zenon DEF RunInv, Held, HeldReviewIsAdmissible, OneOperation, Reserved
<1> QED BY <1>1, <1>2, RunInvInit, RunInvStep, HeldStep, PTL DEF Spec

(* A drained control is closed and holds no reservation. *)
Drain == drained => closed /\ ~busy

LEMMA DrainStep == RunInv /\ Drain /\ [Next]_vars => Drain'
<1> SUFFICES ASSUME RunInv, Drain, [Next]_vars PROVE Drain'
  OBVIOUS
<1> USE DEF RunInv, Typed, TypeOK, Drain, Available, control, slot, shutdown
<1>1. ASSUME NEW c \in Callers, Refuse(c) \/ PrepareStep(c) \/ ClockFails(c) \/ Release(c)
                                \/ CallerCancels(c) \/ DeadlinePasses(c)
      PROVE Drain'
  BY <1>1, Zenon DEF Refuse, PrepareStep, Prepare, InspectFails, InspectRefused, IssueReview, ClockFails,
     Release, CallerCancels, DeadlinePasses
<1>2. ASSUME NEW c \in Callers, NEW t \in handed, Run(c, t) PROVE Drain'
  BY <1>2, Zenon DEF Run
<1>3. ASSUME NEW c \in Callers, RunStep(c) PROVE Drain'
  BY <1>3, Zenon DEF RunStep, AbandonRun, Authorize, Admit, Conclude, RecordTime, InsertAuthorized,
     InsertAdmitted, InsertFinished, Insert, RevalidateStops, Revalidate, Launch,
     ExecutorPanics, ExecutorReturns
<1>4. CASE (\E t \in handed : Discard(t)) \/ Close \/ Tick \/ SetClock \/ Restart \/ UNCHANGED vars
  BY <1>4, Zenon DEF Discard, Close, Tick, SetClock, Restart, vars
<1> QED BY <1>1, <1>2, <1>3, <1>4, Zenon DEF Next

(* After Shutdown could return, no step executes anything, writes an audit *)
(* or moves a caller: its collaborators may be closed.                     *)
THEOREM Drained == Spec => DrainedIsQuiet
<1>1. Init => Drain
  BY Zenon DEF Init, Drain
<1>2. RunInv /\ Drain /\ [Next]_vars =>
         [(drained /\ drained') => UNCHANGED <<pc, audit, executions>>]_vars
  <2> SUFFICES ASSUME RunInv, Drain, [Next]_vars, drained, drained'
               PROVE UNCHANGED <<pc, audit, executions>>
    BY Zenon
  <2>1. closed /\ \A c \in Callers : pc[c] = "idle"
    BY Zenon DEF Drain, RunInv, OneOperation, Reserved
  <2>2. ASSUME NEW c \in Callers, PrepareStep(c) \/ RunStep(c) \/ Release(c)
                                  \/ \E t \in handed : Run(c, t)
        PROVE FALSE
    BY <2>1, <2>2, Zenon DEF PrepareStep, Prepare, InspectFails, InspectRefused, IssueReview, Run, Available,
       RunStep, AbandonRun, Authorize, Admit, Conclude, RecordTime, InsertAuthorized,
       InsertAdmitted, InsertFinished, Insert, RevalidateStops, Revalidate, Launch,
       ExecutorPanics, ExecutorReturns, Release
  <2>3. ASSUME NEW c \in Callers, Refuse(c) \/ ClockFails(c) \/ CallerCancels(c)
                                  \/ DeadlinePasses(c)
        PROVE UNCHANGED <<pc, audit, executions>>
    BY <2>1, <2>3, Zenon DEF Refuse, ClockFails, Available, CallerCancels, DeadlinePasses, Goto, history,
       RunInv, Typed, TypeOK
  <2>4. CASE (\E t \in handed : Discard(t)) \/ Close \/ Tick \/ SetClock \/ UNCHANGED vars
    BY <2>4, Zenon DEF Discard, Close, Tick, SetClock, history, vars
  <2>5. ~Restart
    BY Zenon DEF Restart
  <2> QED BY <2>2, <2>3, <2>4, <2>5, Zenon DEF Next
<1> QED BY <1>1, <1>2, RunInvInit, RunInvStep, DrainStep, PTL DEF Spec, DrainedIsQuiet

(* A locked control offers, admits and executes nothing until the process  *)
(* is replaced.                                                            *)
THEOREM Locked == Spec => LockedForGood
<1>1. [Next]_vars => [fault # None => /\ fault' # None \/ Restart
                                      /\ UNCHANGED <<issued, admissions, executions>>]_vars
  <2> SUFFICES ASSUME Next, fault # None
               PROVE /\ fault' # None \/ Restart
                     /\ UNCHANGED <<issued, admissions, executions>>
    BY Zenon
  <2> USE ConstantsAssumption DEF control, history, tickets, Lock
  <2>1. ASSUME NEW c \in Callers, Refuse(c) \/ PrepareStep(c) \/ ClockFails(c) \/ Release(c)
                                  \/ CallerCancels(c) \/ DeadlinePasses(c)
        PROVE fault' # None /\ UNCHANGED <<issued, admissions, executions>>
    BY <2>1, Zenon DEF Refuse, PrepareStep, Prepare, InspectFails, InspectRefused, IssueReview, Available,
       ClockReads, ClockFails, Release, CallerCancels, DeadlinePasses
  <2>2. ASSUME NEW c \in Callers, RunStep(c)
        PROVE fault' # None /\ UNCHANGED <<issued, admissions, executions>>
    BY <2>2, Zenon DEF RunStep, AbandonRun, Authorize, Admit, Conclude, RecordTime, InsertAuthorized,
       InsertAdmitted, InsertFinished, Insert, RevalidateStops, Revalidate, Launch,
       ExecutorPanics, ExecutorReturns, ClockReads
  <2>3. ASSUME NEW c \in Callers, NEW t \in handed, Run(c, t) PROVE FALSE
    BY <2>3, Zenon DEF Run, Available
  <2>4. CASE (\E t \in handed : Discard(t)) \/ Close \/ Tick \/ SetClock \/ Restart
    BY <2>4, Zenon DEF Discard, Close, Tick, SetClock, Restart
  <2> QED BY <2>1, <2>2, <2>3, <2>4, Zenon DEF Next
<1> QED BY <1>1, PTL DEF Spec, LockedForGood

(* Everything that a reservation guarantees, for any number of callers,    *)
(* tickets and selections and for every interval and timeout.              *)
THEOREM Reservations == Spec => []ReservationHolds
<1>1. OneOperation /\ RunSpacing /\ HeldReviewIsAdmissible /\ ExecutionIsAdmitted => ReservationHolds
  BY Zenon DEF ReservationHolds
<1> QED BY <1>1, Exclusive, Spacing, HeldReviews, AdmittedFirst, PTL
===============================================================================
