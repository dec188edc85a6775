------------------------------ MODULE RunHistory ------------------------------
(***************************************************************************)
(* What the durable audit trail of one reviewed check may contain, and how *)
(* it is read back.  The run controls of the gateway, resolver and HTTPS   *)
(* checks (packages gatewayrun, resolverrun, httpsrun) write at most three *)
(* events per run; ValidateEvent decides what may be written and           *)
(* DescribeRetainedRun what a reader accepts as the story of one run.      *)
(* An event is                                                             *)
(*   [run, state, outcome, at, selection, measurement]                     *)
(* with a measurement that is None or [started, complete].  Identifiers,   *)
(* digests and addresses are the model values `run' and `selection'.       *)
(***************************************************************************)
EXTENDS Integers, FiniteSets

CONSTANTS None,  \* a Go nil
          Kind   \* which of the three packages is modelled

ASSUME KindAssumption == Kind \in {"gateway", "resolver", "https"}

Phases == {"authorized", "admitted", "finished"}

Outcomes == {"completed", "blocked", "canceled", "failed", "indeterminate"}

(* validateMeasurement, as far as the audit trail can tell: a measurement  *)
(* cannot start after the event that carries it.                           *)
ValidMeasurement(m, at) == m.started <= at

(* A failed gateway run never carries a complete sample; the resolver and  *)
(* HTTPS packages allow one.                                               *)
ValidateEvent(e) ==
    /\ e.measurement # None => ValidMeasurement(e.measurement, e.at)
    /\ \/ /\ e.state \in {"authorized", "admitted"}
          /\ e.outcome = None
          /\ e.measurement = None
       \/ /\ e.state = "finished"
          /\ e.outcome \in Outcomes
          /\ e.outcome = "completed" => /\ e.measurement # None
                                        /\ e.measurement.complete
          /\ e.outcome \in {"blocked", "indeterminate"} => e.measurement = None
          /\ (e.outcome = "failed" /\ Kind = "gateway" /\ e.measurement # None)
                => ~e.measurement.complete

PhaseOrder == <<"authorized", "admitted", "finished">>

(* DescribeRetainedRun folds the events of one run that are still retained *)
(* and not later than asOf; it refuses duplicates of a phase, a change of  *)
(* selection, phases whose times go backwards, and a measurement that      *)
(* started before the run was admitted or authorized.                      *)
DescribeAccepts(events, asOf) ==
    /\ events # {} /\ Cardinality(events) <= 3
    /\ \A e \in events : ValidateEvent(e) /\ e.at <= asOf
    /\ \A e, f \in events :
          /\ e.run = f.run /\ e.selection = f.selection
          /\ e.state = f.state => e = f
    /\ \A i, j \in 1..3 : i < j =>
          \A e, f \in events :
             (e.state = PhaseOrder[i] /\ f.state = PhaseOrder[j]) => e.at <= f.at
    /\ \A e, f \in events :
          (e.state = "finished" /\ e.measurement # None /\ f.state # "finished")
             => f.at <= e.measurement.started
===============================================================================
