--------------------------- MODULE IngestionLatency ----------------------------
(***************************************************************************)
(* The latency tracker behind Ingestor.Health: which receipts are pending  *)
(* since when, when the last durable write completed, and how many durable *)
(* writes in a row were slow.  Times come from one process, whose readings *)
(* keep their monotonic part, so they never decrease.  history is not in   *)
(* the code: it remembers every durable completion, so that the counter    *)
(* can be compared with what really happened.                              *)
(***************************************************************************)
EXTENDS Naturals, Sequences

CONSTANTS Receipts,
          Threshold,            \* ingestionLatencyThreshold
          FreshnessWindow,      \* ingestionLatencyFreshnessWindow
          SlowStreakThreshold,  \* ingestionSlowStreakThreshold
          MaxTime, MaxHistory,  \* bounds of the model
          None

ASSUME LatencyAssumption ==
    /\ Threshold \in Nat \ {0} /\ FreshnessWindow \in Nat \ {0}
    /\ SlowStreakThreshold \in Nat \ {0}
    /\ MaxTime \in Nat /\ MaxHistory \in Nat /\ None \notin Nat

VARIABLES now, pending, lastCompletedAt, slowStreak, history
vars == <<now, pending, lastCompletedAt, slowStreak, history>>

Init ==
    /\ now = 0 /\ pending = [r \in Receipts |-> None]
    /\ lastCompletedAt = None /\ slowStreak = 0 /\ history = <<>>

accept(r) ==
    /\ pending[r] = None
    /\ pending' = [pending EXCEPT ![r] = now]
    /\ UNCHANGED <<now, lastCompletedAt, slowStreak, history>>

(* Mutant: the streak survives a pause longer than the freshness window. *)
StreakWithoutWindow(latency) == IF latency >= Threshold THEN slowStreak + 1 ELSE 0

StreakAfter(latency) ==
    LET kept == IF lastCompletedAt # None /\ now - lastCompletedAt > FreshnessWindow
                   THEN 0 ELSE slowStreak
    IN  IF latency >= Threshold THEN kept + 1 ELSE 0

(* A write that failed leaves the tracker's measurements alone. *)
complete(r, durable) ==
    /\ pending[r] # None /\ Len(history) < MaxHistory
    /\ pending' = [pending EXCEPT ![r] = None]
    /\ IF durable
          THEN /\ slowStreak' = StreakAfter(now - pending[r])
               /\ lastCompletedAt' = now
               /\ history' = Append(history, [at |-> now, latency |-> now - pending[r]])
          ELSE UNCHANGED <<lastCompletedAt, slowStreak, history>>
    /\ UNCHANGED now

Tick == now < MaxTime /\ now' = now + 1 /\ UNCHANGED <<pending, lastCompletedAt, slowStreak, history>>

Next == \/ \E r \in Receipts : accept(r) \/ \E durable \in BOOLEAN : complete(r, durable)
        \/ Tick

Spec == Init /\ [][Next]_vars
-------------------------------------------------------------------------------
Pending == {r \in Receipts : pending[r] # None}
Overdue == \E r \in Pending : now - pending[r] >= Threshold
Fresh == lastCompletedAt # None /\ now - lastCompletedAt <= FreshnessWindow

snapshot ==
    IF Overdue \/ (Fresh /\ slowStreak >= SlowStreakThreshold) THEN "lagging"
    ELSE IF Pending # {} \/ Fresh THEN "current" ELSE "idle"

(* The last n durable writes were all slow, each within the freshness      *)
(* window of the one before it.                                            *)
LastWereSlow(n) ==
    /\ n <= Len(history)
    /\ \A m \in (Len(history) - n + 1)..Len(history) : history[m].latency >= Threshold
    /\ \A m \in (Len(history) - n + 2)..Len(history) :
          history[m].at - history[m-1].at <= FreshnessWindow

(* Health reports "lagging" exactly when a pending record is overdue or    *)
(* the last SlowStreakThreshold durable writes, of which the latest is     *)
(* recent and no two are far apart, were all slow: failed writes and old   *)
(* slowness neither add to the streak nor keep it alive.                   *)
LaggingIsJustified ==
    snapshot = "lagging" <=>
       \/ \E r \in Receipts : pending[r] # None /\ now >= pending[r] + Threshold
       \/ /\ LastWereSlow(SlowStreakThreshold)
          /\ now <= history[Len(history)].at + FreshnessWindow
===============================================================================
