------------------------- MODULE DeviceWatchControl -------------------------
(***************************************************************************)
(* Turning Device Watch on and off: the control of cmd/cozysoc, the        *)
(* durable configuration, the capability lifecycle engine with its         *)
(* periodic verification, the collection runtime, and the enrolled network *)
(* scopes in the store.                                                    *)
(*                                                                         *)
(* Four actors interleave.  A control call (Enable, Disable, RetireScope)  *)
(* holds one mutex from start to end, so pc is the place of the single     *)
(* call in progress.  The runtime is a goroutine that collects, and ends   *)
(* some time after it is cancelled.  The verification loop shares the      *)
(* engine's operation lock with the call.  Enrollment takes neither lock.  *)
(* The controller may end at any step and start again from the disk.       *)
(*                                                                         *)
(* The platform is one with a collection runtime (darwin).  A network is   *)
(* what ValidateCurrentScope compares a scope's binding with.  Storage     *)
(* failures, an expired request context and a failed write are all the     *)
(* nondeterministic failure branch of the step they stop.                  *)
(***************************************************************************)
EXTENDS FiniteSets

CONSTANTS Scopes,       \* identifiers enrollment may draw, each at most once
          Networks,     \* what the enrolled interface may present
          BindingOf,    \* the network each scope would be bound to
          None          \* no configuration, no scope, no network

VARIABLES up,           \* the controller process is running
          disk,         \* Device Watch's entry of config.json
          conf,         \* the same entry of config.Manager.current
          inst,         \* the same entry of the engine's Instances
          verification, \* the engine's verification state
          rt,           \* the collection runtime
          sample,       \* per scope, the newest retained coverage sample
          scopes,       \* per scope, its row in network_scopes
          here,         \* the network the interface presents now
          pc,           \* the place of the control call in progress
          target,       \* the scope that call acts on
          previous,     \* what restorePreviousConfiguration would restore
          audit         \* the newest capability-intent audit event

vars == <<up, disk, conf, inst, verification, rt, sample, scopes, here, pc,
          target, previous, audit>>

Desireds == {"disabled", "enabled"}

ASSUME BindingAssumption ==
  /\ BindingOf \in [Scopes -> Networks]
  /\ None \notin Scopes \cup Networks \cup [desired : Desireds, scope : Scopes]

Configurations == [desired : Desireds, scope : Scopes] \cup {None}

Enabled(c) == c # None /\ c.desired = "enabled"

Events == [desired : Desireds, state : {"none", "requested", "failed", "applied"}]

Verifications == {"unverified", "verified", "degraded", "stale"}

RuntimeStates ==
  [phase : {"stopped", "running", "cancelled"}, scope : Scopes \cup {None},
   busy : BOOLEAN, last : {"none", "ok", "failed"}]

Stopped == [phase |-> "stopped", scope |-> None, busy |-> FALSE, last |-> "none"]

(* Runtime.Running: started is cleared only when the goroutine has ended,  *)
(* so a cancelled runtime that is winding down still counts.               *)
Active == rt.phase # "stopped"

ActiveScopes == {s \in Scopes : scopes[s] = "active"}

Current(s) == BindingOf[s] = here

Init ==
  /\ up = FALSE
  /\ disk = None /\ conf = None /\ inst = None
  /\ verification = "unverified"
  /\ rt = Stopped
  /\ sample = [s \in Scopes |-> "none"]
  /\ scopes = [s \in Scopes |-> "unused"]
  /\ here \in Networks \cup {None}
  /\ pc = "idle" /\ target = None /\ previous = None
  /\ audit = [desired |-> "disabled", state |-> "none"]
-----------------------------------------------------------------------------
(* Shared steps of the control calls.                                      *)

(* InsertCapabilityIntentAudit before a change: its failure ends the call. *)
recordRequested(d) == audit' = [desired |-> d, state |-> "requested"]

(* recordOutcome is best effort: the event may not be written.             *)
recordOutcome(d, s) == audit' \in {audit, [desired |-> d, state |-> s]}

Return == pc' = "idle" /\ target' = None /\ previous' = None

(* Runtime.Stop cancels before it waits for the goroutine.                 *)
Cancelled(r) == IF r.phase = "stopped" THEN r ELSE [r EXCEPT !.phase = "cancelled"]

(* emergencyStop: cancel, wait five seconds at most, and go on either way. *)
emergencyStop == rt' = Cancelled(rt)

(* ReplaceCapability: the file is renamed into place before the manager's  *)
(* copy changes, and a failed write changes neither.                       *)
ReplaceCapability(c) == disk' = c /\ conf' = c

DesiredOf(c) == IF c = None THEN "disabled" ELSE c.desired

ApplyKeepingVerification(c) == inst' = c /\ UNCHANGED verification

(* ApplyConfiguration, and RemoveConfiguration for None.                   *)
ApplyConfiguration(c) ==
  /\ inst' = c
  /\ verification' = IF c = None \/ DesiredOf(inst) # DesiredOf(c)
                       THEN "unverified" ELSE verification
-----------------------------------------------------------------------------
(* Enable.                                                                 *)

(* The intent is already enabled: the engine runs enable again and neither *)
(* the configuration nor the audit trail is touched.                       *)
EnableAgain ==
  /\ up /\ pc = "idle" /\ Enabled(conf)
  /\ pc' = "reenable" /\ target' = conf.scope
  /\ UNCHANGED <<up, disk, conf, inst, verification, rt, sample, scopes, here,
                 previous, audit>>

(* Exactly one active scope, a passing preflight and a durable request.    *)
EnableRequested ==
  /\ up /\ pc = "idle" /\ ~Enabled(conf)
  /\ \E s \in ActiveScopes :
       /\ ActiveScopes = {s}
       /\ Current(s)
       /\ target' = s
  /\ recordRequested("enabled")
  /\ pc' = "enable-write"
  /\ UNCHANGED <<up, disk, conf, inst, verification, rt, sample, scopes, here, previous>>

EnableWritten ==
  /\ pc = "enable-write"
  /\ ReplaceCapability([desired |-> "enabled", scope |-> target])
  /\ previous' = conf
  /\ pc' = "enable-apply"
  /\ UNCHANGED <<up, inst, verification, rt, sample, scopes, here, target, audit>>

EnableNotWritten ==
  /\ pc = "enable-write"
  /\ recordOutcome("enabled", "failed")
  /\ Return
  /\ UNCHANGED <<up, disk, conf, inst, verification, rt, sample, scopes, here>>

EnableApplied ==
  /\ pc = "enable-apply"
  /\ ApplyConfiguration(conf)
  /\ pc' = "enable-run"
  /\ UNCHANGED <<up, disk, conf, rt, sample, scopes, here, target, previous, audit>>

(* LifecycleEngine.Run(enable): preflight, then the driver.  A runtime     *)
(* that counts as active on the same scope is success; otherwise Start     *)
(* reads the scope's row again before it launches the goroutine.           *)
RunEnable ==
  /\ Current(target)
  /\ \/ /\ Active /\ rt.scope = target
        /\ UNCHANGED rt
     \/ /\ ~Active /\ scopes[target] = "active"
        /\ rt' = [phase |-> "running", scope |-> target, busy |-> FALSE, last |-> "none"]
  /\ verification' = "unverified"

Enable ==
  /\ pc = "enable-run"
  /\ RunEnable
  /\ recordOutcome("enabled", "applied")
  /\ Return
  /\ UNCHANGED <<up, disk, conf, inst, sample, scopes, here>>

EnableFailed ==
  /\ pc = "enable-run"
  /\ emergencyStop
  /\ pc' = "rollback"
  /\ UNCHANGED <<up, disk, conf, inst, verification, sample, scopes, here, target,
                 previous, audit>>

(* restorePreviousConfiguration: when the write fails, neither the file    *)
(* nor the engine goes back.                                               *)
restorePreviousConfiguration ==
  /\ pc = "rollback"
  /\ \/ ReplaceCapability(previous) /\ ApplyConfiguration(previous)
     \/ UNCHANGED <<disk, conf, inst, verification>>
  /\ recordOutcome("enabled", "failed")
  /\ Return
  /\ UNCHANGED <<up, rt, sample, scopes, here>>

Reenable ==
  /\ pc = "reenable"
  /\ RunEnable
  /\ Return
  /\ UNCHANGED <<up, disk, conf, inst, sample, scopes, here, audit>>

ReenableFailed ==
  /\ pc = "reenable"
  /\ emergencyStop
  /\ Return
  /\ UNCHANGED <<up, disk, conf, inst, verification, sample, scopes, here, audit>>
-----------------------------------------------------------------------------
(* Disable.                                                                *)

(* Disabled intent with an active runtime is disabled again; without one   *)
(* the call changes nothing.                                               *)
DisableRequested ==
  /\ up /\ pc = "idle"
  /\ IF Enabled(conf) THEN pc' = "disable-write" /\ target' = conf.scope
                      ELSE Active /\ pc' = "disable-run" /\ UNCHANGED target
  /\ recordRequested("disabled")
  /\ UNCHANGED <<up, disk, conf, inst, verification, rt, sample, scopes, here, previous>>

DisableWritten ==
  /\ pc = "disable-write"
  /\ ReplaceCapability([desired |-> "disabled", scope |-> target])
  /\ pc' = "disable-apply"
  /\ UNCHANGED <<up, inst, verification, rt, sample, scopes, here, target, previous, audit>>

DisableNotWritten ==
  /\ pc = "disable-write"
  /\ recordOutcome("disabled", "failed")
  /\ Return
  /\ UNCHANGED <<up, disk, conf, inst, verification, rt, sample, scopes, here>>

DisableApplied ==
  /\ pc = "disable-apply"
  /\ ApplyConfiguration(conf)
  /\ pc' = "disable-run"
  /\ UNCHANGED <<up, disk, conf, rt, sample, scopes, here, target, previous, audit>>

(* Run(disable) reaches Runtime.Stop, which cancels and then waits holding *)
(* the operation lock.                                                     *)
DisableRun ==
  /\ pc = "disable-run"
  /\ rt' = Cancelled(rt)
  /\ pc' = "stopping"
  /\ UNCHANGED <<up, disk, conf, inst, verification, sample, scopes, here, target,
                 previous, audit>>

(* The engine fails before the driver is called: the configuration stays   *)
(* disabled and the emergency stop contains the runtime.                   *)
DisableNotRun ==
  /\ pc = "disable-run"
  /\ emergencyStop
  /\ recordOutcome("disabled", "failed")
  /\ Return
  /\ UNCHANGED <<up, disk, conf, inst, verification, sample, scopes, here>>

DisableUnawaited ==
  /\ pc = "stopping"
  /\ verification' = "unverified"
  /\ recordOutcome("disabled", "applied")
  /\ Return
  /\ UNCHANGED <<up, disk, conf, inst, rt, sample, scopes, here>>

(* The goroutine ended: success.                                           *)
Disable ==
  /\ pc = "stopping" /\ ~Active
  /\ verification' = "unverified"
  /\ recordOutcome("disabled", "applied")
  /\ Return
  /\ UNCHANGED <<up, disk, conf, inst, rt, sample, scopes, here>>

(* The request's context ended first, and so may the emergency stop's.     *)
DisableTimedOut ==
  /\ pc = "stopping"
  /\ recordOutcome("disabled", "failed")
  /\ Return
  /\ UNCHANGED <<up, disk, conf, inst, verification, rt, sample, scopes, here>>
-----------------------------------------------------------------------------
(* Enrollment and retirement.                                              *)

(* A different active binding is a conflict, the same one a no-op.         *)
EnrollDeviceWatchScope(s) ==
  /\ up /\ scopes[s] = "unused" /\ Current(s)
  /\ ActiveScopes = {}
  /\ scopes' = [scopes EXCEPT ![s] = "active"]
  /\ UNCHANGED <<up, disk, conf, inst, verification, rt, sample, here, pc, target,
                 previous, audit>>

RetireIntentOnly(s) ==
  /\ up /\ pc = "idle" /\ ~Enabled(conf)
  /\ ActiveScopes = {s}
  /\ scopes' = [scopes EXCEPT ![s] = "retired"]
  /\ UNCHANGED <<up, disk, conf, inst, verification, rt, sample, here, pc, target,
                 previous, audit>>

RetireScope(s) ==
  /\ up /\ pc = "idle" /\ ~Enabled(conf) /\ ~Active
  /\ ActiveScopes = {s}
  /\ scopes' = [scopes EXCEPT ![s] = "retired"]
  /\ UNCHANGED <<up, disk, conf, inst, verification, rt, sample, here, pc, target,
                 previous, audit>>
-----------------------------------------------------------------------------
(* The runtime goroutine.                                                  *)

others == <<up, disk, conf, inst, verification, scopes, here, pc, target, previous, audit>>

(* CollectOnce first checks its context and the scope's binding.           *)
CollectBegins ==
  /\ rt.phase = "running" /\ ~rt.busy /\ Current(rt.scope)
  /\ rt' = [rt EXCEPT !.busy = TRUE]
  /\ UNCHANGED others /\ UNCHANGED sample

CollectRefused ==
  /\ Active /\ ~rt.busy
  /\ rt.phase = "cancelled" \/ ~Current(rt.scope)
  /\ rt' = [rt EXCEPT !.last = "failed"]
  /\ UNCHANGED others /\ UNCHANGED sample

(* Both neighbour caches were read ("complete") or one was not ("gap").    *)
CollectSucceeds ==
  /\ rt.busy
  /\ rt' = [rt EXCEPT !.busy = FALSE, !.last = "ok"]
  /\ \E quality \in {"complete", "gap"} : sample' = [sample EXCEPT ![rt.scope] = quality]
  /\ UNCHANGED others

(* A failed snapshot still stores an unavailable sample if it can; a       *)
(* failed ingestion stores none.                                           *)
CollectFails ==
  /\ rt.busy
  /\ rt' = [rt EXCEPT !.busy = FALSE, !.last = "failed"]
  /\ \/ UNCHANGED sample
     \/ sample' = [sample EXCEPT ![rt.scope] = "gap"]
  /\ UNCHANGED others

(* run returns on its cancelled context, and the goroutine clears started. *)
RuntimeEnds ==
  /\ rt.phase = "cancelled" /\ ~rt.busy
  /\ rt' = Stopped
  /\ UNCHANGED others /\ UNCHANGED sample
-----------------------------------------------------------------------------
(* Verification.                                                           *)

(* sensorHealth through sensorVerificationSignal.  The newest successful   *)
(* collection and its sample carry one capture time.                       *)
sensorVerificationSignal ==
  CASE ~Active -> "failed"
    [] Active /\ rt.last = "failed" -> "failed"
    [] Active /\ rt.last = "none" -> "missing"
    [] Active /\ rt.last = "ok" -> IF sample[rt.scope] = "old" THEN "stale" ELSE "fresh"

coverageVerificationSignal(s) ==
  CASE sample[s] = "none" -> "missing"
    [] sample[s] = "complete" -> "fresh"
    [] sample[s] = "gap" -> "failed"
    [] sample[s] = "old" -> "stale"

(* The statuses Verify reports; healthy is whether the ingestion and the   *)
(* storage signals, which other modules are about, are fresh.              *)
SignalsWithoutSensor(s, healthy) ==
  {IF Current(s) THEN "fresh" ELSE "missing", coverageVerificationSignal(s),
   IF healthy THEN "fresh" ELSE "failed"}

Signals(s, healthy) ==
  {IF Current(s) THEN "fresh" ELSE "missing", coverageVerificationSignal(s),
   sensorVerificationSignal, IF healthy THEN "fresh" ELSE "failed"}

evaluateVerification(signals) ==
  CASE "failed" \in signals -> "degraded"
    [] "failed" \notin signals /\ "stale" \in signals -> "stale"
    [] signals \cap {"failed", "stale"} = {} /\ "missing" \in signals -> "unverified"
    [] OTHER -> "verified"

(* Run(verify) of the periodic loop; it waits for the operation lock, which *)
(* Run(disable) holds while it stops the runtime.                          *)
Verify(healthy) ==
  /\ up /\ pc # "stopping" /\ Enabled(inst)
  /\ verification' = evaluateVerification(Signals(inst.scope, healthy))
  /\ UNCHANGED <<up, disk, conf, inst, rt, sample, scopes, here, pc, target, previous, audit>>
-----------------------------------------------------------------------------
(* The surroundings and the process.                                       *)

Move ==
  /\ here' \in Networks \cup {None}
  /\ here' # here
  /\ UNCHANGED <<up, disk, conf, inst, verification, rt, sample, scopes, pc, target,
                 previous, audit>>

(* The freshness window of the newest sample passes.                       *)
SampleAges(s) ==
  /\ sample[s] \in {"complete", "gap"}
  /\ sample' = [sample EXCEPT ![s] = "old"]
  /\ UNCHANGED <<up, disk, conf, inst, verification, rt, scopes, here, pc, target,
                 previous, audit>>

(* The process ends: what is not on disk is gone.                          *)
Crash ==
  /\ up
  /\ up' = FALSE
  /\ conf' = None /\ inst' = None /\ verification' = "unverified"
  /\ rt' = Stopped
  /\ Return
  /\ UNCHANGED <<disk, sample, scopes, here, audit>>

(* The controller loads config.json and enables Device Watch again when    *)
(* the loaded intent is enabled, before it serves requests.                *)
Startup ==
  /\ ~up
  /\ up' = TRUE
  /\ conf' = disk /\ inst' = disk
  /\ verification' = "unverified"
  /\ IF Enabled(disk) THEN pc' = "reenable" /\ target' = disk.scope
                      ELSE UNCHANGED <<pc, target>>
  /\ UNCHANGED <<disk, rt, sample, scopes, here, previous, audit>>
-----------------------------------------------------------------------------
CallProceeds ==
  \/ EnableWritten \/ EnableNotWritten \/ EnableApplied \/ Enable \/ EnableFailed
  \/ restorePreviousConfiguration \/ Reenable \/ ReenableFailed
  \/ DisableWritten \/ DisableNotWritten \/ DisableApplied \/ DisableRun
  \/ DisableNotRun \/ Disable \/ DisableTimedOut

CallBegins == EnableAgain \/ EnableRequested \/ DisableRequested

RuntimeSteps == CollectBegins \/ CollectRefused \/ CollectSucceeds \/ CollectFails \/ RuntimeEnds

Next ==
  \/ CallBegins \/ CallProceeds
  \/ RuntimeSteps
  \/ \E healthy \in BOOLEAN : Verify(healthy)
  \/ \E s \in Scopes : EnrollDeviceWatchScope(s) \/ RetireScope(s) \/ SampleAges(s)
  \/ Move \/ Crash \/ Startup

Spec == Init /\ [][Next]_vars

(* A call in progress goes on: every wait in it has a timeout.  A          *)
(* collection ends: its context has one too.  A cancelled runtime sees its *)
(* context.  The verification ticker fires; nothing is assumed of when the *)
(* ingestion or the storage is unhealthy.                                  *)
FairSpec ==
  /\ Spec
  /\ WF_vars(CallProceeds)
  /\ WF_vars(CollectSucceeds \/ CollectFails)
  /\ WF_vars(RuntimeEnds)
  /\ WF_vars(Verify(TRUE))
-----------------------------------------------------------------------------
(* Properties *)

(* The variables hold what config.json, the manager, the engine, the       *)
(* runtime and the tables of the store can hold.                           *)
TypeOK ==
  /\ up \in BOOLEAN
  /\ disk \in Configurations /\ conf \in Configurations
  /\ inst \in Configurations /\ previous \in Configurations
  /\ verification \in Verifications
  /\ rt \in RuntimeStates
  /\ sample \in [Scopes -> {"none", "complete", "gap", "old"}]
  /\ scopes \in [Scopes -> {"unused", "active", "retired"}]
  /\ here \in Networks \cup {None}
  /\ target \in Scopes \cup {None}
  /\ audit \in Events

(* Between control calls the file, the manager and the engine hold one     *)
(* configuration, whichever of their updates failed or was rolled back: a  *)
(* restart reads the intent the engine was acting on.                      *)
IntentAgrees == up /\ pc = "idle" => disk = conf /\ conf = inst

(* A runtime that was not told to stop collects for the durably enabled    *)
(* scope, except inside the disable call that has just written the intent: *)
(* neither a failed stop, a failed enable nor a restart leaves collection  *)
(* running, or brings it back, against the durable intent.                 *)
CollectsAsIntended ==
  rt.phase = "running" =>
    \/ disk = [desired |-> "enabled", scope |-> rt.scope]
    \/ pc \in {"disable-apply", "disable-run"}

(* Collection, and the intent to collect, rest on an unretired enrollment: *)
(* no interleaving of retirement, re-enrollment, a late runtime and a      *)
(* restart leaves one of them on a withdrawn scope, and no two scopes are  *)
(* enrolled at once.                                                       *)
AuthorisedScope ==
  /\ Active => scopes[rt.scope] = "active"
  /\ Enabled(disk) => scopes[disk.scope] = "active"
  /\ \A s, t \in ActiveScopes : s = t

(* Intent, collection and enrollment stay together, through failed writes, *)
(* failed stops, retirement and restarts: IntentAgrees, CollectsAsIntended *)
(* and AuthorisedScope.                                                    *)
IntentHolds == IntentAgrees /\ CollectsAsIntended /\ AuthorisedScope

(* While the newest intent event says a disable was applied, nothing       *)
(* collects and the durable intent is not enabled, restarts included.      *)
AppliedDisableHolds ==
  audit = [desired |-> "disabled", state |-> "applied"] => ~Active /\ ~Enabled(disk)

(* Verified coverage is coverage of the scope the engine is enabled for,   *)
(* on retained evidence of that scope: a change of intent, a new scope and *)
(* a restart all lose an earlier verdict.                                  *)
VerifiedIsCurrentIntent ==
  verification = "verified" => Enabled(inst) /\ sample[inst.scope] # "none"

(* A stop is noticed: once the intent is durably disabled the runtime      *)
(* ends, unless the capability is enabled again, and retained evidence     *)
(* does not keep the capability verified once its runtime has gone.        *)
StopsAreNoticed ==
  /\ (~Enabled(disk) /\ Active) ~> (~Active \/ Enabled(disk))
  /\ (verification = "verified" /\ ~Active) ~> (verification # "verified" \/ Active)

(* An enable recorded as applied has a runtime that goes on collecting.    *)
AppliedEnableIsLive ==
  [][(audit'.state = "applied" /\ audit'.desired = "enabled" /\ audit.state = "requested")
       => rt'.phase = "running"]_vars
=============================================================================
