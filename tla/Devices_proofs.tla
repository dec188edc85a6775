---------------------------- MODULE Devices_proofs ----------------------------
(*****************************************************************************)
(* Proofs about the device watch (DeviceWatchControl, for every set of       *)
(* scopes and networks) and the device identities it feeds                   *)
(* (DeviceCorrections, for any observations, addresses, times and limits).   *)
(* The two share no state.                                                   *)
(* IInv is the inductive invariant of the device watch: what a control call  *)
(* has already written at each of its places, next to the invariants         *)
(* themselves. Inv is the one of the identities: the corrections stay flat   *)
(* and name only devices that exist, and new evidence goes to the device     *)
(* that owns the recent evidence.                                            *)
(*****************************************************************************)
EXTENDS DeviceWatchControl, DeviceCorrections, TLAPS

-------------------------------------------------------------------------------
(* The device watch *)

EnableCall == {"enable-write", "enable-apply", "enable-run", "rollback"}

DisableCall == {"disable-write", "disable-apply", "disable-run", "stopping"}

(* What is in memory follows the file, except where a call has written one *)
(* and not yet applied the other; nothing runs while the process is down.  *)
MemoryFollows ==
  /\ up => disk = conf
  /\ up /\ pc \notin {"enable-apply", "disable-apply"} => conf = inst
  /\ ~up => pc = "idle" /\ rt = Stopped /\ inst = None /\ conf = None

(* What the enable call knows at each place.                               *)
EnablePlaces ==
  /\ pc \in EnableCall => target \in Scopes /\ scopes[target] = "active"
  /\ pc = "enable-write" => ~Enabled(disk)
  /\ pc \in {"enable-apply", "enable-run", "rollback"} =>
       disk = [desired |-> "enabled", scope |-> target] /\ ~Enabled(previous)
  /\ pc = "enable-apply" => ~Enabled(inst)
  /\ pc \in {"enable-apply", "rollback"} => rt.phase # "running"
  /\ pc = "reenable" =>
       target \in Scopes /\ disk = [desired |-> "enabled", scope |-> target]

(* What the disable call knows at each place.                              *)
DisablePlaces ==
  /\ pc = "disable-write" =>
       target \in Scopes /\ disk = [desired |-> "enabled", scope |-> target]
  /\ pc \in {"disable-apply", "disable-run", "stopping"} => ~Enabled(disk)
  /\ pc = "stopping" => rt.phase # "running"

(* An applied disable is over, and a call under way has only requested.    *)
AuditFollows ==
  /\ pc \in EnableCall \cup DisableCall => audit.state = "requested"
  /\ AppliedDisableHolds

(* The runtime's scope is one while it is active.                          *)
RuntimeScoped == Active => rt.scope \in Scopes

IInv ==
  /\ TypeOK /\ MemoryFollows /\ EnablePlaces /\ DisablePlaces /\ AuditFollows
  /\ RuntimeScoped /\ CollectsAsIntended /\ AuthorisedScope /\ VerifiedIsCurrentIntent

-----------------------------------------------------------------------------
(* Cancelling a runtime keeps its scope and never starts it.               *)
LEMMA CancelledType ==
  ASSUME NEW r \in RuntimeStates
  PROVE  /\ Cancelled(r) \in RuntimeStates
         /\ Cancelled(r).phase # "running"
         /\ (Cancelled(r).phase = "stopped") = (r.phase = "stopped")
         /\ Cancelled(r).scope = r.scope
  BY Zenon DEF Cancelled, RuntimeStates

(* A stopped runtime is one.                                               *)
LEMMA StoppedType == Stopped \in RuntimeStates /\ Stopped.phase = "stopped"
  BY Zenon DEF Stopped, RuntimeStates

(* A runtime just launched is one.                                         *)
LEMMA StartedType ==
  ASSUME NEW s \in Scopes
  PROVE  [phase |-> "running", scope |-> s, busy |-> FALSE, last |-> "none"] \in RuntimeStates
  BY Zenon DEF RuntimeStates

(* What the calls record is an event.                                      *)
LEMMA EventType ==
  ASSUME NEW d \in Desireds, NEW s \in {"none", "requested", "failed", "applied"}
  PROVE  [desired |-> d, state |-> s] \in Events
  BY Zenon DEF Events

(* What the calls write is a configuration, enabled or not as it says.     *)
LEMMA ConfigurationType ==
  /\ None \in Configurations /\ ~Enabled(None)
  /\ \A s \in Scopes :
       /\ [desired |-> "enabled", scope |-> s] \in Configurations
       /\ [desired |-> "disabled", scope |-> s] \in Configurations
       /\ Enabled([desired |-> "enabled", scope |-> s])
       /\ ~Enabled([desired |-> "disabled", scope |-> s])
  BY BindingAssumption DEF Configurations, Desireds, Enabled

(* An enabled configuration names a scope and nothing else.                *)
LEMMA EnabledForm ==
  ASSUME NEW c \in Configurations, Enabled(c)
  PROVE  c.scope \in Scopes /\ c = [desired |-> "enabled", scope |-> c.scope]
  BY Zenon DEF Configurations, Desireds, Enabled

(* The invariant holds before the controller's first start.                *)
LEMMA InitIInv == Init => IInv
<1> SUFFICES ASSUME Init PROVE IInv
  BY Zenon
<1> USE DEF Init
<1>1. TypeOK
  BY StoppedType, Zenon DEF TypeOK, Configurations, Verifications, Events, Desireds
<1>2. MemoryFollows
  BY Zenon DEF MemoryFollows
<1>3. EnablePlaces /\ DisablePlaces
  BY Zenon DEF EnablePlaces, DisablePlaces, EnableCall
<1>4. AuditFollows
  BY Zenon DEF AuditFollows, AppliedDisableHolds, EnableCall, DisableCall
<1>5. RuntimeScoped /\ CollectsAsIntended /\ AuthorisedScope /\ VerifiedIsCurrentIntent
  BY Zenon DEF RuntimeScoped, CollectsAsIntended, AuthorisedScope, VerifiedIsCurrentIntent,
     Stopped, Active,
     ActiveScopes, Enabled
<1> QED
  BY <1>1, <1>2, <1>3, <1>4, <1>5, Zenon DEF IInv

-----------------------------------------------------------------------------
(* Preservation, one lemma for each action.                                *)

(* A repeated enable finds the enabled scope in the file. *)
LEMMA EnableAgainIInv == ASSUME IInv, EnableAgain PROVE IInv'
<1> USE DEF EnableAgain
<1>1. TypeOK'
  <2>1. /\ target' \in Scopes \cup {None}
        /\ previous' \in Configurations
        /\ verification' \in Verifications
    BY ConfigurationType, EnabledForm, Zenon DEF IInv, TypeOK, Verifications, MemoryFollows
  <2> QED
    BY <2>1, Zenon DEF IInv, TypeOK
<1>2. MemoryFollows'
  BY Zenon DEF IInv, MemoryFollows
<1>3. EnablePlaces' /\ DisablePlaces'
  BY ConfigurationType, EnabledForm, Zenon DEF IInv, TypeOK, MemoryFollows, EnablePlaces,
     DisablePlaces, EnableCall
<1>4. AuditFollows'
  BY ConfigurationType, Zenon DEF IInv, MemoryFollows, AuditFollows, AppliedDisableHolds,
     EnablePlaces, DisablePlaces, EnableCall, DisableCall, Active
<1>5. CollectsAsIntended'
  BY Zenon DEF IInv, CollectsAsIntended, EnablePlaces, MemoryFollows
<1>6. RuntimeScoped' /\ AuthorisedScope' /\ VerifiedIsCurrentIntent'
  BY Zenon DEF IInv, RuntimeScoped, AuthorisedScope, VerifiedIsCurrentIntent, Active,
     ActiveScopes
<1> QED
  BY <1>1, <1>2, <1>3, <1>4, <1>5, <1>6, Zenon DEF IInv

(* The request picks the one active scope. *)
LEMMA EnableRequestedIInv == ASSUME IInv, EnableRequested PROVE IInv'
<1> USE DEF EnableRequested, recordRequested, ActiveScopes
<1>1. TypeOK'
  <2>1. audit' \in Events
    BY EventType, Zenon DEF IInv, TypeOK, Desireds
  <2>2. /\ target' \in Scopes \cup {None}
        /\ previous' \in Configurations
        /\ verification' \in Verifications
    BY ConfigurationType, EnabledForm, Zenon DEF IInv, TypeOK, Verifications, MemoryFollows
  <2> QED
    BY <2>1, <2>2, Zenon DEF IInv, TypeOK
<1>2. MemoryFollows'
  BY Zenon DEF IInv, MemoryFollows
<1>3. EnablePlaces' /\ DisablePlaces'
  BY ConfigurationType, EnabledForm, Zenon DEF IInv, TypeOK, MemoryFollows, EnablePlaces,
     DisablePlaces, EnableCall
<1>4. AuditFollows'
  BY ConfigurationType, Zenon DEF IInv, MemoryFollows, AuditFollows, AppliedDisableHolds,
     EnablePlaces, DisablePlaces, EnableCall, DisableCall, Active
<1>5. CollectsAsIntended'
  BY Zenon DEF IInv, CollectsAsIntended, EnablePlaces, MemoryFollows
<1>6. RuntimeScoped' /\ AuthorisedScope' /\ VerifiedIsCurrentIntent'
  BY Zenon DEF IInv, RuntimeScoped, AuthorisedScope, VerifiedIsCurrentIntent, Active,
     ActiveScopes
<1> QED
  BY <1>1, <1>2, <1>3, <1>4, <1>5, <1>6, Zenon DEF IInv

(* The enabled intent is written while nothing collects. *)
LEMMA EnableWrittenIInv == ASSUME IInv, EnableWritten PROVE IInv'
<1> USE DEF EnableWritten, ReplaceCapability
<1>1. TypeOK'
  <2>1. /\ target' \in Scopes \cup {None}
        /\ previous' \in Configurations
        /\ verification' \in Verifications
    BY ConfigurationType, EnabledForm, Zenon DEF IInv, TypeOK, Verifications, MemoryFollows
  <2>2. disk' \in Configurations /\ conf' \in Configurations /\ inst' \in Configurations
    BY ConfigurationType, Zenon DEF IInv, TypeOK, EnablePlaces, EnableCall, DisablePlaces
  <2> QED
    BY <2>1, <2>2, Zenon DEF IInv, TypeOK
<1>2. MemoryFollows'
  BY Zenon DEF IInv, MemoryFollows
<1>3. EnablePlaces' /\ DisablePlaces'
  BY ConfigurationType, EnabledForm DEF IInv, TypeOK, MemoryFollows, EnablePlaces,
     DisablePlaces, EnableCall, CollectsAsIntended, RuntimeScoped, Active
<1>4. AuditFollows'
  BY ConfigurationType DEF IInv, MemoryFollows, AuditFollows, AppliedDisableHolds,
     EnablePlaces, DisablePlaces, EnableCall, DisableCall, Active
<1>5. CollectsAsIntended'
  BY ConfigurationType, Zenon DEF IInv, CollectsAsIntended, EnablePlaces, RuntimeScoped, Active
<1>6. AuthorisedScope'
  BY ConfigurationType, Zenon DEF IInv, AuthorisedScope, Active, ActiveScopes, EnablePlaces,
     EnableCall
<1>7. RuntimeScoped' /\ VerifiedIsCurrentIntent'
  BY Zenon DEF IInv, RuntimeScoped, VerifiedIsCurrentIntent, Active
<1> QED
  BY <1>1, <1>2, <1>3, <1>4, <1>5, <1>6, <1>7, Zenon DEF IInv

(* A failed write ends the call where it began. *)
LEMMA EnableNotWrittenIInv == ASSUME IInv, EnableNotWritten PROVE IInv'
<1> USE DEF EnableNotWritten, Return, recordOutcome
<1>1. TypeOK'
  <2>1. audit' \in Events
    BY EventType, Zenon DEF IInv, TypeOK, Desireds
  <2>2. /\ target' \in Scopes \cup {None}
        /\ previous' \in Configurations
        /\ verification' \in Verifications
    BY ConfigurationType, EnabledForm, Zenon DEF IInv, TypeOK, Verifications, MemoryFollows
  <2> QED
    BY <2>1, <2>2, Zenon DEF IInv, TypeOK
<1>2. MemoryFollows'
  BY Zenon DEF IInv, MemoryFollows
<1>3. EnablePlaces' /\ DisablePlaces'
  BY ConfigurationType, EnabledForm, Zenon DEF IInv, TypeOK, MemoryFollows, EnablePlaces,
     DisablePlaces, EnableCall
<1>4. AuditFollows'
  BY ConfigurationType DEF IInv, MemoryFollows, AuditFollows, AppliedDisableHolds,
     EnablePlaces, DisablePlaces, EnableCall, DisableCall, Active
<1>5. CollectsAsIntended'
  BY Zenon DEF IInv, CollectsAsIntended, EnablePlaces, MemoryFollows
<1>6. RuntimeScoped' /\ AuthorisedScope' /\ VerifiedIsCurrentIntent'
  BY Zenon DEF IInv, RuntimeScoped, AuthorisedScope, VerifiedIsCurrentIntent, Active,
     ActiveScopes
<1> QED
  BY <1>1, <1>2, <1>3, <1>4, <1>5, <1>6, Zenon DEF IInv

(* The engine takes the written intent and forgets its verdict. *)
LEMMA EnableAppliedIInv == ASSUME IInv, EnableApplied PROVE IInv'
<1> USE DEF EnableApplied, ApplyConfiguration
<1>1. TypeOK'
  <2>1. /\ target' \in Scopes \cup {None}
        /\ previous' \in Configurations
        /\ verification' \in Verifications
    BY ConfigurationType, EnabledForm, Zenon DEF IInv, TypeOK, Verifications, MemoryFollows
  <2>2. disk' \in Configurations /\ conf' \in Configurations /\ inst' \in Configurations
    BY ConfigurationType, Zenon DEF IInv, TypeOK, EnablePlaces, EnableCall, DisablePlaces
  <2> QED
    BY <2>1, <2>2, Zenon DEF IInv, TypeOK
<1>2. MemoryFollows'
  BY Zenon DEF IInv, MemoryFollows
<1>3. EnablePlaces' /\ DisablePlaces'
  BY ConfigurationType, EnabledForm, Zenon DEF IInv, TypeOK, MemoryFollows, EnablePlaces,
     DisablePlaces, EnableCall
<1>4. AuditFollows'
  BY ConfigurationType, Zenon DEF IInv, MemoryFollows, AuditFollows, AppliedDisableHolds,
     EnablePlaces, DisablePlaces, EnableCall, DisableCall, Active
<1>5. CollectsAsIntended'
  BY Zenon DEF IInv, CollectsAsIntended, EnablePlaces, MemoryFollows
<1>6. VerifiedIsCurrentIntent'
  BY ConfigurationType, Zenon DEF IInv, VerifiedIsCurrentIntent, EnablePlaces, DesiredOf,
     Enabled
<1>7. RuntimeScoped' /\ AuthorisedScope'
  BY Zenon DEF IInv, RuntimeScoped, AuthorisedScope, Active, ActiveScopes
<1> QED
  BY <1>1, <1>2, <1>3, <1>4, <1>5, <1>6, <1>7, Zenon DEF IInv

(* A started runtime has the scope just written. *)
LEMMA EnableIInv == ASSUME IInv, Enable PROVE IInv'
<1> USE DEF Enable, RunEnable, Return, recordOutcome
<1>1. TypeOK'
  <2>1. rt' \in RuntimeStates
    BY StartedType, Zenon DEF IInv, TypeOK, EnablePlaces, EnableCall
  <2>2. audit' \in Events
    BY EventType, Zenon DEF IInv, TypeOK, Desireds
  <2>3. /\ target' \in Scopes \cup {None}
        /\ previous' \in Configurations
        /\ verification' \in Verifications
    BY ConfigurationType, EnabledForm, Zenon DEF IInv, TypeOK, Verifications, MemoryFollows
  <2> QED
    BY <2>1, <2>2, <2>3, Zenon DEF IInv, TypeOK
<1>2. MemoryFollows'
  BY Zenon DEF IInv, MemoryFollows
<1>3. EnablePlaces' /\ DisablePlaces'
  BY ConfigurationType, EnabledForm, Zenon DEF IInv, TypeOK, MemoryFollows, EnablePlaces,
     DisablePlaces, EnableCall
<1>4. AuditFollows'
  BY ConfigurationType DEF IInv, MemoryFollows, AuditFollows, AppliedDisableHolds,
     EnablePlaces, DisablePlaces, EnableCall, DisableCall, Active
<1>5. RuntimeScoped'
  BY DEF IInv, RuntimeScoped, EnablePlaces, EnableCall, Active
<1>6. CollectsAsIntended'
  BY DEF IInv, CollectsAsIntended, EnablePlaces, MemoryFollows
<1>7. AuthorisedScope'
  BY ConfigurationType DEF IInv, AuthorisedScope, Active, ActiveScopes, EnablePlaces,
     EnableCall
<1>8. VerifiedIsCurrentIntent'
  BY Zenon DEF IInv, VerifiedIsCurrentIntent
<1> QED
  BY <1>1, <1>2, <1>3, <1>4, <1>5, <1>6, <1>7, <1>8, Zenon DEF IInv

(* The emergency stop precedes the restoration. *)
LEMMA EnableFailedIInv == ASSUME IInv, EnableFailed PROVE IInv'
<1> USE DEF EnableFailed, emergencyStop
<1>0. /\ rt' \in RuntimeStates /\ rt'.phase # "running" /\ rt'.scope = rt.scope
      /\ (rt'.phase = "stopped") = (rt.phase = "stopped")
  BY CancelledType, Zenon DEF IInv, TypeOK
<1>1. TypeOK'
  <2>1. rt' \in RuntimeStates
    BY <1>0, Zenon
  <2> QED
    BY <2>1, Zenon DEF IInv, TypeOK
<1>2. MemoryFollows'
  BY Zenon DEF IInv, MemoryFollows
<1>3. EnablePlaces' /\ DisablePlaces'
  BY <1>0, ConfigurationType, EnabledForm, Zenon DEF IInv, TypeOK, MemoryFollows, EnablePlaces,
     DisablePlaces, EnableCall
<1>4. AuditFollows'
  BY <1>0, ConfigurationType, Zenon DEF IInv, MemoryFollows, AuditFollows, AppliedDisableHolds,
     EnablePlaces, DisablePlaces, EnableCall, DisableCall, Active
<1>5. RuntimeScoped'
  BY <1>0, Zenon DEF IInv, RuntimeScoped, EnablePlaces, EnableCall, Active
<1>6. CollectsAsIntended'
  BY <1>0, Zenon DEF IInv, CollectsAsIntended, EnablePlaces, MemoryFollows
<1>7. AuthorisedScope'
  BY <1>0, ConfigurationType, Zenon DEF IInv, AuthorisedScope, Active, ActiveScopes,
     EnablePlaces, EnableCall
<1>8. VerifiedIsCurrentIntent'
  BY Zenon DEF IInv, VerifiedIsCurrentIntent
<1> QED
  BY <1>1, <1>2, <1>3, <1>4, <1>5, <1>6, <1>7, <1>8, Zenon DEF IInv

(* File and engine go back together or not at all. *)
LEMMA RestoreIInv == ASSUME IInv, restorePreviousConfiguration PROVE IInv'
<1> USE DEF restorePreviousConfiguration, ReplaceCapability, ApplyConfiguration,
      Return, recordOutcome
<1>1. TypeOK'
  <2>1. audit' \in Events
    BY EventType, Zenon DEF IInv, TypeOK, Desireds
  <2>2. /\ target' \in Scopes \cup {None}
        /\ previous' \in Configurations
        /\ verification' \in Verifications
    BY ConfigurationType, EnabledForm, Zenon DEF IInv, TypeOK, Verifications, MemoryFollows
  <2>3. disk' \in Configurations /\ conf' \in Configurations /\ inst' \in Configurations
    BY ConfigurationType, Zenon DEF IInv, TypeOK, EnablePlaces, EnableCall, DisablePlaces
  <2> QED
    BY <2>1, <2>2, <2>3, Zenon DEF IInv, TypeOK
<1>2. MemoryFollows'
  BY Zenon DEF IInv, MemoryFollows
<1>3. EnablePlaces' /\ DisablePlaces'
  BY ConfigurationType, EnabledForm, Zenon DEF IInv, TypeOK, MemoryFollows, EnablePlaces,
     DisablePlaces, EnableCall
<1>4. AuditFollows'
  BY ConfigurationType DEF IInv, MemoryFollows, AuditFollows, AppliedDisableHolds,
     EnablePlaces, DisablePlaces, EnableCall, DisableCall, Active
<1>5. CollectsAsIntended'
  BY Zenon DEF IInv, CollectsAsIntended, EnablePlaces, MemoryFollows
<1>6. AuthorisedScope'
  BY ConfigurationType, Zenon DEF IInv, AuthorisedScope, Active, ActiveScopes, EnablePlaces,
     EnableCall
<1>7. VerifiedIsCurrentIntent'
  BY Zenon DEF IInv, VerifiedIsCurrentIntent, EnablePlaces, DesiredOf, Enabled
<1>8. RuntimeScoped'
  BY Zenon DEF IInv, RuntimeScoped, Active
<1> QED
  BY <1>1, <1>2, <1>3, <1>4, <1>5, <1>6, <1>7, <1>8, Zenon DEF IInv

(* A repeated enable starts the runtime for the configured scope. *)
LEMMA ReenableIInv == ASSUME IInv, Reenable PROVE IInv'
<1> USE DEF Reenable, RunEnable, Return
<1>1. TypeOK'
  <2>1. rt' \in RuntimeStates
    BY StartedType, Zenon DEF IInv, TypeOK, EnablePlaces
  <2>2. /\ target' \in Scopes \cup {None}
        /\ previous' \in Configurations
        /\ verification' \in Verifications
    BY ConfigurationType, EnabledForm, Zenon DEF IInv, TypeOK, Verifications, MemoryFollows
  <2> QED
    BY <2>1, <2>2, Zenon DEF IInv, TypeOK
<1>2. MemoryFollows'
  BY Zenon DEF IInv, MemoryFollows
<1>3. EnablePlaces' /\ DisablePlaces'
  BY ConfigurationType, EnabledForm, Zenon DEF IInv, TypeOK, MemoryFollows, EnablePlaces,
     DisablePlaces, EnableCall
<1>4. AuditFollows'
  BY ConfigurationType, Zenon DEF IInv, MemoryFollows, AuditFollows, AppliedDisableHolds,
     EnablePlaces, DisablePlaces, EnableCall, DisableCall, Active
<1>5. RuntimeScoped'
  BY DEF IInv, RuntimeScoped, EnablePlaces, EnableCall, Active
<1>6. CollectsAsIntended'
  BY DEF IInv, CollectsAsIntended, EnablePlaces, MemoryFollows
<1>7. AuthorisedScope'
  BY ConfigurationType DEF IInv, AuthorisedScope, Active, ActiveScopes, EnablePlaces,
     EnableCall
<1>8. VerifiedIsCurrentIntent'
  BY Zenon DEF IInv, VerifiedIsCurrentIntent
<1> QED
  BY <1>1, <1>2, <1>3, <1>4, <1>5, <1>6, <1>7, <1>8, Zenon DEF IInv

(* A failed repetition stops the runtime and keeps the intent. *)
LEMMA ReenableFailedIInv == ASSUME IInv, ReenableFailed PROVE IInv'
<1> USE DEF ReenableFailed, emergencyStop, Return
<1>0. /\ rt' \in RuntimeStates /\ rt'.phase # "running" /\ rt'.scope = rt.scope
      /\ (rt'.phase = "stopped") = (rt.phase = "stopped")
  BY CancelledType, Zenon DEF IInv, TypeOK
<1>1. TypeOK'
  <2>1. rt' \in RuntimeStates
    BY <1>0, Zenon
  <2>2. /\ target' \in Scopes \cup {None}
        /\ previous' \in Configurations
        /\ verification' \in Verifications
    BY ConfigurationType, EnabledForm, Zenon DEF IInv, TypeOK, Verifications, MemoryFollows
  <2> QED
    BY <2>1, <2>2, Zenon DEF IInv, TypeOK
<1>2. MemoryFollows'
  BY Zenon DEF IInv, MemoryFollows
<1>3. EnablePlaces' /\ DisablePlaces'
  BY <1>0, ConfigurationType, EnabledForm, Zenon DEF IInv, TypeOK, MemoryFollows, EnablePlaces,
     DisablePlaces, EnableCall
<1>4. AuditFollows'
  BY <1>0, ConfigurationType, Zenon DEF IInv, MemoryFollows, AuditFollows, AppliedDisableHolds,
     EnablePlaces, DisablePlaces, EnableCall, DisableCall, Active
<1>5. RuntimeScoped'
  BY <1>0, Zenon DEF IInv, RuntimeScoped, EnablePlaces, EnableCall, Active
<1>6. CollectsAsIntended'
  BY <1>0, Zenon DEF IInv, CollectsAsIntended, EnablePlaces, MemoryFollows
<1>7. AuthorisedScope'
  BY <1>0, ConfigurationType, Zenon DEF IInv, AuthorisedScope, Active, ActiveScopes,
     EnablePlaces, EnableCall
<1>8. VerifiedIsCurrentIntent'
  BY Zenon DEF IInv, VerifiedIsCurrentIntent
<1> QED
  BY <1>1, <1>2, <1>3, <1>4, <1>5, <1>6, <1>7, <1>8, Zenon DEF IInv

(* A disable of a disabled intent still stops a late runtime. *)
LEMMA DisableRequestedIInv == ASSUME IInv, DisableRequested PROVE IInv'
<1> USE DEF DisableRequested, recordRequested
<1>1. TypeOK'
  <2>1. audit' \in Events
    BY EventType, Zenon DEF IInv, TypeOK, Desireds
  <2>2. /\ target' \in Scopes \cup {None}
        /\ previous' \in Configurations
        /\ verification' \in Verifications
    BY ConfigurationType, EnabledForm, Zenon DEF IInv, TypeOK, Verifications, MemoryFollows
  <2> QED
    BY <2>1, <2>2, Zenon DEF IInv, TypeOK
<1>2. MemoryFollows'
  BY Zenon DEF IInv, MemoryFollows
<1>3. EnablePlaces' /\ DisablePlaces'
  BY ConfigurationType, EnabledForm DEF IInv, TypeOK, MemoryFollows, EnablePlaces,
     DisablePlaces, EnableCall
<1>4. AuditFollows'
  BY ConfigurationType, Zenon DEF IInv, MemoryFollows, AuditFollows, AppliedDisableHolds,
     EnablePlaces, DisablePlaces, EnableCall, DisableCall, Active
<1>5. CollectsAsIntended'
  BY Zenon DEF IInv, CollectsAsIntended, EnablePlaces, MemoryFollows
<1>6. RuntimeScoped' /\ AuthorisedScope' /\ VerifiedIsCurrentIntent'
  BY Zenon DEF IInv, RuntimeScoped, AuthorisedScope, VerifiedIsCurrentIntent, Active,
     ActiveScopes
<1> QED
  BY <1>1, <1>2, <1>3, <1>4, <1>5, <1>6, Zenon DEF IInv

(* The disabled intent is durable before the runtime is told. *)
LEMMA DisableWrittenIInv == ASSUME IInv, DisableWritten PROVE IInv'
<1> USE DEF DisableWritten, ReplaceCapability
<1>1. TypeOK'
  <2>1. disk' \in Configurations /\ conf' \in Configurations /\ inst' \in Configurations
    BY ConfigurationType, Zenon DEF IInv, TypeOK, EnablePlaces, EnableCall, DisablePlaces
  <2> QED
    BY <2>1, Zenon DEF IInv, TypeOK
<1>2. MemoryFollows'
  BY Zenon DEF IInv, MemoryFollows
<1>3. EnablePlaces' /\ DisablePlaces'
  BY ConfigurationType, EnabledForm, Zenon DEF IInv, TypeOK, MemoryFollows, EnablePlaces,
     DisablePlaces, EnableCall
<1>4. AuditFollows'
  BY ConfigurationType, Zenon DEF IInv, MemoryFollows, AuditFollows, AppliedDisableHolds,
     EnablePlaces, DisablePlaces, EnableCall, DisableCall, Active
<1>5. CollectsAsIntended'
  BY Zenon DEF IInv, CollectsAsIntended, EnablePlaces, MemoryFollows
<1>6. AuthorisedScope'
  BY ConfigurationType, Zenon DEF IInv, AuthorisedScope, Active, ActiveScopes, EnablePlaces,
     EnableCall, DisablePlaces
<1>7. RuntimeScoped' /\ VerifiedIsCurrentIntent'
  BY Zenon DEF IInv, RuntimeScoped, VerifiedIsCurrentIntent, Active
<1> QED
  BY <1>1, <1>2, <1>3, <1>4, <1>5, <1>6, <1>7, Zenon DEF IInv

(* A failed write leaves the enabled intent and its runtime. *)
LEMMA DisableNotWrittenIInv == ASSUME IInv, DisableNotWritten PROVE IInv'
<1> USE DEF DisableNotWritten, Return, recordOutcome
<1>1. TypeOK'
  <2>1. audit' \in Events
    BY EventType, Zenon DEF IInv, TypeOK, Desireds
  <2>2. /\ target' \in Scopes \cup {None}
        /\ previous' \in Configurations
        /\ verification' \in Verifications
    BY ConfigurationType, EnabledForm, Zenon DEF IInv, TypeOK, Verifications, MemoryFollows
  <2> QED
    BY <2>1, <2>2, Zenon DEF IInv, TypeOK
<1>2. MemoryFollows'
  BY Zenon DEF IInv, MemoryFollows
<1>3. EnablePlaces' /\ DisablePlaces'
  BY ConfigurationType, EnabledForm, Zenon DEF IInv, TypeOK, MemoryFollows, EnablePlaces,
     DisablePlaces, EnableCall
<1>4. AuditFollows'
  BY ConfigurationType DEF IInv, MemoryFollows, AuditFollows, AppliedDisableHolds,
     EnablePlaces, DisablePlaces, EnableCall, DisableCall, Active
<1>5. CollectsAsIntended'
  BY Zenon DEF IInv, CollectsAsIntended, EnablePlaces, MemoryFollows
<1>6. RuntimeScoped' /\ AuthorisedScope' /\ VerifiedIsCurrentIntent'
  BY Zenon DEF IInv, RuntimeScoped, AuthorisedScope, VerifiedIsCurrentIntent, Active,
     ActiveScopes
<1> QED
  BY <1>1, <1>2, <1>3, <1>4, <1>5, <1>6, Zenon DEF IInv

(* The engine takes the disabled intent and forgets its verdict. *)
LEMMA DisableAppliedIInv == ASSUME IInv, DisableApplied PROVE IInv'
<1> USE DEF DisableApplied, ApplyConfiguration
<1>1. TypeOK'
  <2>1. /\ target' \in Scopes \cup {None}
        /\ previous' \in Configurations
        /\ verification' \in Verifications
    BY ConfigurationType, EnabledForm, Zenon DEF IInv, TypeOK, Verifications, MemoryFollows
  <2>2. disk' \in Configurations /\ conf' \in Configurations /\ inst' \in Configurations
    BY ConfigurationType, Zenon DEF IInv, TypeOK, EnablePlaces, EnableCall, DisablePlaces
  <2> QED
    BY <2>1, <2>2, Zenon DEF IInv, TypeOK
<1>2. MemoryFollows'
  BY Zenon DEF IInv, MemoryFollows
<1>3. EnablePlaces' /\ DisablePlaces'
  BY ConfigurationType, EnabledForm, Zenon DEF IInv, TypeOK, MemoryFollows, EnablePlaces,
     DisablePlaces, EnableCall
<1>4. AuditFollows'
  BY ConfigurationType, Zenon DEF IInv, MemoryFollows, AuditFollows, AppliedDisableHolds,
     EnablePlaces, DisablePlaces, EnableCall, DisableCall, Active
<1>5. CollectsAsIntended'
  BY Zenon DEF IInv, CollectsAsIntended, EnablePlaces, MemoryFollows
<1>6. VerifiedIsCurrentIntent'
  BY Zenon DEF IInv, VerifiedIsCurrentIntent, DisablePlaces, MemoryFollows, DesiredOf, Enabled
<1>7. RuntimeScoped' /\ AuthorisedScope'
  BY Zenon DEF IInv, RuntimeScoped, AuthorisedScope, Active, ActiveScopes
<1> QED
  BY <1>1, <1>2, <1>3, <1>4, <1>5, <1>6, <1>7, Zenon DEF IInv

(* Stop cancels before it waits. *)
LEMMA DisableRunIInv == ASSUME IInv, DisableRun PROVE IInv'
<1> USE DEF DisableRun
<1>0. /\ rt' \in RuntimeStates /\ rt'.phase # "running" /\ rt'.scope = rt.scope
      /\ (rt'.phase = "stopped") = (rt.phase = "stopped")
  BY CancelledType, Zenon DEF IInv, TypeOK
<1>1. TypeOK'
  <2>1. rt' \in RuntimeStates
    BY <1>0, Zenon
  <2> QED
    BY <2>1, Zenon DEF IInv, TypeOK
<1>2. MemoryFollows'
  BY Zenon DEF IInv, MemoryFollows
<1>3. EnablePlaces' /\ DisablePlaces'
  BY <1>0, ConfigurationType, EnabledForm, Zenon DEF IInv, TypeOK, MemoryFollows, EnablePlaces,
     DisablePlaces, EnableCall
<1>4. AuditFollows'
  BY <1>0, ConfigurationType, Zenon DEF IInv, MemoryFollows, AuditFollows, AppliedDisableHolds,
     EnablePlaces, DisablePlaces, EnableCall, DisableCall, Active
<1>5. RuntimeScoped'
  BY <1>0, Zenon DEF IInv, RuntimeScoped, EnablePlaces, EnableCall, Active
<1>6. CollectsAsIntended'
  BY <1>0, Zenon DEF IInv, CollectsAsIntended, EnablePlaces, MemoryFollows
<1>7. AuthorisedScope'
  BY <1>0, ConfigurationType, Zenon DEF IInv, AuthorisedScope, Active, ActiveScopes,
     EnablePlaces, EnableCall
<1>8. VerifiedIsCurrentIntent'
  BY Zenon DEF IInv, VerifiedIsCurrentIntent
<1> QED
  BY <1>1, <1>2, <1>3, <1>4, <1>5, <1>6, <1>7, <1>8, Zenon DEF IInv

(* A refused stop is contained by the emergency stop. *)
LEMMA DisableNotRunIInv == ASSUME IInv, DisableNotRun PROVE IInv'
<1> USE DEF DisableNotRun, emergencyStop, Return, recordOutcome
<1>0. /\ rt' \in RuntimeStates /\ rt'.phase # "running" /\ rt'.scope = rt.scope
      /\ (rt'.phase = "stopped") = (rt.phase = "stopped")
  BY CancelledType, Zenon DEF IInv, TypeOK
<1>1. TypeOK'
  <2>1. rt' \in RuntimeStates
    BY <1>0, Zenon
  <2>2. audit' \in Events
    BY EventType, Zenon DEF IInv, TypeOK, Desireds
  <2>3. /\ target' \in Scopes \cup {None}
        /\ previous' \in Configurations
        /\ verification' \in Verifications
    BY ConfigurationType, EnabledForm, Zenon DEF IInv, TypeOK, Verifications, MemoryFollows
  <2> QED
    BY <2>1, <2>2, <2>3, Zenon DEF IInv, TypeOK
<1>2. MemoryFollows'
  BY Zenon DEF IInv, MemoryFollows
<1>3. EnablePlaces' /\ DisablePlaces'
  BY <1>0, ConfigurationType, EnabledForm, Zenon DEF IInv, TypeOK, MemoryFollows, EnablePlaces,
     DisablePlaces, EnableCall
<1>4. AuditFollows'
  BY <1>0, ConfigurationType DEF IInv, MemoryFollows, AuditFollows, AppliedDisableHolds,
     EnablePlaces, DisablePlaces, EnableCall, DisableCall, Active
<1>5. RuntimeScoped'
  BY <1>0, Zenon DEF IInv, RuntimeScoped, EnablePlaces, EnableCall, Active
<1>6. CollectsAsIntended'
  BY <1>0, Zenon DEF IInv, CollectsAsIntended, EnablePlaces, MemoryFollows
<1>7. AuthorisedScope'
  BY <1>0, ConfigurationType, Zenon DEF IInv, AuthorisedScope, Active, ActiveScopes,
     EnablePlaces, EnableCall
<1>8. VerifiedIsCurrentIntent'
  BY Zenon DEF IInv, VerifiedIsCurrentIntent
<1> QED
  BY <1>1, <1>2, <1>3, <1>4, <1>5, <1>6, <1>7, <1>8, Zenon DEF IInv

(* An applied disable has seen the goroutine end. *)
LEMMA DisableIInv == ASSUME IInv, Disable PROVE IInv'
<1> USE DEF Disable, Return, recordOutcome
<1>1. TypeOK'
  <2>1. audit' \in Events
    BY EventType, Zenon DEF IInv, TypeOK, Desireds
  <2>2. /\ target' \in Scopes \cup {None}
        /\ previous' \in Configurations
        /\ verification' \in Verifications
    BY ConfigurationType, EnabledForm, Zenon DEF IInv, TypeOK, Verifications, MemoryFollows
  <2> QED
    BY <2>1, <2>2, Zenon DEF IInv, TypeOK
<1>2. MemoryFollows'
  BY Zenon DEF IInv, MemoryFollows
<1>3. EnablePlaces' /\ DisablePlaces'
  BY ConfigurationType, EnabledForm, Zenon DEF IInv, TypeOK, MemoryFollows, EnablePlaces,
     DisablePlaces, EnableCall
<1>4. AuditFollows'
  BY ConfigurationType, Zenon DEF IInv, MemoryFollows, AuditFollows, AppliedDisableHolds,
     EnablePlaces, DisablePlaces, EnableCall, DisableCall, Active
<1>5. CollectsAsIntended'
  BY Zenon DEF IInv, CollectsAsIntended, EnablePlaces, MemoryFollows
<1>6. VerifiedIsCurrentIntent'
  BY Zenon DEF IInv, VerifiedIsCurrentIntent
<1>7. RuntimeScoped' /\ AuthorisedScope'
  BY Zenon DEF IInv, RuntimeScoped, AuthorisedScope, Active, ActiveScopes
<1> QED
  BY <1>1, <1>2, <1>3, <1>4, <1>5, <1>6, <1>7, Zenon DEF IInv

(* A timed-out stop leaves a cancelled runtime. *)
LEMMA DisableTimedOutIInv == ASSUME IInv, DisableTimedOut PROVE IInv'
<1> USE DEF DisableTimedOut, Return, recordOutcome
<1>1. TypeOK'
  <2>1. audit' \in Events
    BY EventType, Zenon DEF IInv, TypeOK, Desireds
  <2>2. /\ target' \in Scopes \cup {None}
        /\ previous' \in Configurations
        /\ verification' \in Verifications
    BY ConfigurationType, EnabledForm, Zenon DEF IInv, TypeOK, Verifications, MemoryFollows
  <2> QED
    BY <2>1, <2>2, Zenon DEF IInv, TypeOK
<1>2. MemoryFollows'
  BY Zenon DEF IInv, MemoryFollows
<1>3. EnablePlaces' /\ DisablePlaces'
  BY ConfigurationType, EnabledForm, Zenon DEF IInv, TypeOK, MemoryFollows, EnablePlaces,
     DisablePlaces, EnableCall
<1>4. AuditFollows'
  BY ConfigurationType DEF IInv, MemoryFollows, AuditFollows, AppliedDisableHolds,
     EnablePlaces, DisablePlaces, EnableCall, DisableCall, Active
<1>5. CollectsAsIntended'
  BY Zenon DEF IInv, CollectsAsIntended, EnablePlaces, MemoryFollows
<1>6. RuntimeScoped' /\ AuthorisedScope' /\ VerifiedIsCurrentIntent'
  BY Zenon DEF IInv, RuntimeScoped, AuthorisedScope, VerifiedIsCurrentIntent, Active,
     ActiveScopes
<1> QED
  BY <1>1, <1>2, <1>3, <1>4, <1>5, <1>6, Zenon DEF IInv

(* Enrollment needs that no scope is active. *)
LEMMA EnrollIInv == ASSUME IInv, NEW s \in Scopes, EnrollDeviceWatchScope(s) PROVE IInv'
<1> USE DEF EnrollDeviceWatchScope
<1>1. TypeOK'
  BY Zenon DEF IInv, TypeOK
<1>2. EnablePlaces' /\ DisablePlaces'
  BY ConfigurationType, EnabledForm, Zenon DEF IInv, TypeOK, MemoryFollows, EnablePlaces,
     DisablePlaces, EnableCall
<1>3. AuthorisedScope'
  BY ConfigurationType DEF IInv, AuthorisedScope, Active, ActiveScopes, EnablePlaces,
     EnableCall
<1>4. /\ MemoryFollows'
      /\ AuditFollows'
      /\ RuntimeScoped'
      /\ CollectsAsIntended'
      /\ VerifiedIsCurrentIntent'
  BY Zenon DEF IInv, MemoryFollows, AuditFollows, AppliedDisableHolds, RuntimeScoped,
     CollectsAsIntended, VerifiedIsCurrentIntent, Active
<1> QED
  BY <1>1, <1>2, <1>3, <1>4, Zenon DEF IInv

(* Retirement needs that nothing is active or intended. *)
LEMMA RetireIInv == ASSUME IInv, NEW s \in Scopes, RetireScope(s) PROVE IInv'
<1> USE DEF RetireScope
<1>1. TypeOK'
  BY Zenon DEF IInv, TypeOK
<1>2. EnablePlaces' /\ DisablePlaces'
  BY ConfigurationType, EnabledForm, Zenon DEF IInv, TypeOK, MemoryFollows, EnablePlaces,
     DisablePlaces, EnableCall
<1>3. AuthorisedScope'
  BY ConfigurationType DEF IInv, AuthorisedScope, Active, ActiveScopes, EnablePlaces,
     EnableCall, MemoryFollows, TypeOK
<1>4. /\ MemoryFollows'
      /\ AuditFollows'
      /\ RuntimeScoped'
      /\ CollectsAsIntended'
      /\ VerifiedIsCurrentIntent'
  BY Zenon DEF IInv, MemoryFollows, AuditFollows, AppliedDisableHolds, RuntimeScoped,
     CollectsAsIntended, VerifiedIsCurrentIntent, Active
<1> QED
  BY <1>1, <1>2, <1>3, <1>4, Zenon DEF IInv

(* A verified verdict has evidence of the enabled scope. *)
LEMMA VerifyIInv == ASSUME IInv, NEW healthy \in BOOLEAN, Verify(healthy) PROVE IInv'
<1> USE DEF Verify
<1>1. TypeOK'
  <2>1. /\ target' \in Scopes \cup {None}
        /\ previous' \in Configurations
        /\ verification' \in Verifications
    BY Zenon DEF IInv, TypeOK, Verifications, evaluateVerification
  <2> QED
    BY <2>1, Zenon DEF IInv, TypeOK
<1>2. VerifiedIsCurrentIntent'
  BY Zenon DEF IInv, VerifiedIsCurrentIntent, evaluateVerification, Signals,
     coverageVerificationSignal
<1>3. /\ MemoryFollows'
      /\ EnablePlaces'
      /\ DisablePlaces'
      /\ AuditFollows'
      /\ RuntimeScoped'
      /\ CollectsAsIntended'
      /\ AuthorisedScope'
  BY Zenon DEF IInv, MemoryFollows, EnablePlaces, DisablePlaces, AuditFollows,
     AppliedDisableHolds, RuntimeScoped, CollectsAsIntended, AuthorisedScope, Active,
     ActiveScopes
<1> QED
  BY <1>1, <1>2, <1>3, Zenon DEF IInv

(* The network is no part of the invariant: a step that changes nothing    *)
(* else keeps it.                                                          *)
LEMMA FrameIInv ==
  ASSUME IInv, here' \in Networks \cup {None},
         UNCHANGED <<up, disk, conf, inst, verification, rt, sample, scopes, pc, target,
                     previous, audit>>
  PROVE  IInv'
<1>1. TypeOK'
  BY Zenon DEF IInv, TypeOK
<1>2. MemoryFollows'
  BY Zenon DEF IInv, MemoryFollows
<1>3. EnablePlaces' /\ DisablePlaces'
  BY Zenon DEF IInv, EnablePlaces, DisablePlaces
<1>4. AuditFollows'
  BY Zenon DEF IInv, AuditFollows, AppliedDisableHolds, Active
<1>5. RuntimeScoped' /\ CollectsAsIntended'
  BY Zenon DEF IInv, RuntimeScoped, CollectsAsIntended, Active
<1>6. AuthorisedScope'
  BY Zenon DEF IInv, AuthorisedScope, Active, ActiveScopes
<1>7. VerifiedIsCurrentIntent'
  BY Zenon DEF IInv, VerifiedIsCurrentIntent
<1> QED
  BY <1>1, <1>2, <1>3, <1>4, <1>5, <1>6, <1>7, Zenon DEF IInv

(* An aged sample is still a sample. *)
LEMMA SampleAgesIInv == ASSUME IInv, NEW s \in Scopes, SampleAges(s) PROVE IInv'
<1> USE DEF SampleAges
<1>1. TypeOK'
  BY Zenon DEF IInv, TypeOK
<1>2. VerifiedIsCurrentIntent'
  BY DEF IInv, VerifiedIsCurrentIntent
<1>3. /\ MemoryFollows'
      /\ EnablePlaces'
      /\ DisablePlaces'
      /\ AuditFollows'
      /\ RuntimeScoped'
      /\ CollectsAsIntended'
      /\ AuthorisedScope'
  BY DEF IInv, MemoryFollows, EnablePlaces, DisablePlaces, AuditFollows,
     AppliedDisableHolds, RuntimeScoped, CollectsAsIntended, AuthorisedScope, Active,
     ActiveScopes
<1> QED
  BY <1>1, <1>2, <1>3, Zenon DEF IInv

(* The end of the process ends the runtime. *)
LEMMA CrashIInv == ASSUME IInv, Crash PROVE IInv'
<1> USE DEF Crash, Return
<1>1. TypeOK'
  <2>1. rt' \in RuntimeStates
    BY StoppedType, Zenon
  <2>2. /\ target' \in Scopes \cup {None}
        /\ previous' \in Configurations
        /\ verification' \in Verifications
    BY ConfigurationType, EnabledForm, Zenon DEF IInv, TypeOK, Verifications, MemoryFollows
  <2>3. disk' \in Configurations /\ conf' \in Configurations /\ inst' \in Configurations
    BY ConfigurationType, Zenon DEF IInv, TypeOK, EnablePlaces, EnableCall, DisablePlaces
  <2> QED
    BY <2>1, <2>2, <2>3, Zenon DEF IInv, TypeOK
<1>2. MemoryFollows'
  BY Zenon DEF IInv, MemoryFollows
<1>3. EnablePlaces' /\ DisablePlaces'
  BY StoppedType, ConfigurationType, EnabledForm, Zenon DEF IInv, TypeOK, MemoryFollows,
     EnablePlaces, DisablePlaces, EnableCall
<1>4. AuditFollows'
  BY StoppedType, ConfigurationType, Zenon DEF IInv, MemoryFollows, AuditFollows,
     AppliedDisableHolds, EnablePlaces, DisablePlaces, EnableCall, DisableCall, Active
<1>5. RuntimeScoped'
  BY StoppedType, Zenon DEF IInv, RuntimeScoped, EnablePlaces, EnableCall, Active
<1>6. CollectsAsIntended'
  BY StoppedType, Zenon DEF IInv, CollectsAsIntended, EnablePlaces, MemoryFollows
<1>7. AuthorisedScope'
  BY StoppedType, ConfigurationType, Zenon DEF IInv, AuthorisedScope, Active, ActiveScopes,
     EnablePlaces, EnableCall
<1>8. VerifiedIsCurrentIntent'
  BY Zenon DEF IInv, VerifiedIsCurrentIntent
<1> QED
  BY <1>1, <1>2, <1>3, <1>4, <1>5, <1>6, <1>7, <1>8, Zenon DEF IInv

(* The start reads the file and repeats an enabled intent. *)
LEMMA StartupIInv == ASSUME IInv, Startup PROVE IInv'
<1> USE DEF Startup
<1>1. TypeOK'
  <2>1. /\ target' \in Scopes \cup {None}
        /\ previous' \in Configurations
        /\ verification' \in Verifications
    BY ConfigurationType, EnabledForm, Zenon DEF IInv, TypeOK, Verifications, MemoryFollows
  <2>2. disk' \in Configurations /\ conf' \in Configurations /\ inst' \in Configurations
    BY ConfigurationType, Zenon DEF IInv, TypeOK, EnablePlaces, EnableCall, DisablePlaces
  <2> QED
    BY <2>1, <2>2, Zenon DEF IInv, TypeOK
<1>2. MemoryFollows'
  BY Zenon DEF IInv, MemoryFollows
<1>3. EnablePlaces' /\ DisablePlaces'
  BY ConfigurationType, EnabledForm, Zenon DEF IInv, TypeOK, MemoryFollows, EnablePlaces,
     DisablePlaces, EnableCall
<1>4. AuditFollows'
  BY ConfigurationType, Zenon DEF IInv, MemoryFollows, AuditFollows, AppliedDisableHolds,
     EnablePlaces, DisablePlaces, EnableCall, DisableCall, Active
<1>5. CollectsAsIntended'
  BY Zenon DEF IInv, CollectsAsIntended, EnablePlaces, MemoryFollows
<1>6. VerifiedIsCurrentIntent'
  BY Zenon DEF IInv, VerifiedIsCurrentIntent
<1>7. RuntimeScoped' /\ AuthorisedScope'
  BY Zenon DEF IInv, RuntimeScoped, AuthorisedScope, Active, ActiveScopes
<1> QED
  BY <1>1, <1>2, <1>3, <1>4, <1>5, <1>6, <1>7, Zenon DEF IInv

(* A collection begins. *)
LEMMA CollectBeginsIInv == ASSUME IInv, CollectBegins PROVE IInv'
<1> USE DEF CollectBegins, others
<1>0. rt' \in RuntimeStates /\ rt'.phase = rt.phase /\ rt'.scope = rt.scope
  BY Zenon DEF IInv, TypeOK, RuntimeStates
<1>1. TypeOK'
  <2>1. rt' \in RuntimeStates
    BY <1>0, Zenon
  <2> QED
    BY <2>1, Zenon DEF IInv, TypeOK
<1>2. MemoryFollows'
  BY <1>0 DEF IInv, MemoryFollows, Stopped, Active
<1>3. EnablePlaces' /\ DisablePlaces'
  BY <1>0, ConfigurationType, EnabledForm, Zenon DEF IInv, TypeOK, MemoryFollows, EnablePlaces,
     DisablePlaces, EnableCall
<1>4. AuditFollows'
  BY <1>0, ConfigurationType, Zenon DEF IInv, MemoryFollows, AuditFollows, AppliedDisableHolds,
     EnablePlaces, DisablePlaces, EnableCall, DisableCall, Active
<1>5. RuntimeScoped'
  BY <1>0, Zenon DEF IInv, RuntimeScoped, EnablePlaces, EnableCall, Active
<1>6. CollectsAsIntended'
  BY <1>0, Zenon DEF IInv, CollectsAsIntended, EnablePlaces, MemoryFollows
<1>7. AuthorisedScope'
  BY <1>0, ConfigurationType, Zenon DEF IInv, AuthorisedScope, Active, ActiveScopes,
     EnablePlaces, EnableCall
<1>8. VerifiedIsCurrentIntent'
  BY Zenon DEF IInv, VerifiedIsCurrentIntent
<1> QED
  BY <1>1, <1>2, <1>3, <1>4, <1>5, <1>6, <1>7, <1>8, Zenon DEF IInv

(* A collection is refused. *)
LEMMA CollectRefusedIInv == ASSUME IInv, CollectRefused PROVE IInv'
<1> USE DEF CollectRefused, others
<1>0. rt' \in RuntimeStates /\ rt'.phase = rt.phase /\ rt'.scope = rt.scope
  BY Zenon DEF IInv, TypeOK, RuntimeStates
<1>1. TypeOK'
  <2>1. rt' \in RuntimeStates
    BY <1>0, Zenon
  <2> QED
    BY <2>1, Zenon DEF IInv, TypeOK
<1>2. MemoryFollows'
  BY <1>0 DEF IInv, MemoryFollows, Stopped, Active
<1>3. EnablePlaces' /\ DisablePlaces'
  BY <1>0, ConfigurationType, EnabledForm, Zenon DEF IInv, TypeOK, MemoryFollows, EnablePlaces,
     DisablePlaces, EnableCall
<1>4. AuditFollows'
  BY <1>0, ConfigurationType, Zenon DEF IInv, MemoryFollows, AuditFollows, AppliedDisableHolds,
     EnablePlaces, DisablePlaces, EnableCall, DisableCall, Active
<1>5. RuntimeScoped'
  BY <1>0, Zenon DEF IInv, RuntimeScoped, EnablePlaces, EnableCall, Active
<1>6. CollectsAsIntended'
  BY <1>0, Zenon DEF IInv, CollectsAsIntended, EnablePlaces, MemoryFollows
<1>7. AuthorisedScope'
  BY <1>0, ConfigurationType, Zenon DEF IInv, AuthorisedScope, Active, ActiveScopes,
     EnablePlaces, EnableCall
<1>8. VerifiedIsCurrentIntent'
  BY Zenon DEF IInv, VerifiedIsCurrentIntent
<1> QED
  BY <1>1, <1>2, <1>3, <1>4, <1>5, <1>6, <1>7, <1>8, Zenon DEF IInv

(* A collection succeeds. *)
LEMMA CollectSucceedsIInv == ASSUME IInv, CollectSucceeds PROVE IInv'
<1> USE DEF CollectSucceeds, others
<1>0. rt' \in RuntimeStates /\ rt'.phase = rt.phase /\ rt'.scope = rt.scope
  BY Zenon DEF IInv, TypeOK, RuntimeStates
<1>1. TypeOK'
  <2>1. rt' \in RuntimeStates
    BY <1>0, Zenon
  <2> QED
    BY <2>1, Zenon DEF IInv, TypeOK
<1>2. MemoryFollows'
  BY <1>0 DEF IInv, MemoryFollows, Stopped, Active
<1>3. EnablePlaces' /\ DisablePlaces'
  BY <1>0, ConfigurationType, EnabledForm, Zenon DEF IInv, TypeOK, MemoryFollows, EnablePlaces,
     DisablePlaces, EnableCall
<1>4. AuditFollows'
  BY <1>0, ConfigurationType, Zenon DEF IInv, MemoryFollows, AuditFollows, AppliedDisableHolds,
     EnablePlaces, DisablePlaces, EnableCall, DisableCall, Active
<1>5. RuntimeScoped'
  BY <1>0, Zenon DEF IInv, RuntimeScoped, EnablePlaces, EnableCall, Active
<1>6. CollectsAsIntended'
  BY <1>0, Zenon DEF IInv, CollectsAsIntended, EnablePlaces, MemoryFollows
<1>7. AuthorisedScope'
  BY <1>0, ConfigurationType DEF IInv, AuthorisedScope, Active, ActiveScopes,
     EnablePlaces, EnableCall
<1>8. VerifiedIsCurrentIntent'
  BY DEF IInv, VerifiedIsCurrentIntent
<1> QED
  BY <1>1, <1>2, <1>3, <1>4, <1>5, <1>6, <1>7, <1>8, Zenon DEF IInv

(* A collection fails. *)
LEMMA CollectFailsIInv == ASSUME IInv, CollectFails PROVE IInv'
<1> USE DEF CollectFails, others
<1>0. rt' \in RuntimeStates /\ rt'.phase = rt.phase /\ rt'.scope = rt.scope
  BY Zenon DEF IInv, TypeOK, RuntimeStates
<1>a. \A s \in Scopes : sample'[s] = "none" => sample[s] = "none"
  BY Zenon DEF IInv, TypeOK
<1>1. TypeOK'
  <2>1. rt' \in RuntimeStates
    BY <1>0, Zenon
  <2> QED
    BY <2>1, Zenon DEF IInv, TypeOK
<1>2. MemoryFollows'
  BY <1>0 DEF IInv, MemoryFollows, Stopped, Active
<1>3. EnablePlaces' /\ DisablePlaces'
  BY <1>0, ConfigurationType, EnabledForm, Zenon DEF IInv, TypeOK, MemoryFollows, EnablePlaces,
     DisablePlaces, EnableCall
<1>4. AuditFollows'
  BY <1>0, ConfigurationType, Zenon DEF IInv, MemoryFollows, AuditFollows, AppliedDisableHolds,
     EnablePlaces, DisablePlaces, EnableCall, DisableCall, Active
<1>5. RuntimeScoped'
  BY <1>0, Zenon DEF IInv, RuntimeScoped, EnablePlaces, EnableCall, Active
<1>6. CollectsAsIntended'
  BY <1>0, Zenon DEF IInv, CollectsAsIntended, EnablePlaces, MemoryFollows
<1>7. AuthorisedScope'
  BY <1>0, ConfigurationType, Zenon DEF IInv, AuthorisedScope, Active, ActiveScopes,
     EnablePlaces, EnableCall
<1>8. VerifiedIsCurrentIntent'
  BY <1>a, Zenon DEF IInv, TypeOK, VerifiedIsCurrentIntent, Enabled, Configurations
<1> QED
  BY <1>1, <1>2, <1>3, <1>4, <1>5, <1>6, <1>7, <1>8, Zenon DEF IInv

(* The goroutine ends. *)
LEMMA RuntimeEndsIInv == ASSUME IInv, RuntimeEnds PROVE IInv'
<1> USE DEF RuntimeEnds, others
<1>1. TypeOK'
  <2>1. rt' \in RuntimeStates
    BY StoppedType, Zenon
  <2> QED
    BY <2>1, Zenon DEF IInv, TypeOK
<1>2. MemoryFollows'
  BY Zenon DEF IInv, MemoryFollows
<1>3. EnablePlaces' /\ DisablePlaces'
  BY StoppedType, ConfigurationType, EnabledForm, Zenon DEF IInv, TypeOK, MemoryFollows,
     EnablePlaces, DisablePlaces, EnableCall
<1>4. AuditFollows'
  BY StoppedType, ConfigurationType, Zenon DEF IInv, MemoryFollows, AuditFollows,
     AppliedDisableHolds, EnablePlaces, DisablePlaces, EnableCall, DisableCall, Active
<1>5. RuntimeScoped'
  BY StoppedType, Zenon DEF IInv, RuntimeScoped, EnablePlaces, EnableCall, Active
<1>6. CollectsAsIntended'
  BY StoppedType, Zenon DEF IInv, CollectsAsIntended, EnablePlaces, MemoryFollows
<1>7. AuthorisedScope'
  BY StoppedType, ConfigurationType, Zenon DEF IInv, AuthorisedScope, Active, ActiveScopes,
     EnablePlaces, EnableCall
<1>8. VerifiedIsCurrentIntent'
  BY Zenon DEF IInv, VerifiedIsCurrentIntent
<1> QED
  BY <1>1, <1>2, <1>3, <1>4, <1>5, <1>6, <1>7, <1>8, Zenon DEF IInv

(* Every step keeps the invariant. *)
LEMMA NextIInv == IInv /\ [Next]_vars => IInv'
<1> SUFFICES ASSUME IInv, [Next]_vars PROVE IInv'
  BY Zenon
<1>1. CASE CallBegins
  BY <1>1, EnableAgainIInv, EnableRequestedIInv, DisableRequestedIInv, Zenon DEF CallBegins
<1>2. CASE CallProceeds
  BY <1>2, EnableWrittenIInv, EnableNotWrittenIInv, EnableAppliedIInv, EnableIInv,
     EnableFailedIInv, RestoreIInv, ReenableIInv, ReenableFailedIInv, DisableWrittenIInv,
     DisableNotWrittenIInv, DisableAppliedIInv, DisableRunIInv, DisableNotRunIInv,
     DisableIInv, DisableTimedOutIInv, Zenon DEF CallProceeds
<1>3. CASE RuntimeSteps
  BY <1>3, CollectBeginsIInv, CollectRefusedIInv, CollectSucceedsIInv, CollectFailsIInv,
     RuntimeEndsIInv, Zenon DEF RuntimeSteps
<1>4. CASE \E healthy \in BOOLEAN : Verify(healthy)
  BY <1>4, VerifyIInv, Zenon
<1>5. ASSUME NEW s \in Scopes, EnrollDeviceWatchScope(s) \/ RetireScope(s) \/ SampleAges(s)
      PROVE  IInv'
  BY <1>5, EnrollIInv, RetireIInv, SampleAgesIInv, Zenon
<1>6. CASE Crash \/ Startup
  BY <1>6, CrashIInv, StartupIInv, Zenon
<1>7. CASE Move
  BY <1>7, FrameIInv, Zenon DEF Move
<1>8. CASE UNCHANGED vars
  <2>1. here' \in Networks \cup {None}
    BY <1>8, Zenon DEF vars, IInv, TypeOK
  <2> QED
    BY <1>8, <2>1, FrameIInv, Zenon DEF vars
<1> QED
  BY <1>1, <1>2, <1>3, <1>4, <1>5, <1>6, <1>7, <1>8, Zenon DEF Next

(* The invariant holds throughout. *)
LEMMA Inductive == Spec => []IInv
  BY InitIInv, NextIInv, PTL DEF Spec

(* Collection, and the intent to collect, rest on the one unretired        *)
(* enrollment, for any number of scopes and networks and through restarts: *)
(* retirement never overtakes a runtime that is still winding down.        *)
THEOREM Authorised == Spec => []AuthorisedScope
<1>1. IInv => AuthorisedScope
  BY Zenon DEF IInv
<1> QED
  BY Inductive, <1>1, PTL

(* A runtime that was not told to stop collects for the durably enabled    *)
(* scope, whatever write, start or stop of the control calls failed.       *)
THEOREM Intended == Spec => []CollectsAsIntended
<1>1. IInv => CollectsAsIntended
  BY Zenon DEF IInv
<1> QED
  BY Inductive, <1>1, PTL

(* While the newest intent event is an applied disable, nothing collects   *)
(* and a restart would not collect either.                                 *)
THEOREM DisableHolds == Spec => []AppliedDisableHolds
<1>1. IInv => AppliedDisableHolds
  BY Zenon DEF IInv, AuditFollows
<1> QED
  BY Inductive, <1>1, PTL

(* Between control calls the file, the manager and the engine agree.       *)
THEOREM Agreement == Spec => []IntentAgrees
<1>1. IInv => IntentAgrees
  BY Zenon DEF IInv, MemoryFollows, IntentAgrees
<1> QED
  BY Inductive, <1>1, PTL

(* A verified verdict is about the enabled scope and its own evidence.     *)
THEOREM VerdictIsCurrent == Spec => []VerifiedIsCurrentIntent
<1>1. IInv => VerifiedIsCurrentIntent
  BY Zenon DEF IInv
<1> QED
  BY Inductive, <1>1, PTL

(* The three together: what the file says, what runs and what is enrolled  *)
(* never drift apart.                                                      *)
THEOREM IntentKept == Spec => []IntentHolds
<1>1. IntentAgrees /\ CollectsAsIntended /\ AuthorisedScope => IntentHolds
  BY Zenon DEF IntentHolds
<1> QED
  BY <1>1, Agreement, Intended, Authorised, PTL

-------------------------------------------------------------------------------
(* Device identities *)

(* Neither corrections nor what is said of them change with other tables. *)
LEMMA CorrectionsStay ==
    ASSUME UNCHANGED <<merges, splits>>
    PROVE  /\ MergeTargets' = MergeTargets
           /\ SplitSources' = SplitSources /\ SplitTargets' = SplitTargets
           /\ CorrectionsAreFlat => CorrectionsAreFlat'
<1>1. MergeTargets' = MergeTargets /\ SplitSources' = SplitSources /\ SplitTargets' = SplitTargets
    BY Zenon DEF MergeTargets, SplitSources, SplitTargets
<1>2. \A d : Merged(d)' <=> Merged(d)
    BY <1>1, Zenon DEF Merged
<1>3. QED
    BY <1>1, <1>2, Zenon DEF CorrectionsAreFlat

(* Updates of a table: the domain and the values of Extend and Without. *)
LEMMA ExtendFacts ==
    ASSUME NEW f, NEW x, NEW v
    PROVE  /\ DOMAIN Extend(f, x, v) = DOMAIN f \cup {x}
           /\ Extend(f, x, v)[x] = v
           /\ \A y \in DOMAIN f : y # x => Extend(f, x, v)[y] = f[y]
BY Zenon DEF Extend

LEMMA WithoutFacts ==
    ASSUME NEW f, NEW x
    PROVE  /\ DOMAIN Without(f, x) = DOMAIN f \ {x}
           /\ \A y \in DOMAIN f \ {x} : Without(f, x)[y] = f[y]
BY Zenon DEF Without

(* Typed updates. *)
LEMMA ExtendType ==
    ASSUME NEW f, NEW x, NEW v, NEW T, f \in [DOMAIN f -> T], v \in T
    PROVE  Extend(f, x, v) \in [DOMAIN Extend(f, x, v) -> T]
BY Zenon DEF Extend

LEMMA WithoutType ==
    ASSUME NEW f, NEW x, NEW T, f \in [DOMAIN f -> T]
    PROVE  Without(f, x) \in [DOMAIN Without(f, x) -> T]
BY Zenon DEF Without

(* The rows selected for a split are links of its source and observation. *)
LEMMA SelectedLinks ==
    ASSUME NEW source, NEW o, NEW l \in Selected(source, o)
    PROVE  l \in links /\ l.device = source /\ l.obs = o
BY Zenon DEF Selected, OriginalRows, Newest, OwnLinks

(* The inductive invariant: the checked invariants, and what ties a split  *)
(* to the links of its observation and an inferred device to its own.      *)
Inv == DevicesTypeOK /\ CorrectionsAreFlat /\ ReferencesHold /\ MadeForSplits /\ Consistent

LEMMA InitInv == DevicesInit => Inv
<1> SUFFICES ASSUME DevicesInit PROVE Inv
    OBVIOUS
<1>1. DevicesTypeOK
    BY DEF DevicesInit, DevicesTypeOK
<1>2. CorrectionsAreFlat /\ ReferencesHold /\ MadeForSplits
    BY DEF DevicesInit, CorrectionsAreFlat, ReferencesHold, MadeForSplits, MergeTargets, SplitSources, SplitTargets, Merged
<1>3. Consistent
    BY DEF DevicesInit, Consistent, LinksCohere, SplitsMatchLinks, NamesAreKnown
<1>4. QED
    BY <1>1, <1>2, <1>3, Zenon DEF Inv

-------------------------------------------------------------------------------
(* Ingestion *)

(* An observation is linked to the device named after it, or to one that   *)
(* exists.                                                                 *)
LEMMA AttachInv ==
    ASSUME Inv, NEW o \in Obs, NEW mac \in Macs, NEW at \in Times, NEW d \in Devices,
           Observe(o), Link(o, mac, at, d),
           \/ d = o /\ devices' = Extend(devices, o, at)
           \/ d \in DOMAIN devices /\ devices' = devices
    PROVE  Inv'
<1> DEFINE new == [obs : {o}, kind : Kinds, device : {d}, at : {at}, mac : {mac}, format : {era}]
<1>1. UNCHANGED <<era, merges, splits, made>> /\ known' = known \cup {o} /\ o \notin known
    BY Zenon DEF Observe, corrections
<1>2. links' = links \cup new
    BY Zenon DEF Link
<1>3. /\ DOMAIN devices \subseteq DOMAIN devices' /\ d \in DOMAIN devices'
      /\ DOMAIN devices' \subseteq DOMAIN devices \cup {o}
  <2>1. CASE d = o /\ devices' = Extend(devices, o, at)
    <3>1. DOMAIN Extend(devices, o, at) = DOMAIN devices \cup {o}
        BY ExtendFacts, Zenon
    <3>2. QED
        BY <2>1, <3>1, Zenon
  <2>2. CASE d \in DOMAIN devices /\ devices' = devices
      BY <2>2, Zenon
  <2>3. QED
      BY <2>1, <2>2, Zenon
<1>4. \A l \in new : l.obs = o /\ l.device = d /\ l.at = at /\ l.mac = mac
    BY Zenon
<1>5. DevicesTypeOK'
  <2>1. devices' \in [DOMAIN devices' -> Times]
      BY ExtendType DEF Inv, DevicesTypeOK
  <2>2. new \subseteq Links
      BY Zenon DEF Links, Inv, DevicesTypeOK
  <2>3. links' \subseteq Links /\ \A l \in links' : l.obs \in known'
      BY <1>1, <1>2, <1>4, <2>2, Zenon DEF Inv, DevicesTypeOK
  <2>4. DOMAIN devices' \subseteq Devices
      BY <1>3, Zenon DEF Inv, DevicesTypeOK, Devices
  <2>5. DOMAIN splits' \subseteq known' /\ known' \subseteq Obs
      BY <1>1, Zenon DEF Inv, DevicesTypeOK
  <2>6. QED
      BY <1>1, <2>1, <2>3, <2>4, <2>5, Zenon DEF Inv, DevicesTypeOK
<1>6. CorrectionsAreFlat' /\ MadeForSplits'
    BY <1>1, CorrectionsStay, Zenon DEF Inv, MadeForSplits
<1>7. ReferencesHold'
  <2>1. \A l \in links' : l.device \in DOMAIN devices'
      BY <1>2, <1>3, <1>4, Zenon DEF Inv, ReferencesHold
  <2>2. QED
      BY <1>1, <1>3, <2>1, CorrectionsStay, Zenon DEF Inv, ReferencesHold
<1>8. Consistent'
  <2>1. \A l \in links : l.obs # o
      BY <1>1, Zenon DEF Inv, DevicesTypeOK
  <2>2. LinksCohere'
      BY <1>2, <1>4, <2>1 DEF Inv, Consistent, LinksCohere
  <2>3. SplitsMatchLinks'
      BY <1>1, <1>2, <1>4 DEF Inv, DevicesTypeOK, Consistent, SplitsMatchLinks
  <2>4. NamesAreKnown'
      BY <1>1, <1>3, Zenon DEF Inv, Consistent, NamesAreKnown
  <2>5. QED
      BY <2>2, <2>3, <2>4, Zenon DEF Consistent
<1>9. QED
    BY <1>5, <1>6, <1>7, <1>8, Zenon DEF Inv

LEMMA LeaveAmbiguousInv ==
    ASSUME Inv, NEW o \in Obs, NEW mac, NEW at, LeaveAmbiguous(o, mac, at)
    PROVE  Inv'
<1>1. UNCHANGED <<era, merges, splits, made, links, devices>> /\ known' = known \cup {o}
    BY Zenon DEF LeaveAmbiguous, Observe, corrections
<1>2. DevicesTypeOK'
    BY <1>1, Zenon DEF Inv, DevicesTypeOK
<1>3. CorrectionsAreFlat' /\ ReferencesHold' /\ MadeForSplits'
    BY <1>1, CorrectionsStay, Zenon DEF Inv, ReferencesHold, MadeForSplits
<1>4. Consistent'
    BY <1>1, Zenon DEF Inv, Consistent, LinksCohere, SplitsMatchLinks, NamesAreKnown
<1>5. QED
    BY <1>2, <1>3, <1>4, Zenon DEF Inv

(* Retention and the upgrade only take links away or change the format. *)
LEMMA FewerLinksInv ==
    ASSUME Inv, links' \subseteq links, era' \in {"row", "batch"},
           UNCHANGED <<known, devices, merges, splits, made>>
    PROVE  Inv'
<1>1. DevicesTypeOK'
    BY Zenon DEF Inv, DevicesTypeOK
<1>2. CorrectionsAreFlat' /\ ReferencesHold' /\ MadeForSplits'
    BY CorrectionsStay, Zenon DEF Inv, ReferencesHold, MadeForSplits
<1>3. Consistent'
    BY Zenon DEF Inv, Consistent, LinksCohere, SplitsMatchLinks, NamesAreKnown
<1>4. QED
    BY <1>1, <1>2, <1>3, Zenon DEF Inv

-------------------------------------------------------------------------------
(* Merges *)

LEMMA MergeInv ==
    ASSUME Inv, NEW s \in Devices, NEW t \in Devices, MergeDevices(s, t)
    PROVE  Inv'
<1>1. /\ UNCHANGED <<era, known, links, devices, splits, made>>
      /\ merges' = Extend(merges, s, t)
      /\ s # t /\ ~Merged(s) /\ t \notin DOMAIN merges
      /\ s \notin SplitSources \cup SplitTargets /\ t \notin SplitSources \cup SplitTargets
      /\ OwnLinks(s) # {} /\ OwnLinks(t) # {}
    BY Zenon DEF MergeDevices, evidence
<1>2. /\ DOMAIN merges' = DOMAIN merges \cup {s} /\ merges'[s] = t
      /\ \A y \in DOMAIN merges : y # s => merges'[y] = merges[y]
    BY <1>1, Zenon DEF Extend
<1>3. MergeTargets' \subseteq MergeTargets \cup {t}
    BY <1>2, Zenon DEF MergeTargets
<1>4. DevicesTypeOK'
  <2>1. merges' \in [DOMAIN merges' -> Devices]
      BY <1>1, ExtendType, Zenon DEF Inv, DevicesTypeOK
  <2>2. QED
      BY <1>1, <1>2, <2>1, Zenon DEF Inv, DevicesTypeOK
<1>5. CorrectionsAreFlat'
  <2>1. (DOMAIN merges \cap MergeTargets)' = {}
      BY <1>1, <1>2, <1>3 DEF Inv, CorrectionsAreFlat, Merged
  <2>2. SplitSources' = SplitSources /\ SplitTargets' = SplitTargets
      BY <1>1, Zenon DEF SplitSources, SplitTargets
  <2>3. \A d \in SplitSources \cup SplitTargets : ~Merged(d)'
      BY <1>1, <1>2, <1>3, Zenon DEF Inv, CorrectionsAreFlat, Merged
  <2>4. QED
      BY <1>1, <2>1, <2>2, <2>3, Zenon DEF Inv, CorrectionsAreFlat
<1>6. ReferencesHold'
  <2>1. s \in DOMAIN devices /\ t \in DOMAIN devices
      BY <1>1, Zenon DEF OwnLinks, Inv, ReferencesHold
  <2>2. SplitSources' = SplitSources /\ SplitTargets' = SplitTargets
      BY <1>1 DEF SplitSources, SplitTargets
  <2>3. DOMAIN merges' \cup MergeTargets' \subseteq DOMAIN devices'
      BY <1>1, <1>2, <1>3, <2>1, Zenon DEF Inv, ReferencesHold
  <2>4. QED
      BY <1>1, <2>2, <2>3, Zenon DEF Inv, ReferencesHold
<1>7. MadeForSplits' /\ Consistent'
    BY <1>1 DEF Inv, MadeForSplits, SplitTargets, Consistent, LinksCohere, SplitsMatchLinks, NamesAreKnown
<1>8. QED
    BY <1>4, <1>5, <1>6, <1>7, Zenon DEF Inv

LEMMA UnmergeInv ==
    ASSUME Inv, NEW s \in Devices, UnmergeDevices(s)
    PROVE  Inv'
<1>1. UNCHANGED <<era, known, links, devices, splits, made>> /\ merges' = Without(merges, s)
    BY Zenon DEF UnmergeDevices, evidence
<1>2. /\ DOMAIN merges' = DOMAIN merges \ {s}
      /\ \A y \in DOMAIN merges \ {s} : merges'[y] = merges[y]
    BY <1>1, WithoutFacts, Zenon
<1>3. MergeTargets' \subseteq MergeTargets
    BY <1>2, Zenon DEF MergeTargets
<1>4. DevicesTypeOK'
  <2>1. merges' \in [DOMAIN merges' -> Devices]
      BY <1>1, WithoutType, Zenon DEF Inv, DevicesTypeOK
  <2>2. QED
      BY <1>1, <1>2, <2>1, Zenon DEF Inv, DevicesTypeOK
<1>5. SplitSources' = SplitSources /\ SplitTargets' = SplitTargets
    BY <1>1, Zenon DEF SplitSources, SplitTargets
<1>6. CorrectionsAreFlat'
    BY <1>1, <1>2, <1>3, <1>5, Zenon DEF Inv, CorrectionsAreFlat, Merged
<1>7. ReferencesHold'
    BY <1>1, <1>2, <1>3, <1>5, Zenon DEF Inv, ReferencesHold
<1>8. MadeForSplits' /\ Consistent'
    BY <1>1, <1>5, Zenon DEF Inv, MadeForSplits, Consistent, LinksCohere, SplitsMatchLinks, NamesAreKnown
<1>9. QED
    BY <1>4, <1>6, <1>7, <1>8, Zenon DEF Inv

-------------------------------------------------------------------------------
(* Splits *)

(* A split of an observation, into a device that is there afterwards. *)
LEMMA SeparateInv ==
    ASSUME Inv, NEW s \in Devices, NEW o \in Obs, NEW at \in Times, NEW t \in Devices,
           Separate(s, o, at, t),
           \/ t \in Fresh /\ devices' = Extend(devices, t, at) /\ made' = made \cup {t}
           \/ t \in DOMAIN devices /\ devices' = devices /\ made' = made
    PROVE  Inv'
<1>1. UNCHANGED <<era, known, links, merges>> /\ s # t /\ o \notin DOMAIN splits /\ ~Merged(s) /\ ~Merged(t)
    BY Zenon DEF Separate, evidence
<1>2. PICK l \in Selected(s, o) :
          /\ l.at = at
          /\ splits' = Extend(splits, o, [source |-> s, target |-> t, at |-> at, mac |-> l.mac,
                                          kinds |-> {x.kind : x \in Selected(s, o)}])
    BY Zenon DEF Separate
<1> DEFINE rec == [source |-> s, target |-> t, at |-> at, mac |-> l.mac,
                   kinds |-> {x.kind : x \in Selected(s, o)}]
<1>3. l \in links /\ l.device = s /\ l.obs = o
    BY SelectedLinks, Zenon
<1>4. /\ DOMAIN splits' = DOMAIN splits \cup {o} /\ splits'[o] = rec
      /\ \A y \in DOMAIN splits : splits'[y] = splits[y]
    BY <1>1, <1>2, Zenon DEF Extend
<1>5. rec.source = s /\ rec.target = t /\ rec.at = at /\ rec.mac = l.mac
    BY Zenon
<1> HIDE DEF rec
<1>6. SplitSources' = SplitSources \cup {s} /\ SplitTargets' = SplitTargets \cup {t}
  <2>1. SplitSources' = {splits'[x].source : x \in DOMAIN splits'} /\ SplitTargets' = {splits'[x].target : x \in DOMAIN splits'}
      BY Zenon DEF SplitSources, SplitTargets
  <2>2. SplitSources' = SplitSources \cup {s}
      BY <2>1, <1>4, <1>5 DEF SplitSources
  <2>3. SplitTargets' = SplitTargets \cup {t}
      BY <2>1, <1>4, <1>5 DEF SplitTargets
  <2>4. QED
      BY <2>2, <2>3, Zenon
<1>7. /\ DOMAIN devices \subseteq DOMAIN devices' /\ t \in DOMAIN devices'
      /\ DOMAIN devices' \cap Obs \subseteq DOMAIN devices
      /\ devices' \in [DOMAIN devices' -> Times] /\ DOMAIN devices' \subseteq Devices
      /\ made' \subseteq made \cup {t}
  <2>1. CASE t \in Fresh /\ devices' = Extend(devices, t, at) /\ made' = made \cup {t}
    <3>1. DOMAIN Extend(devices, t, at) = DOMAIN devices \cup {t}
        BY ExtendFacts, Zenon
    <3>2. t \notin Obs
        BY <2>1, IdsAssumption
    <3>3. Extend(devices, t, at) \in [DOMAIN Extend(devices, t, at) -> Times]
        BY ExtendType, Zenon DEF Inv, DevicesTypeOK
    <3>4. QED
        BY <2>1, <3>1, <3>2, <3>3, Zenon DEF Inv, DevicesTypeOK
  <2>2. CASE t \in DOMAIN devices /\ devices' = devices /\ made' = made
      BY <2>2, Zenon DEF Inv, DevicesTypeOK
  <2>3. QED
      BY <2>1, <2>2, Zenon
<1>8. DevicesTypeOK'
  <2> DEFINE Recs == [source : Devices, target : Devices, kinds : SUBSET Kinds, at : Times, mac : Macs]
  <2>1. l.mac \in Macs /\ {x.kind : x \in Selected(s, o)} \subseteq Kinds
      BY <1>3, SelectedLinks DEF Inv, DevicesTypeOK, Links
  <2>2. rec \in Recs
      BY <2>1, Zenon DEF rec
  <2>3. splits \in [DOMAIN splits -> Recs]
      BY Zenon DEF Inv, DevicesTypeOK
  <2> HIDE DEF Recs
  <2>4. splits' \in [DOMAIN splits' -> Recs]
      BY <1>2, <2>2, <2>3, ExtendType, Zenon DEF rec
  <2>5. o \in known
      BY <1>3, Zenon DEF Inv, DevicesTypeOK
  <2>6. QED
      BY <1>1, <1>4, <1>7, <2>4, <2>5, Zenon DEF Inv, DevicesTypeOK, Recs
<1>9. CorrectionsAreFlat'
  <2>1. MergeTargets' = MergeTargets
      BY <1>1, Zenon DEF MergeTargets
  <2>2. \A x \in DOMAIN splits' : splits'[x].source # splits'[x].target
      BY <1>1, <1>4, <1>5, Zenon DEF Inv, CorrectionsAreFlat
  <2>3. \A d \in SplitSources' \cup SplitTargets' : ~Merged(d)'
      BY <1>1, <1>6, <2>1, Zenon DEF Inv, CorrectionsAreFlat, Merged
  <2>4. QED
      BY <1>1, <2>1, <2>2, <2>3, Zenon DEF Inv, CorrectionsAreFlat
<1>10. ReferencesHold'
  <2>1. MergeTargets' = MergeTargets
      BY <1>1 DEF MergeTargets
  <2>2. s \in DOMAIN devices
      BY <1>3, Zenon DEF Inv, ReferencesHold
  <2>3. QED
      BY <1>1, <1>6, <1>7, <2>1, <2>2 DEF Inv, ReferencesHold
<1>11. MadeForSplits'
    BY <1>6, <1>7, Zenon DEF Inv, MadeForSplits
<1>12. Consistent'
  <2>1. \A x \in links : x.obs = o => x.device = s /\ x.at = at /\ x.mac = l.mac
      BY <1>2, <1>3, Zenon DEF Inv, Consistent, LinksCohere
  <2>2. SplitsMatchLinks'
      BY <1>1, <1>4, <1>5, <2>1 DEF Inv, Consistent, SplitsMatchLinks
  <2>3. LinksCohere' /\ NamesAreKnown'
      BY <1>1, <1>7, Zenon DEF Inv, Consistent, LinksCohere, NamesAreKnown
  <2>4. QED
      BY <2>2, <2>3, Zenon DEF Consistent
<1>13. QED
    BY <1>8, <1>9, <1>10, <1>11, <1>12, Zenon DEF Inv

(* The device that undoing a split removes is in no merge, because no      *)
(* device is in a merge and in a split.                                    *)
LEMMA UndoInv ==
    ASSUME Inv, NEW o \in Obs, UndoDeviceSplitObservation(o)
    PROVE  Inv'
<1> DEFINE t == splits[o].target
           unused == t \in made /\ \A x \in DOMAIN splits' : splits'[x].target # t
           empty  == OwnLinks(t) = {} /\ \A x \in DOMAIN splits' : splits'[x].source # t
<1>1. /\ UNCHANGED <<era, known, links, merges>>
      /\ o \in DOMAIN splits /\ splits' = Without(splits, o)
      /\ made' = IF unused THEN made \ {t} ELSE made
      /\ devices' = IF unused /\ empty THEN Without(devices, t) ELSE devices
    BY Zenon DEF UndoDeviceSplitObservation, evidence
<1>2. /\ DOMAIN splits' = DOMAIN splits \ {o}
      /\ \A x \in DOMAIN splits \ {o} : splits'[x] = splits[x]
    BY <1>1, WithoutFacts, Zenon
<1>3. t \in SplitTargets
    BY <1>1, Zenon DEF SplitTargets
<1>4. SplitSources' \subseteq SplitSources /\ SplitTargets' \subseteq SplitTargets /\ MergeTargets' = MergeTargets
    BY <1>1, <1>2 DEF SplitSources, SplitTargets, MergeTargets
<1>5. SplitTargets \subseteq SplitTargets' \cup {t}
    BY <1>2, Zenon DEF SplitTargets
<1>6. /\ unused => t \notin SplitTargets'
      /\ empty => t \notin SplitSources' /\ \A l \in links : l.device # t
    BY Zenon DEF SplitTargets, SplitSources, OwnLinks
<1>7. t \in made /\ t \notin SplitTargets' => unused
    BY Zenon DEF SplitTargets
<1> HIDE DEF t, unused, empty
<1>8. /\ DOMAIN devices' \subseteq DOMAIN devices
      /\ \/ devices' = devices
         \/ unused /\ empty /\ DOMAIN devices' = DOMAIN devices \ {t}
      /\ devices' \in [DOMAIN devices' -> Times]
  <2>1. CASE unused /\ empty
    <3>1. devices' = Without(devices, t)
        BY <1>1, <2>1, Zenon
    <3>2. DOMAIN devices' = DOMAIN devices \ {t}
        BY <3>1, WithoutFacts, Zenon
    <3>3. devices' \in [DOMAIN devices' -> Times]
        BY <3>1, WithoutType, Zenon DEF Inv, DevicesTypeOK
    <3>4. QED
        BY <2>1, <3>2, <3>3, Zenon
  <2>2. CASE ~(unused /\ empty)
      BY <1>1, <2>2, Zenon DEF Inv, DevicesTypeOK
  <2>3. QED
      BY <2>1, <2>2, Zenon
<1>9. DevicesTypeOK'
  <2> DEFINE Recs == [source : Devices, target : Devices, kinds : SUBSET Kinds, at : Times, mac : Macs]
  <2>1. splits \in [DOMAIN splits -> Recs]
      BY Zenon DEF Inv, DevicesTypeOK
  <2> HIDE DEF Recs
  <2>2. splits' \in [DOMAIN splits' -> Recs]
      BY <1>1, <2>1, WithoutType, Zenon
  <2>3. QED
      BY <1>1, <1>2, <1>8, <2>2, Zenon DEF Inv, DevicesTypeOK, Recs
<1>10. CorrectionsAreFlat'
    BY <1>1, <1>2, <1>4, Zenon DEF Inv, CorrectionsAreFlat, Merged
<1>11. ReferencesHold'
  <2>1. t \notin DOMAIN merges \cup MergeTargets
      BY <1>3, Zenon DEF Inv, CorrectionsAreFlat, Merged
  <2>2. unused => t \notin made'
      BY <1>1, Zenon
  <2>3. made' \subseteq made
      BY <1>1, Zenon
  <2>4. CASE devices' = devices
      BY <1>1, <1>4, <2>3, <2>4, Zenon DEF Inv, ReferencesHold
  <2>5. CASE unused /\ empty /\ DOMAIN devices' = DOMAIN devices \ {t}
      BY <1>1, <1>4, <1>6, <2>1, <2>2, <2>3, <2>5, Zenon DEF Inv, ReferencesHold
  <2>6. QED
      BY <1>8, <2>4, <2>5, Zenon
<1>12. MadeForSplits'
    BY <1>1, <1>5, <1>7, Zenon DEF Inv, MadeForSplits
<1>13. Consistent'
    BY <1>1, <1>2, <1>8 DEF Inv, Consistent, LinksCohere, SplitsMatchLinks, NamesAreKnown
<1>14. QED
    BY <1>9, <1>10, <1>11, <1>12, <1>13, Zenon DEF Inv

-------------------------------------------------------------------------------
(* All steps *)

LEMMA NextInv == Inv /\ [DevicesNext]_deviceVars => Inv'
<1> SUFFICES ASSUME Inv, [DevicesNext]_deviceVars PROVE Inv'
    OBVIOUS
<1>1. ASSUME NEW o \in Obs, NEW mac \in Macs, NEW at \in Times, AttachNew(o, mac, at) PROVE Inv'
    BY <1>1, AttachInv, Zenon DEF AttachNew, Devices
<1>2. ASSUME NEW o \in Obs, NEW mac \in Macs, NEW at \in Times, NEW d \in DOMAIN devices,
             AttachFound(o, mac, at, d)
      PROVE  Inv'
  <2>1. d \in Devices
      BY Zenon DEF Inv, DevicesTypeOK
  <2>2. QED
      BY <1>2, <2>1, AttachInv, Zenon DEF AttachFound
<1>3. ASSUME NEW o \in Obs, NEW mac \in Macs, NEW at \in Times, LeaveAmbiguous(o, mac, at) PROVE Inv'
    BY <1>3, LeaveAmbiguousInv, Zenon
<1>4. CASE Upgrade
    BY <1>4, FewerLinksInv, Zenon DEF Upgrade, evidence, corrections
<1>5. ASSUME NEW o \in Obs, Expire(o) PROVE Inv'
  <2>1. /\ links' \subseteq links /\ era' = era
        /\ UNCHANGED <<known, devices, merges, splits, made>>
      BY <1>5, Zenon DEF Expire, corrections
  <2>2. era \in {"row", "batch"}
      BY Zenon DEF Inv, DevicesTypeOK
  <2>3. QED
      BY <2>1, <2>2, FewerLinksInv, Zenon
<1>6. ASSUME NEW o \in Obs, UndoDeviceSplitObservation(o) PROVE Inv'
    BY <1>6, UndoInv, Zenon
<1>7. ASSUME NEW s \in Devices, NEW t \in Devices, MergeDevices(s, t) PROVE Inv'
    BY <1>7, MergeInv, Zenon
<1>8. ASSUME NEW s \in Devices, NEW t \in Devices, NEW o \in Obs, NEW at \in Times, SplitIntoNew(s, o, at, t)
      PROVE  Inv'
    BY <1>8, SeparateInv, Zenon DEF SplitIntoNew
<1>9. ASSUME NEW s \in Devices, NEW t \in Devices, NEW o \in Obs, NEW at \in Times,
             SplitDeviceObservation(s, o, at, t)
      PROVE  Inv'
    BY <1>9, SeparateInv, Zenon DEF SplitDeviceObservation
<1>10. ASSUME NEW d \in Devices, UnmergeDevices(d) PROVE Inv'
    BY <1>10, UnmergeInv, Zenon
<1>11. CASE UNCHANGED deviceVars
  <2>1. /\ links' \subseteq links /\ era' = era
        /\ UNCHANGED <<known, devices, merges, splits, made>>
      BY <1>11, Zenon DEF deviceVars, evidence, corrections
  <2>2. era \in {"row", "batch"}
      BY Zenon DEF Inv, DevicesTypeOK
  <2>3. QED
      BY <2>1, <2>2, FewerLinksInv, Zenon
<1>12. QED
    BY <1>1, <1>2, <1>3, <1>4, <1>5, <1>6, <1>7, <1>8, <1>9, <1>10, <1>11, Zenon DEF DevicesNext

LEMMA Invariance == DevicesSpec => []Inv
    BY InitInv, NextInv, PTL DEF DevicesSpec

-------------------------------------------------------------------------------
(* Attachment *)

(* The owners of the recent evidence of an address are candidates, and     *)
(* there is a candidate only if there is such evidence.                    *)
LEMMA OwnersAreFound ==
    ASSUME Inv, NEW mac, NEW at
    PROVE  /\ RecentOwners(mac, at) \subseteq FindRecentDevicesByClaim(mac, at)
           /\ RecentOwners(mac, at) = {} => FindRecentDevicesByClaim(mac, at) = {}
<1>1. ASSUME NEW x \in links, x.kind = "mac", Recent(x, mac, at)
      PROVE  Owner(x) \in FindRecentDevicesByClaim(mac, at)
  <2>1. x.device \in Matching(mac, at)
      BY <1>1, Zenon DEF Matching
  <2>2. CASE x.obs \in DOMAIN splits /\ x.kind \in splits[x.obs].kinds
    <3>1. splits[x.obs].source = x.device /\ Recent(splits[x.obs], mac, at)
        BY <1>1, <2>2, Zenon DEF Inv, Consistent, SplitsMatchLinks, Recent
    <3>2. QED
        BY <1>1, <2>1, <2>2, <3>1, Zenon DEF Owner, FindRecentDevicesByClaim
  <2>3. CASE ~(x.obs \in DOMAIN splits /\ x.kind \in splits[x.obs].kinds)
      BY <2>1, <2>3, Zenon DEF Owner, FindRecentDevicesByClaim
  <2>4. QED
      BY <2>2, <2>3, Zenon
<1>2. RecentOwners(mac, at) = {} => Matching(mac, at) = {}
    BY Zenon DEF RecentOwners, Matching
<1>3. Matching(mac, at) = {} => FindRecentDevicesByClaim(mac, at) = {}
    BY Zenon DEF FindRecentDevicesByClaim
<1>4. RecentOwners(mac, at) \subseteq FindRecentDevicesByClaim(mac, at)
    BY <1>1, Zenon DEF RecentOwners
<1>5. QED
    BY <1>2, <1>3, <1>4, Zenon

LEMMA ContinuityInv == Inv => MergeKeepsContinuity
<1> SUFFICES ASSUME Inv, NEW mac \in Macs, NEW at \in Times, \A o \in DOMAIN splits : splits[o].mac # mac
             PROVE  FindRecentDevicesByClaim(mac, at) \subseteq RecentOwners(mac, at)
    BY OwnersAreFound, Zenon DEF MergeKeepsContinuity
<1>1. FindRecentDevicesByClaim(mac, at) = {canonical(d) : d \in Matching(mac, at)}
    BY Zenon DEF FindRecentDevicesByClaim, Recent
<1>2. \A x \in links : x.kind = "mac" /\ Recent(x, mac, at) => Owner(x) = canonical(x.device)
    BY Zenon DEF Inv, Consistent, SplitsMatchLinks, Recent, Owner
<1>3. QED
    BY <1>1, <1>2, Zenon DEF Matching, RecentOwners

(* What a step that links a new observation is. *)
LEMMA AttachStep ==
    ASSUME Inv, [DevicesNext]_deviceVars, NEW l \in links', l.obs \notin known
    PROVE  RecentOwners(l.mac, l.at) = IF l.device \in DOMAIN devices THEN {l.device} ELSE {}
<1>1. l \notin links
    BY Zenon DEF Inv, DevicesTypeOK
<1>2. ASSUME NEW o \in Obs, NEW mac \in Macs, NEW at \in Times, NEW d, Link(o, mac, at, d)
      PROVE  l.obs = o /\ l.mac = mac /\ l.at = at /\ l.device = d
    BY <1>1, <1>2, Zenon DEF Link
<1>3. ASSUME NEW o \in Obs, NEW mac \in Macs, NEW at \in Times, AttachNew(o, mac, at)
      PROVE  RecentOwners(l.mac, l.at) = IF l.device \in DOMAIN devices THEN {l.device} ELSE {}
  <2>1. l.obs = o /\ l.mac = mac /\ l.at = at /\ l.device = o
      BY <1>2, <1>3, Zenon DEF AttachNew
  <2>2. o \notin DOMAIN devices
      BY <1>3, Zenon DEF AttachNew, Observe, Inv, Consistent, NamesAreKnown
  <2>3. RecentOwners(mac, at) = {}
      BY <1>3, OwnersAreFound, Zenon DEF AttachNew
  <2>4. QED
      BY <2>1, <2>2, <2>3, Zenon
<1>4. ASSUME NEW o \in Obs, NEW mac \in Macs, NEW at \in Times, NEW d \in DOMAIN devices,
             AttachFound(o, mac, at, d)
      PROVE  RecentOwners(l.mac, l.at) = IF l.device \in DOMAIN devices THEN {l.device} ELSE {}
  <2>1. l.obs = o /\ l.mac = mac /\ l.at = at /\ l.device = d
      BY <1>2, <1>4, Zenon DEF AttachFound
  <2>2. FindRecentDevicesByClaim(mac, at) = {d}
      BY <1>4, Zenon DEF AttachFound
  <2>3. RecentOwners(mac, at) = {d}
      BY <2>2, OwnersAreFound, Zenon
  <2>4. QED
      BY <2>1, <2>3, Zenon
<1>5. ASSUME links' \subseteq links PROVE FALSE
    BY <1>1, <1>5, Zenon
<1>6. CASE DevicesNext
  <2>1. ASSUME NEW o \in Obs, NEW mac, NEW at, LeaveAmbiguous(o, mac, at) PROVE links' \subseteq links
      BY <2>1, Zenon DEF LeaveAmbiguous
  <2>2. Upgrade => links' \subseteq links
      BY Zenon DEF Upgrade, evidence
  <2>3. ASSUME NEW o, Expire(o) \/ UndoDeviceSplitObservation(o) \/ UnmergeDevices(o) PROVE links' \subseteq links
      BY <2>3, Zenon DEF Expire, UndoDeviceSplitObservation, UnmergeDevices, evidence
  <2>4. ASSUME NEW s, NEW t, MergeDevices(s, t) PROVE links' \subseteq links
      BY <2>4, Zenon DEF MergeDevices, evidence
  <2>5. ASSUME NEW s, NEW t, NEW o, NEW at, SplitIntoNew(s, o, at, t) \/ SplitDeviceObservation(s, o, at, t)
        PROVE  links' \subseteq links
      BY <2>5, Zenon DEF SplitIntoNew, SplitDeviceObservation, Separate, evidence
  <2>6. QED
      BY <1>3, <1>4, <1>5, <1>6, <2>1, <2>2, <2>3, <2>4, <2>5, Zenon DEF DevicesNext
<1>7. CASE UNCHANGED deviceVars
    BY <1>5, <1>7, Zenon DEF deviceVars, evidence
<1>8. QED
    BY <1>6, <1>7, Zenon

-------------------------------------------------------------------------------
(* Theorems *)

(* Every identity is resolved with one lookup: MergeDevices and            *)
(* SplitDeviceObservation keep merges a set of stars, and keep merges and  *)
(* splits apart, whatever the order of the corrections.                    *)
THEOREM Flat == DevicesSpec => []CorrectionsAreFlat
    BY Invariance, PTL DEF Inv

(* UndoDeviceSplitObservation, the only operation that deletes a device,   *)
(* never deletes one that a link, a merge, a split or a registration uses, *)
(* and a device made by SplitDeviceObservation is registered only while a  *)
(* split points at it.                                                     *)
THEOREM Registry == DevicesSpec => []RegistryHolds
<1>1. Inv => RegistryHolds
    BY Zenon DEF Inv, RegistryHolds
<1> QED BY <1>1, Invariance, PTL

(* Merges alone leave FindRecentDevicesByClaim exact: its candidates are   *)
(* the owners of the recent evidence.                                      *)
THEOREM Continuity == DevicesSpec => []MergeKeepsContinuity
    BY Invariance, ContinuityInv, PTL

(* PlanReconciliation attaches new evidence to the device to which the     *)
(* corrections give all recent evidence of its address, or to a new one.   *)
THEOREM Attaches == DevicesSpec => AttachesToOwner
<1>1. Inv /\ [DevicesNext]_deviceVars =>
        [\A l \in links' : l.obs \notin known =>
            RecentOwners(l.mac, l.at) = IF l.device \in DOMAIN devices THEN {l.device} ELSE {}]_deviceVars
    BY AttachStep, Zenon
<1>2. QED
    BY <1>1, Invariance, PTL DEF DevicesSpec, AttachesToOwner
===============================================================================
