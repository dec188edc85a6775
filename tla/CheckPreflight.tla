---------------------------- MODULE CheckPreflight ----------------------------
(***************************************************************************)
(* The saved selections of the resolver and HTTPS checks, and the          *)
(* preflight every check runs when it is prepared and again before it is   *)
(* executed.  A preflight is a chain of reads of things that change under  *)
(* it: the saved selection, the enrolled scope, the interface, the routing *)
(* table, the interface again, and at the end the selection and the scope  *)
(* once more.  Each read is a step; between two of them a user may retire  *)
(* the selection or the network and enroll it anew, the interface may lose *)
(* or renew an address, the route may move and the clock may be set.       *)
(*                                                                         *)
(* `subject' is the check whose preflight a behaviour is about.  A prefix  *)
(* holds at most one address of the interface: host 0 is none, and a new   *)
(* lease is another host.  LinkLocal is the prefix that only passive       *)
(* discovery uses.  MaxClock and MaxChanges bound the model, not the code. *)
(***************************************************************************)
EXTENDS Integers, FiniteSets

CONSTANTS Scopes,            \* identifiers enrollment may draw, each once
          Prefixes, LinkLocal,
          Records,           \* identifiers of saved selections, each drawn once
          EndpointIn,        \* the prefix a record's endpoint lies in, or Absent
          Confined,          \* records whose policy is enrolled-prefix
          MaxActive, MaxLifetime,
          InspectionTimeout, PreflightTimeout, RouteLifetime,
          MaxClock, MaxChanges,
          Absent

Rows == [id : Scopes, prefixes : SUBSET Prefixes, enrolled : Nat]

ASSUME PreflightAssumption ==
    /\ LinkLocal \in Prefixes /\ EndpointIn \in [Records -> Prefixes \cup {Absent}]
    /\ Confined \subseteq Records
    /\ IsFiniteSet(Records)
    /\ Absent \notin Scopes \cup Prefixes \cup Records
    /\ Absent \notin [scope : Rows \cup {Absent}, active : BOOLEAN]
    /\ MaxActive \in Nat /\ MaxLifetime \in Nat
    /\ InspectionTimeout \in Nat /\ PreflightTimeout \in Nat /\ RouteLifetime \in Nat
    /\ MaxClock \in Nat /\ MaxChanges \in Nat

VARIABLES subject,     \* "gateway", "resolver" or "https"
          clock,
          scope,       \* the row of the active scope, or Absent
          drawn,       \* scope identifiers already used
          hosts,       \* per prefix, the interface's address in it
          route,       \* what the routing table answers
          records,     \* per record: its row
          saving,      \* the scope an unfinished save has read
          job,         \* the preflight in progress
          selected,    \* what the last preflight returned
          witness,     \* the world when that preflight looked up its route
          changes      \* how often the world has changed

world == <<scope, drawn, hosts, route, records>>
preflightVars == <<subject, clock, world, saving, job, selected, witness, changes>>

Hosts == 0..2
Routes == [via : {"link", "hop"}, source : Prefixes \X (Hosts \ {0})] \cup {Absent}
Unsaved == [state |-> "unused", scope |-> Absent, created |-> 0]

PreflightInit ==
    /\ subject \in {"gateway", "resolver", "https"}
    /\ clock = 0 /\ scope = Absent /\ drawn = {}
    /\ hosts = [p \in Prefixes |-> 1]
    /\ route \in {[via |-> v, source |-> <<p, 1>>] :
                     v \in {"link", "hop"}, p \in Prefixes \ {LinkLocal}}
    /\ records = [r \in Records |-> Unsaved]
    /\ saving = Absent /\ job = Absent /\ selected = Absent /\ witness = Absent
    /\ changes = 0

Assigned == {p \in Prefixes : hosts[p] # 0}

(* enrolledGatewayBinding: the one active scope with its binding. *)
EnrolledGatewayBinding == scope

-------------------------------------------------------------------------------
(* Saved selections *)

Active == {r \in Records : records[r].state = "active"}
Saved == {r \in Records : records[r].state # "unused"}

(* The triggers that run before an insert.  The limits count every row of  *)
(* the table, also the ones whose scope is gone.                           *)
ResolverInsertGuard(s) ==
    /\ Cardinality(Saved) < MaxLifetime /\ Cardinality(Active) < MaxActive
    /\ scope # Absent /\ scope.id = s

(* Mutant: the enrollment time is not compared. *)
HTTPSInsertIgnoresEnrollmentTime(s) ==
    /\ Cardinality(Saved) < MaxLifetime /\ Cardinality(Active) < MaxActive
    /\ scope # Absent /\ scope.id = s

HTTPSInsertGuard(s) ==
    /\ Cardinality(Saved) < MaxLifetime /\ Cardinality(Active) < MaxActive
    /\ scope # Absent /\ scope.id = s /\ scope.enrolled <= clock

(* One INSERT; the trigger behind it writes the audit in the statement.    *)
Insert(s) ==
    \E r \in Records \ Saved :
       records' = [records EXCEPT ![r] = [state |-> "active", scope |-> s, created |-> clock]]

CreateResolverConfiguration(s) ==
    IF ResolverInsertGuard(s) THEN Insert(s) ELSE UNCHANGED records

CreateHTTPSConfiguration(s) ==
    IF HTTPSInsertGuard(s) THEN Insert(s) ELSE UNCHANGED records

(* SaveResolver and SaveHTTPS read the scope, then insert: the network may *)
(* be retired and enrolled anew in between.                                *)
SaveBegins ==
    /\ subject # "gateway" /\ saving = Absent /\ EnrolledGatewayBinding # Absent
    /\ Saved # Records
    /\ saving' = EnrolledGatewayBinding.id
    /\ UNCHANGED <<subject, clock, world, job, selected, witness, changes>>

SaveInserts(which) ==
    /\ subject = which /\ saving # Absent /\ saving' = Absent
    /\ UNCHANGED <<subject, clock, scope, drawn, hosts, route, job, selected, witness, changes>>

SaveResolver == SaveInserts("resolver") /\ CreateResolverConfiguration(saving)
SaveHTTPS == SaveInserts("https") /\ CreateHTTPSConfiguration(saving)

Changed == changes < MaxChanges /\ changes' = changes + 1

(* RetireResolver and RetireHTTPS: one-way; needs no enrollment, but a   *)
(* clock that has not gone back before the record was created.             *)
Retire(which, r) ==
    /\ subject = which /\ Changed
    /\ records[r].state = "active" /\ records[r].created <= clock
    /\ records' = [records EXCEPT ![r].state = "retired"]
    /\ UNCHANGED <<subject, clock, scope, drawn, hosts, route, saving, job, selected, witness>>

RetireResolverConfiguration(r) == Retire("resolver", r)
RetireHTTPSConfiguration(r) == Retire("https", r)

(* The rows a read joins: active records on the active scope. *)
Listed == {r \in Active : scope # Absent /\ records[r].scope = scope.id}

ActiveResolverConfiguration(r) == r \in Listed

(* A row is scanned as it was written; an HTTPS row must also be no older  *)
(* than the enrollment of its scope.                                       *)
ScanHTTPSConfiguration(r) == records[r].created >= scope.enrolled

ActiveHTTPSConfiguration(r) == r \in Listed /\ ScanHTTPSConfiguration(r)

(* One row that does not scan makes the whole list unavailable.            *)
ListActiveResolverConfigurations ==
    IF Cardinality(Listed) <= MaxActive THEN Listed ELSE Absent

ListActiveHTTPSConfigurations ==
    IF Cardinality(Listed) <= MaxActive /\ \A r \in Listed : ScanHTTPSConfiguration(r)
    THEN Listed ELSE Absent

(* The web process refuses a list with a record from the future, which a   *)
(* clock set back leaves behind.  (A step of the clock is longer than the  *)
(* second that the resolver's page tolerates.)                             *)
ValidWebResolverSettings(r) == records[r].created <= clock
ValidWebHTTPSSettings(r) == records[r].created <= clock

ProjectWebResolverSelections(list) ==
    IF \A r \in list : ValidWebResolverSettings(r) THEN list ELSE Absent
ProjectWebHTTPSSelections(list) ==
    IF \A r \in list : ValidWebHTTPSSettings(r) THEN list ELSE Absent

(* ListResolvers and ListHTTPSSettings need an enrolled network. *)
ListResolvers ==
    IF EnrolledGatewayBinding = Absent THEN Absent ELSE ListActiveResolverConfigurations
ListHTTPSSettings ==
    IF EnrolledGatewayBinding = Absent THEN Absent ELSE ListActiveHTTPSConfigurations

HandleResolverSelections ==
    IF ListResolvers = Absent THEN Absent ELSE ProjectWebResolverSelections(ListResolvers)
HandleHTTPSSelections ==
    IF ListHTTPSSettings = Absent THEN Absent ELSE ProjectWebHTTPSSelections(ListHTTPSSettings)

-------------------------------------------------------------------------------
(* Preflight *)

Routable(prefixes) == prefixes \ {LinkLocal}

(* What a check compares: the gateway check every enrolled prefix, the     *)
(* other two the prefixes that can be routed.                              *)
Compared(prefixes) == IF subject = "gateway" THEN prefixes ELSE Routable(prefixes)

Binding(row) == [id |-> row.id, prefixes |-> Compared(row.prefixes)]

(* The target of a gateway check is a prefix, of the others a record.      *)
TargetIn(target) == IF subject = "gateway" THEN target ELSE EndpointIn[target]

At(step) == job # Absent /\ job.step = step

Continue(fields, step) ==
    /\ job' = [f \in DOMAIN job |-> IF f = "step" THEN step
                                    ELSE IF f \in DOMAIN fields THEN fields[f] ELSE job[f]]
    /\ UNCHANGED <<subject, clock, world, saving, selected, changes>>

Give(result) ==
    /\ job' = Absent /\ selected' = result
    /\ UNCHANGED <<subject, clock, world, saving, witness, changes>>

PreflightFails == job # Absent /\ Give(Absent)

Job(step, target) ==
    [step |-> step, target |-> target, started |-> clock, binding |-> Absent,
     planned |-> clock, began |-> clock, before |-> Absent, route |-> Absent,
     observed |-> clock, completed |-> clock]

Begin(which, step, targets) ==
    /\ subject = which /\ job = Absent
    /\ \E t \in targets : job' = Job(step, t)
    /\ selected' = Absent /\ witness' = Absent
    /\ UNCHANGED <<subject, clock, world, saving, changes>>

PreflightGatewayRun == Begin("gateway", "enrolled", Routable(Prefixes))
PreflightResolverRun == Begin("resolver", "settings", Saved)
PreflightHTTPSRun == Begin("https", "settings", Saved)

(* PreviewGatewayCheck: an eligible host of an enrolled prefix.            *)
PreviewGatewayCheck(binding, p) == p \in Routable(binding.prefixes)

(* collectGatewayCheckPlan, first half: the target must be eligible before *)
(* anything of the operating system is read.                               *)
CollectGatewayCheckPlan ==
    /\ At("enrolled") /\ EnrolledGatewayBinding # Absent
    /\ PreviewGatewayCheck(Binding(scope), job.target)
    /\ Continue([binding |-> Binding(scope), started |-> clock], "inspect")
    /\ UNCHANGED witness

(* localInterfaceOutcome: the complete prefix set, not only link-local.    *)
LocalInterfaceOutcome(binding) == Assigned = binding.prefixes /\ Routable(Assigned) # {}

GatewayInterfaceInspected ==
    /\ At("inspect") /\ LocalInterfaceOutcome(job.binding)
    /\ clock >= job.started /\ clock - job.started <= PreflightTimeout
    /\ Continue([planned |-> clock], "before")
    /\ UNCHANGED witness

(* resolverInputs and httpsInputs: the record, then the scope.  They are   *)
(* read twice, around the route.                                           *)
Readable(r) == IF subject = "resolver" THEN ActiveResolverConfiguration(r)
                                       ELSE ActiveHTTPSConfiguration(r)

ReadSettings(from, to) ==
    /\ At(from) /\ Readable(job.target)
    /\ Continue(<<>>, to)
    /\ UNCHANGED witness

ReadScope ==
    /\ At("scope") /\ EnrolledGatewayBinding # Absent
    /\ scope.id = records[job.target].scope
    /\ Continue([binding |-> Binding(scope)], "before")
    /\ UNCHANGED witness

Inputs == ReadSettings("settings", "scope") \/ ReadScope

ResolverInputs == subject = "resolver" /\ Inputs
HTTPSInputs == subject = "https" /\ Inputs

MatchesBinding(binding) == Assigned # {} /\ Assigned = binding.prefixes
MatchesEnrollment(binding) == binding.prefixes # {} /\ Routable(Assigned) = binding.prefixes

InterfaceMatches(binding) ==
    IF subject = "gateway" THEN MatchesBinding(binding) ELSE MatchesEnrollment(binding)

ReadInterfaceBefore ==
    /\ At("before") /\ InterfaceMatches(job.binding)
    /\ Continue([before |-> hosts, began |-> clock], "lookup")
    /\ UNCHANGED witness

LookupRoute ==
    /\ At("lookup") /\ route # Absent
    /\ Continue([route |-> route, observed |-> clock], "after")
    /\ witness' = [scope |-> scope, active |-> subject = "gateway" \/ job.target \in Active]

Held(r, when) == when[r.source[1]] = r.source[2]

(* An on-link route whose address the interface had before and after, in   *)
(* the prefix of the target.                                               *)
MatchesGatewayRoute(j) ==
    /\ j.route.via = "link" /\ j.route.source[1] = j.target
    /\ Held(j.route, j.before) /\ Held(j.route, hosts)
    /\ PreviewGatewayCheck(j.binding, j.route.source[1])

(* On-link, or over a next hop in the source's own subnet.                 *)
MatchesCheckRoute(j) ==
    /\ j.route.via = "link" => j.route.source[1] = EndpointIn[j.target]
    /\ Held(j.route, j.before) /\ Held(j.route, hosts)

(* checkbinding.Validate: the source is a host of an enrolled prefix.      *)
ValidateBinding(j) == j.route.source[1] \in j.binding.prefixes

(* resolverplan.New: an enrolled-prefix policy needs the endpoint inside.  *)
ResolverPlan(j) ==
    /\ ValidateBinding(j)
    /\ j.target \in Confined => EndpointIn[j.target] \in j.binding.prefixes

HTTPSPlan(j) == ValidateBinding(j)

InspectGatewayRoute(j) ==
    /\ MatchesBinding(j.binding) /\ MatchesGatewayRoute(j)
    /\ clock - j.began <= InspectionTimeout

InspectCheckRoute(j) ==
    /\ MatchesEnrollment(j.binding) /\ MatchesCheckRoute(j)
    /\ clock - j.began < InspectionTimeout

InspectResolverRoute(j) == InspectCheckRoute(j) /\ ResolverPlan(j)
InspectHTTPSRoute(j) == InspectCheckRoute(j) /\ HTTPSPlan(j)

(* Inspect, last half: the times of the sample are in order and the        *)
(* interface is still the one that was enrolled.                           *)
ReadInterfaceAfter ==
    /\ At("after")
    /\ job.observed >= job.began /\ clock >= job.observed
    /\ CASE subject = "gateway" -> InspectGatewayRoute(job)
         [] subject = "resolver" -> InspectResolverRoute(job)
         [] subject = "https" -> InspectHTTPSRoute(job)
    /\ Continue([completed |-> clock], IF subject = "gateway" THEN "evidence" ELSE "resettings")
    /\ UNCHANGED witness

Selection(j) ==
    [scope |-> j.binding.id, prefixes |-> j.binding.prefixes, target |-> j.target,
     source |-> j.route.source, observed |-> j.observed,
     freshUntil |-> j.observed + RouteLifetime]

(* collectGatewayRouteEvidence: the route was seen after the plan was made *)
(* and both are recent.                                                    *)
CollectGatewayRouteEvidence ==
    /\ At("evidence")
    /\ job.observed >= job.planned /\ job.observed <= clock
    /\ clock < job.observed + RouteLifetime /\ clock - job.planned <= PreflightTimeout
    /\ Continue(<<>>, "rescope")
    /\ UNCHANGED witness

(* Mutant: the prefixes are compared and the scope is not. *)
SameAuthorityByPrefix(binding) ==
    /\ EnrolledGatewayBinding # Absent
    /\ Compared(scope.prefixes) = binding.prefixes

(* "Matching OS prefixes alone cannot retain authority."                   *)
SameAuthority(binding) ==
    /\ EnrolledGatewayBinding # Absent
    /\ Binding(scope) = binding

GatewaySelected ==
    /\ subject = "gateway" /\ At("rescope") /\ SameAuthority(job.binding)
    /\ Give(Selection(job))

(* resolverInputs once more, then the clock: strictly within the timeout   *)
(* and the lifetime of the route.                                          *)
PlanHolds(j) ==
    /\ SameAuthority(j.binding) /\ scope.id = records[j.target].scope
    /\ clock >= j.started /\ clock - j.started < PreflightTimeout
    /\ j.observed >= j.started /\ j.observed <= j.completed
    /\ clock >= j.completed /\ clock < j.completed + RouteLifetime
    /\ clock < j.observed + RouteLifetime

CollectResolverPlan ==
    /\ subject = "resolver" /\ At("rescope") /\ PlanHolds(job)
    /\ Give(Selection(job))

CollectHTTPSPlan ==
    /\ subject = "https" /\ At("rescope") /\ PlanHolds(job)
    /\ Give(Selection(job))

-------------------------------------------------------------------------------
(* The world around a preflight *)

(* EnrollDeviceWatchScope: a fresh identifier and the prefixes of now. *)
EnrollNetwork ==
    /\ scope = Absent /\ Routable(Assigned) # {}
    /\ \E s \in Scopes \ drawn :
          /\ scope' = [id |-> s, prefixes |-> Assigned, enrolled |-> clock]
          /\ drawn' = drawn \cup {s}
    /\ UNCHANGED <<subject, clock, hosts, route, records, saving, job, selected, witness, changes>>

(* RetireDeviceWatchScope: the saved selections stay as they are.          *)
RetireNetwork ==
    /\ Changed /\ scope # Absent /\ scope' = Absent
    /\ UNCHANGED <<subject, clock, drawn, hosts, route, records, saving, job, selected, witness>>

(* External: an address is lost or replaced. *)
InterfaceChanges ==
    /\ Changed
    /\ \E p \in Prefixes, h \in Hosts :
          /\ h # hosts[p]
          /\ hosts' = [hosts EXCEPT ![p] = h]
    /\ UNCHANGED <<subject, clock, scope, drawn, route, records, saving, job, selected, witness>>

(* External: the routing table changes, or has no answer. *)
RouteChanges ==
    /\ Changed /\ \E r \in Routes \ {route} : route' = r
    /\ UNCHANGED <<subject, clock, scope, drawn, hosts, records, saving, job, selected, witness>>

(* External: time passes, or the wall clock is set back. *)
ClockChanges ==
    /\ \/ clock' \in (clock + 1)..MaxClock /\ UNCHANGED changes
       \/ Changed /\ clock' \in 0..(clock - 1)
    /\ UNCHANGED <<subject, world, saving, job, selected, witness>>

-------------------------------------------------------------------------------
SettingsStep ==
    \/ SaveBegins \/ SaveResolver \/ SaveHTTPS
    \/ \E r \in Records : RetireResolverConfiguration(r) \/ RetireHTTPSConfiguration(r)

PreflightStep ==
    \/ PreflightGatewayRun \/ PreflightResolverRun \/ PreflightHTTPSRun
    \/ CollectGatewayCheckPlan \/ GatewayInterfaceInspected
    \/ ResolverInputs \/ HTTPSInputs
    \/ ReadInterfaceBefore \/ LookupRoute \/ ReadInterfaceAfter
    \/ CollectGatewayRouteEvidence \/ GatewaySelected
    \/ ReadSettings("resettings", "rescope") \/ CollectResolverPlan \/ CollectHTTPSPlan
    \/ PreflightFails

WorldStep ==
    EnrollNetwork \/ RetireNetwork \/ InterfaceChanges \/ RouteChanges \/ ClockChanges

PreflightNext == SettingsStep \/ PreflightStep \/ WorldStep

PreflightSpec == PreflightInit /\ [][PreflightNext]_preflightVars

-------------------------------------------------------------------------------
(* Whatever changed while it ran, a selection that a preflight returns is   *)
(* one the user had authorised when its route was looked up: the scope it   *)
(* names was the enrolled one with exactly these prefixes, its saved record *)
(* had not been retired, and its source was an address of the enrolled      *)
(* interface both before and after (preflightGatewayRun,                    *)
(* collectResolverPlan and collectHTTPSPlan read the authority around the   *)
(* route, not only before it).                                              *)
AuthorityHeld ==
    selected # Absent =>
       /\ witness # Absent /\ witness.scope # Absent /\ witness.active
       /\ witness.scope.id = selected.scope
       /\ Compared(witness.scope.prefixes) = selected.prefixes
       /\ selected.source[1] \in Routable(selected.prefixes)
       /\ subject = "gateway" => TargetIn(selected.target) = selected.source[1]

(* Every active record of the enrolled network can be read, whatever the    *)
(* wall clock did between enrolling and saving: neither the controller nor  *)
(* the page drops one, and neither refuses the whole list, unless the clock *)
(* stands before one of the records was made (the insert triggers of        *)
(* schema.go against scanHTTPSConfiguration, and the selection pages).      *)
SettingsStayReadable ==
    LET shown == IF subject = "https" THEN HandleHTTPSSelections ELSE HandleResolverSelections
        fromFuture == \E r \in Listed : records[r].created > clock IN
    subject # "gateway" /\ scope # Absent /\ ~fromFuture => shown = Listed
===============================================================================
