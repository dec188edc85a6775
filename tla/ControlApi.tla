------------------------------ MODULE ControlApi ------------------------------
(***************************************************************************)
(* The controller as a process and the requests that change its state.  A  *)
(* process acquires the socket, writes its session secret and serves; it   *)
(* stops in the order of its deferred calls, or is killed.  The page and   *)
(* the commands read the secret, dial, send one request and wait for a     *)
(* while; the handler goes on whether they still wait or not.  One-shot    *)
(* checks run under a coordinator that shutdown closes and drains.         *)
(*                                                                         *)
(* What a handler does to the evidence is modelled by DeviceCorrections,   *)
(* DeviceWatchControl and CheckPreflight; here it is its code, its effect  *)
(* and whether it is idempotent.  The constants Max... bound the model.    *)
(***************************************************************************)
EXTENDS Integers, FiniteSets, Sequences

CONSTANTS Processes, Pages, Terminals,
          Requests,          \* what users may ask: records [method, arg]
          StoredApps,        \* the states the store may hold at the first start
          MaxConcurrent,     \* maxConcurrentClient
          MaxBoots, MaxSends,
          Missing

Clients == Pages \cup Terminals

Methods == {"enroll", "retire", "enable", "disable", "check", "acknowledge", "label",
            "merge", "unmerge", "split", "unsplit", "save", "unsave"}

(* The durable state: the enrolled network, the number of scopes ever      *)
(* drawn, the scope that is watched, one device's label, acknowledgement,  *)
(* merge and split, and the saved selections.                              *)
Args(m) == {ask.arg : ask \in {r \in Requests : r.method = m}}
AppStates == [network : [id : Nat, on : Args("enroll")] \cup {Missing}, scopes : Nat,
              watched : Nat \cup {Missing}, label : Args("label") \cup {""},
              acknowledged : BOOLEAN, merged : Args("merge") \cup {Missing},
              split : Args("split") \cup {Missing}, saved : SUBSET Args("save")]

ASSUME ControlApiAssumption ==
    /\ MaxConcurrent \in Nat \ {0} /\ MaxBoots \in Nat /\ MaxSends \in Nat
    /\ \A ask \in Requests : ask.method \in Methods
    /\ StoredApps \subseteq AppStates
    /\ Missing \notin Nat /\ Missing \notin Processes /\ Missing \notin Requests
    /\ Missing \notin {"ok", "refused", "unavailable", "internal_error"}
    /\ Missing \notin [id : Nat, on : Args("enroll")]

VARIABLES phase,       \* per process: how far runServe is
          token,       \* per process: its session secret
          socket,      \* whose listener the path names, or Missing
          secretFile,  \* the secret in controller.auth, or Missing
          app,         \* the durable state that requests change
          work,        \* the handlers in progress, in any process
          page,        \* per client: its last request and what it was told
          bootstrapped,\* the page that consumed the bootstrap token
          sends,       \* requests so far
          boots,
          effects      \* which requests succeeded, which changed app, and the last of these

process == <<phase, token, socket, secretFile, boots>>
controlApiVars == <<process, app, work, page, bootstrapped, sends, effects>>

EmptyApp == [network |-> Missing, scopes |-> 0, watched |-> Missing, label |-> "",
             acknowledged |-> FALSE, merged |-> Missing, split |-> Missing, saved |-> {}]

ControlApiInit ==
    /\ phase = [p \in Processes |-> "off"] /\ token = [p \in Processes |-> 0]
    /\ socket = Missing /\ secretFile = Missing /\ boots = 0
    /\ app \in StoredApps /\ work = {} /\ bootstrapped = Missing /\ sends = 0
    /\ page = [c \in Clients |-> [pc |-> "idle", id |-> 0, ask |-> Missing, secret |-> 0, told |-> Missing]]
    /\ effects = [done |-> {}, changed |-> {}, last |-> Missing]

-------------------------------------------------------------------------------
(* The process *)

Live(p) == phase[p] \in {"listening", "serving"}

StoreOpen(p) == phase[p] \notin {"off", "closed"}

To(p, f) == phase' = [phase EXCEPT ![p] = f]

(* Starts and stops of different processes follow one another, as under a   *)
(* service manager; only a start beside a serving controller is concurrent. *)
Settled(p) == \A q \in Processes \ {p} : phase[q] \in {"off", "serving"}

(* Mutant: a socket is taken for stale without dialling it. *)
RemovesAnySocket(p) ==
    /\ phase[p] = "off" /\ boots < MaxBoots /\ Settled(p) /\ boots' = boots + 1
    /\ socket' = Missing /\ To(p, "prepared")
    /\ UNCHANGED <<token, secretFile>>

(* prepareSocket: a socket that answers belongs to a running controller.    *)
PrepareSocket(p) ==
    /\ phase[p] = "off" /\ boots < MaxBoots /\ Settled(p) /\ boots' = boots + 1
    /\ IF socket # Missing /\ Live(socket)
       THEN UNCHANGED <<socket, phase>>                            \* ErrAlreadyRunning
       ELSE socket' = Missing /\ To(p, "prepared")
    /\ UNCHANGED <<token, secretFile>>

NewServer(p) ==
    /\ phase[p] = "prepared" /\ socket = Missing
    /\ socket' = p /\ To(p, "listening")
    /\ UNCHANGED <<token, secretFile, boots>>

(* The coordinators are installed after the socket was acquired. *)
CreateSessionSecret(p) ==
    /\ phase[p] = "listening"
    /\ token' = [token EXCEPT ![p] = boots] /\ secretFile' = boots /\ To(p, "serving")
    /\ UNCHANGED <<socket, boots>>

(* A signal: the listener closes, which unlinks the path. *)
Stops(p) ==
    /\ phase[p] = "serving" /\ To(p, "draining")
    /\ socket' = IF socket = p THEN Missing ELSE socket
    /\ UNCHANGED <<token, secretFile, boots>>

Executing(p) == {w \in work : w.at = p /\ w.stage \in {"executing", "audit"}}

(* Mutant: the coordinators are told to stop and not joined. *)
LeavesChecks(p) ==
    /\ phase[p] = "draining" /\ To(p, "closing")
    /\ UNCHANGED <<token, socket, secretFile, boots>>

(* The three shutdown calls wait until every admitted check has returned.   *)
DrainChecks(p) ==
    /\ phase[p] = "draining" /\ Executing(p) = {} /\ To(p, "closing")
    /\ UNCHANGED <<token, socket, secretFile, boots>>

(* Close removes the secret and the socket by their paths. *)
CloseServer(p) ==
    /\ phase[p] = "closing" /\ secretFile # Missing
    /\ secretFile' = Missing /\ socket' = Missing
    /\ UNCHANGED <<phase, token, boots>>

CloseStore(p) ==
    /\ phase[p] = "closing" /\ secretFile = Missing /\ To(p, "closed")
    /\ UNCHANGED <<token, socket, secretFile, boots>>

(* The process ends, in order or killed; a killed one leaves its socket and *)
(* its secret behind.                                                       *)
Exits(p) == phase[p] = "closed" /\ To(p, "off")
Killed(p) == phase[p] \notin {"off", "closed"} /\ To(p, "off")

ProcessEnds(p) ==
    /\ Exits(p) \/ Killed(p)
    /\ work' = {w \in work : w.at # p}
    /\ UNCHANGED <<token, socket, secretFile, boots>>

(* Whoever waits for a process that stops or ends reads an error. *)
Waiting(p) == {c \in Clients : \E w \in work : w.at = p /\ w.client = c /\ page[c].pc = "waiting" /\ page[c].id = w.id}

Hangs(clients) ==
    page' = [c \in Clients |-> IF c \in clients THEN [page[c] EXCEPT !.pc = "idle", !.told = "unavailable"] ELSE page[c]]

ProcessStep(p) ==
    /\ \/ PrepareSocket(p) \/ NewServer(p) \/ CreateSessionSecret(p)
       \/ DrainChecks(p) \/ CloseServer(p) \/ CloseStore(p)
    /\ UNCHANGED <<app, work, page, bootstrapped, sends, effects>>

ProcessStops(p) ==
    /\ (Stops(p) /\ UNCHANGED work) \/ ProcessEnds(p)
    /\ Hangs(Waiting(p))
    /\ UNCHANGED <<app, bootstrapped, sends, effects>>

-------------------------------------------------------------------------------
(* What requests do: the possible codes with the state each leaves.         *)

Refused(code, a) == [code |-> code, app |-> a]
Ok(a) == [code |-> "ok", app |-> a]

(* Mutant: an enrollment of the same interface is not recognised. *)
EnrollAgain(i, a) ==
    {Refused("precondition_failed", a),
     Ok([a EXCEPT !.network = [id |-> a.scopes + 1, on |-> i], !.scopes = a.scopes + 1])}

(* The same interface again changes nothing; another one conflicts.         *)
EnrollNetwork(i, a) ==
    {Refused("precondition_failed", a),
     CASE a.network = Missing -> Ok([a EXCEPT !.network = [id |-> a.scopes + 1, on |-> i], !.scopes = a.scopes + 1])
       [] a.network # Missing /\ a.network.on = i -> Ok(a)
       [] OTHER -> Refused("conflict", a)}

RetireNetwork(id, a) ==
    {CASE a.watched # Missing -> Refused("precondition_failed", a)
       [] a.watched = Missing /\ a.network # Missing ->
            IF a.network.id = id THEN Ok([a EXCEPT !.network = Missing]) ELSE Refused("conflict", a)
       [] a.watched = Missing /\ a.network = Missing ->
            IF id <= a.scopes THEN Ok(a) ELSE Refused("precondition_failed", a)}

EnableDeviceWatch(a) ==
    {IF a.watched # Missing THEN Ok(a)
     ELSE IF a.network = Missing THEN Refused("precondition_failed", a)
     ELSE Ok([a EXCEPT !.watched = a.network.id])}

DisableDeviceWatch(a) == {Ok([a EXCEPT !.watched = Missing])}

(* A device that was merged into another has no label of its own. *)
LabelDevice(l, a) ==
    {IF a.merged # Missing THEN Refused("not_found", a) ELSE Ok([a EXCEPT !.label = l])}

AcknowledgeArrivalFinding(a) == {Refused("not_found", a), Ok([a EXCEPT !.acknowledged = TRUE])}

MergeDevices(t, a) ==
    {IF a.merged \in {Missing, t} THEN Ok([a EXCEPT !.merged = t]) ELSE Refused("conflict", a)}
UnmergeDevices(a) == {Ok([a EXCEPT !.merged = Missing])}

SplitDeviceObservation(t, a) ==
    {IF a.split \in {Missing, t} THEN Ok([a EXCEPT !.split = t]) ELSE Refused("conflict", a)}
UnsplitDeviceObservation(a) == {Ok([a EXCEPT !.split = Missing])}

(* The same settings again are the saved selection. *)
SaveSelection(s, a) ==
    {IF a.network = Missing THEN Refused("unavailable", a) ELSE Ok([a EXCEPT !.saved = @ \cup {s}])}
RetireSelection(s, a) == {Ok([a EXCEPT !.saved = @ \ {s}])}

(* The server's arms: which handler serves a method, and its errors' codes. *)
DeviceMethods == {"label", "merge", "unmerge", "split", "unsplit"}

DeviceOutcomes(ask, a) ==
    CASE ask.method = "label" -> LabelDevice(ask.arg, a)
      [] ask.method = "merge" -> MergeDevices(ask.arg, a)
      [] ask.method = "unmerge" -> UnmergeDevices(a)
      [] ask.method = "split" -> SplitDeviceObservation(ask.arg, a)
      [] ask.method = "unsplit" -> UnsplitDeviceObservation(a)

NetworkOutcomes(ask, a) ==
    CASE ask.method = "enroll" -> EnrollNetwork(ask.arg, a)
      [] ask.method = "retire" -> RetireNetwork(ask.arg, a)
      [] ask.method = "enable" -> EnableDeviceWatch(a)
      [] ask.method = "disable" -> DisableDeviceWatch(a)

SelectionOutcomes(ask, a) ==
    CASE ask.method = "save" -> SaveSelection(ask.arg, a)
      [] ask.method = "unsave" -> RetireSelection(ask.arg, a)

Outcomes(ask, a) ==
    CASE ask.method = "acknowledge" -> AcknowledgeArrivalFinding(a)
      [] ask.method \in DeviceMethods -> DeviceOutcomes(ask, a)
      [] ask.method \in {"save", "unsave"} -> SelectionOutcomes(ask, a)
      [] OTHER -> NetworkOutcomes(ask, a)

-------------------------------------------------------------------------------
(* Requests.  The page authorises a change before it calls the controller:  *)
(* session, method, origin, CSRF token and the shape of the body.           *)

ConsumeBootstrap(c) ==
    /\ c \in Pages /\ bootstrapped = Missing /\ bootstrapped' = c
    /\ UNCHANGED <<process, app, work, page, sends, effects>>

AuthorizeMutation(c) == bootstrapped = c

Told(c, answer) == page' = [page EXCEPT ![c].pc = "idle", ![c].told = answer]

(* Client.call: the secret is read first. *)
Submit(c, methods) ==
    /\ page[c].pc = "idle" /\ sends < MaxSends
    /\ \E ask \in Requests :
          /\ ask.method \in methods
          /\ sends' = sends + 1
          /\ page' = [page EXCEPT ![c] =
                IF secretFile = Missing THEN [pc |-> "idle", id |-> sends + 1, ask |-> ask, secret |-> 0, told |-> "unavailable"]
                ELSE [pc |-> "dialling", id |-> sends + 1, ask |-> ask, secret |-> secretFile, told |-> Missing]]
    /\ UNCHANGED <<process, app, work, bootstrapped, effects>>

WebSubmit(c, methods) == c \in Pages /\ AuthorizeMutation(c) /\ Submit(c, methods)
CommandSubmit(c, methods) == c \in Terminals /\ Submit(c, methods)

WebNetworkEnroll(c) == WebSubmit(c, {"enroll"})
WebNetworkRetire(c) == WebSubmit(c, {"retire"})
WebDeviceWatch(c) == WebSubmit(c, {"enable", "disable"})
WebDeviceLabel(c) == WebSubmit(c, {"label"})
WebDeviceIdentity(c) == WebSubmit(c, {"merge", "unmerge"})
WebDeviceSplit(c) == WebSubmit(c, {"split", "unsplit"})
WebAcknowledge(c) == WebSubmit(c, {"acknowledge"})
WebResolverSave(c) == WebSubmit(c, {"save"})
WebResolverRetire(c) == WebSubmit(c, {"unsave"})
WebHTTPSSave(c) == WebSubmit(c, {"save"})
WebHTTPSRetire(c) == WebSubmit(c, {"unsave"})
NetworkEnrollCommand(c) == CommandSubmit(c, {"enroll"})
NetworkRetireCommand(c) == CommandSubmit(c, {"retire"})
DeviceLabelCommand(c) == CommandSubmit(c, {"label"})
DeviceMergeCommand(c) == CommandSubmit(c, {"merge", "unmerge"})
DeviceSplitCommand(c) == CommandSubmit(c, {"split", "unsplit"})
ResolverCommand(c) == CommandSubmit(c, {"save", "unsave"})
HTTPSCommand(c) == CommandSubmit(c, {"save", "unsave"})
CheckCommand(c) == CommandSubmit(c, {"check"})

(* Dialling and the accept loop, which closes what exceeds the limit.       *)
Serve(c) ==
    /\ page[c].pc = "dialling"
    /\ LET p == socket IN
       IF p # Missing /\ Live(p) /\ Cardinality({w \in work : w.at = p}) < MaxConcurrent
       THEN /\ phase[p] = "serving"
            /\ work' = work \cup {[id |-> page[c].id, client |-> c, ask |-> page[c].ask, at |-> p,
                                    secret |-> page[c].secret, stage |-> "accepted", code |-> Missing]}
            /\ page' = [page EXCEPT ![c].pc = "waiting"]
       ELSE Told(c, "unavailable") /\ UNCHANGED work
    /\ UNCHANGED <<process, app, bootstrapped, sends, effects>>

(* The client's deadline, while the handler goes on. *)
ClientTimesOut(c) ==
    /\ page[c].pc = "waiting" /\ Told(c, "unavailable")
    /\ UNCHANGED <<process, app, work, bootstrapped, sends, effects>>

(* What the page and the commands say to a code. *)
Refusals == {"invalid_request", "not_found", "precondition_failed", "conflict", "method_not_found"}

(* Mutant: an error of the controller is shown as a refusal. *)
ErrorsAreRefusals(code) == IF code = "ok" THEN "ok" ELSE "refused"

WriteMutationControllerError(code) ==
    IF code = "ok" THEN "ok" ELSE IF code \in Refusals THEN "refused" ELSE "unavailable"

(* Saved selections: every failure is an unknown outcome. *)
SelectionAnswer(code) == IF code = "ok" THEN "ok" ELSE "unavailable"

AnswerFor(ask, code) ==
    IF ask.method \in {"save", "unsave"} THEN SelectionAnswer(code) ELSE WriteMutationControllerError(code)

-------------------------------------------------------------------------------
(* Handlers *)

Becomes(w, fields) ==
    work' = (work \ {w}) \cup {[f \in DOMAIN w |-> IF f \in DOMAIN fields THEN fields[f] ELSE w[f]]}

Coded(w, code) == Becomes(w, [stage |-> "reply", code |-> code])

(* The secret of an earlier process is not this one's. *)
HandleConn(w) ==
    /\ w.stage = "accepted"
    /\ IF w.secret # token[w.at] THEN Coded(w, "unauthorized")
       ELSE IF w.ask.method = "check" THEN Becomes(w, [stage |-> "current"])
       ELSE IF w.ask.method \in DeviceMethods THEN Becomes(w, [stage |-> "scope"])
       ELSE Becomes(w, [stage |-> "store"])
    /\ UNCHANGED <<app, effects>>

(* Device corrections first read which scope is watched. *)
CurrentScope(w) ==
    /\ w.stage = "scope"
    /\ IF app.watched = Missing THEN Coded(w, "not_found") ELSE Becomes(w, [stage |-> "store"])
    /\ UNCHANGED <<app, effects>>

(* One transaction, which fails as a whole, and always once the store is    *)
(* closed.  A commit or a reply that fails afterwards is an internal error  *)
(* too.  The handler's context is its own, not the connection's.            *)
Commits(w) ==
    /\ w.stage = "store"
    /\ \/ Coded(w, "internal_error") /\ UNCHANGED <<app, effects>>
       \/ /\ StoreOpen(w.at)
          /\ \E o \in Outcomes(w.ask, app) :
                /\ app' = o.app
                /\ Coded(w, o.code) \/ (o.code = "ok" /\ Coded(w, "internal_error"))
                /\ effects' = [done |-> effects.done \cup (IF o.code = "ok" THEN {w.id} ELSE {}),
                               changed |-> effects.changed \cup (IF o.app # app THEN {w.id} ELSE {}),
                               last |-> IF o.app # app THEN w.ask ELSE effects.last]

(* A check: the coordinator is found under the lifecycle's mutex and asked  *)
(* to admit afterwards; shutdown may have closed it in between.             *)
CurrentCoordinator(w) ==
    /\ w.stage = "current"
    /\ IF phase[w.at] = "serving" THEN Becomes(w, [stage |-> "found"]) ELSE Coded(w, "unavailable")
    /\ UNCHANGED <<app, effects>>

Admits(w) ==
    /\ w.stage = "found"
    /\ IF phase[w.at] = "serving" THEN Becomes(w, [stage |-> "executing"]) ELSE Coded(w, "unavailable")
    /\ UNCHANGED <<app, effects>>

Executes(w) ==
    /\ w.stage = "executing" /\ Becomes(w, [stage |-> "audit"]) /\ UNCHANGED <<app, effects>>

(* The last event of a check is written whatever happened to the caller.    *)
RecordsRun(w) ==
    /\ w.stage = "audit" /\ UNCHANGED app
    /\ IF StoreOpen(w.at)
       THEN Coded(w, "ok") /\ effects' = [effects EXCEPT !.done = @ \cup {w.id}]
       ELSE Coded(w, "internal_error") /\ UNCHANGED effects

Handles(w) ==
    /\ \/ HandleConn(w) \/ CurrentScope(w) \/ Commits(w)
       \/ CurrentCoordinator(w) \/ Admits(w) \/ Executes(w) \/ RecordsRun(w)
    /\ UNCHANGED <<process, page, bootstrapped, sends>>

(* The reply reaches whoever still waits on an open connection. *)
Replies(w) ==
    /\ w.stage = "reply" /\ work' = work \ {w}
    /\ IF page[w.client].pc = "waiting" /\ page[w.client].id = w.id /\ phase[w.at] = "serving"
       THEN Told(w.client, AnswerFor(w.ask, w.code)) ELSE UNCHANGED page
    /\ UNCHANGED <<process, app, bootstrapped, sends, effects>>

ControlApiNext ==
    \/ \E p \in Processes : ProcessStep(p) \/ ProcessStops(p)
    \/ \E c \in Clients :
          \/ ConsumeBootstrap(c)
          \/ WebNetworkEnroll(c) \/ WebNetworkRetire(c) \/ WebDeviceWatch(c) \/ WebDeviceLabel(c)
          \/ WebDeviceIdentity(c) \/ WebDeviceSplit(c) \/ WebAcknowledge(c)
          \/ WebResolverSave(c) \/ WebResolverRetire(c) \/ WebHTTPSSave(c) \/ WebHTTPSRetire(c)
          \/ NetworkEnrollCommand(c) \/ NetworkRetireCommand(c) \/ DeviceLabelCommand(c)
          \/ DeviceMergeCommand(c) \/ DeviceSplitCommand(c)
          \/ ResolverCommand(c) \/ HTTPSCommand(c) \/ CheckCommand(c)
          \/ Serve(c) \/ ClientTimesOut(c)
    \/ \E w \in work : Handles(w) \/ Replies(w)

ControlApiSpec == ControlApiInit /\ [][ControlApiNext]_controlApiVars

-------------------------------------------------------------------------------
(* An answer holds: a user who reads success has a change that is durable,  *)
(* one who reads a refusal has changed nothing and never will by that       *)
(* request; only an unavailable controller leaves it open.  Through         *)
(* timeouts, kills, restarts and handlers that outlive the connection       *)
(* (handleConnContext, writeMutationControllerError).                       *)
TruthfulAnswer ==
    \A c \in Clients :
        /\ page[c].told = "ok" => page[c].id \in effects.done
        /\ page[c].told = "refused" =>
              /\ page[c].id \notin effects.changed
              /\ \A w \in work : w.id # page[c].id

(* Repeating a request is safe: of two requests that ask for the same, the  *)
(* second changes nothing unless something else changed in between, also    *)
(* when the first was given up and still runs (the handlers' Changed).      *)
RepeatChangesNothing == [][app' # app => effects'.last # effects.last]_controlApiVars

(* A controller that serves can be reached: the socket and the secret on    *)
(* disk are its own, after kills that left both behind and after starts     *)
(* that were refused (newServer, prepareSocket, Close).                     *)
ServingIsReachable ==
    \A p \in Processes : phase[p] = "serving" => socket = p /\ secretFile = token[p]

(* The store outlives the checks: a check that was admitted finds it open   *)
(* when it writes its last event, although handlers are not joined          *)
(* (runServe's deferred shutdown, gatewayRunLifecycle).                     *)
StoreOutlivesChecks == \A p \in Processes : Executing(p) # {} => StoreOpen(p)
===============================================================================
