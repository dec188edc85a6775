-------------------------- MODULE ControlApi_proofs --------------------------
(*****************************************************************************)
(* Proofs about ControlApi: the requests of pages and terminals, the         *)
(* controller that serves them, its socket, its secret and its store.        *)
(*****************************************************************************)
EXTENDS ControlApi, TLAPS

-------------------------------------------------------------------------------
(* ControlApi, for any processes, pages, terminals, requests and stored    *)
(* states: through every start, stop and kill, timeouts and handlers that  *)
(* outlive their connection.                                               *)
(*                                                                         *)
(* ReachInv says that one process at most is up and that a listener owns   *)
(* the paths.  CheckInv says how far shutdown can be while a check runs.   *)
(* AnswerInv follows a request by its identifier from the page to the      *)
(* handler and back.  RepeatInv says that the last effective request has   *)
(* nothing left to change.                                                 *)

Phases == {"off", "prepared", "listening", "serving", "draining", "closing", "closed"}
Stages == {"accepted", "current", "found", "executing", "audit", "scope", "store", "reply"}

PageStates == [pc : {"idle", "dialling", "waiting"}, id : Nat, ask : Requests \cup {Missing},
               secret : Nat, told : {Missing, "ok", "refused", "unavailable"}]
Handlers == [id : Nat, client : Clients, ask : Requests, at : Processes, secret : Nat,
             stage : Stages, code : Refusals \cup {Missing, "ok", "internal_error", "unauthorized", "unavailable"}]

ProcessType ==
    /\ phase \in [Processes -> Phases] /\ token \in [Processes -> Nat]
    /\ socket \in Processes \cup {Missing} /\ secretFile \in Nat \cup {Missing} /\ boots \in Nat

RequestType ==
    /\ work \subseteq Handlers /\ page \in [Clients -> PageStates] /\ sends \in Nat
    /\ effects = [done |-> effects.done, changed |-> effects.changed, last |-> effects.last]

Type == ProcessType /\ RequestType /\ app \in AppStates

ReachInv ==
    /\ \A p, q \in Processes : p # q /\ phase[p] # "off" => phase[q] = "off"
    /\ \A p \in Processes : Live(p) => socket = p
    /\ \A p \in Processes : phase[p] = "serving" => secretFile = token[p]

CheckInv ==
    \A w \in work : w.stage \in {"executing", "audit"} => phase[w.at] \in {"serving", "draining"}

(* Where an identifier may occur. *)
FreshInv ==
    /\ \A w \in work : w.id <= sends
    /\ \A i \in effects.changed : i \in Nat /\ i <= sends
    /\ \A c \in Clients : page[c].id <= sends
    /\ \A c, d \in Clients : c # d /\ page[c].id = page[d].id => page[c].id = 0
    /\ \A v, w \in work : v.id = w.id => v = w
    /\ \A c \in Clients : page[c].pc = "dialling" =>
          /\ page[c].id # 0 /\ page[c].told = Missing /\ page[c].ask # Missing
          /\ page[c].id \notin effects.changed
          /\ \A w \in work : w.id # page[c].id

(* What is known of a request by the stage of its handler. *)
StageInv ==
    \A w \in work :
       /\ w.stage # "reply" => w.id \notin effects.changed /\ w.code = Missing
       /\ w.stage = "reply" =>
             /\ w.code = "ok" => w.id \in effects.done
             /\ w.id \in effects.changed => w.code \in {"ok", "internal_error"}
       /\ w.stage \in {"scope", "store"} => w.ask.method # "check"

AnswerInv == FreshInv /\ StageInv /\ TruthfulAnswer

RepeatInv ==
    effects.last # Missing =>
       /\ effects.last \in Requests /\ effects.last.method # "check"
       /\ \A o \in Outcomes(effects.last, app) : o.app = app

ApiInv == Type /\ ReachInv /\ CheckInv /\ AnswerInv /\ RepeatInv

-------------------------------------------------------------------------------
(* What the handlers do *)

(* Of a request that a transaction may serve: what it leaves is a state of *)
(* the store, a refusal leaves it alone, and a repetition of a request     *)
(* that changed it changes nothing.                                        *)
Serves(ask, a) ==
    \A o \in Outcomes(ask, a) :
       /\ o.app \in AppStates /\ o.code \in Refusals \cup {"ok", "unavailable"}
       /\ o.code # "ok" => o.app = a
       /\ o.app # a => \A u \in Outcomes(ask, o.app) : u.app = o.app

LEMMA OutcomeFields ==
  /\ \A c, a : Refused(c, a).code = c /\ Refused(c, a).app = a
  /\ \A a : Ok(a).code = "ok" /\ Ok(a).app = a
BY Zenon DEF Refused, Ok

LEMMA NetworkServes ==
  ASSUME NEW a \in AppStates, NEW ask \in Requests,
         ask.method \in {"enroll", "retire", "enable", "disable"}
  PROVE  Serves(ask, a)
<1>0. /\ Missing \notin Nat /\ Missing \notin [id : Nat, on : Args("enroll")]
      /\ a.network \in [id : Nat, on : Args("enroll")] \cup {Missing} /\ a.scopes \in Nat
      /\ a.watched \in Nat \cup {Missing}
  BY ControlApiAssumption, Zenon DEF AppStates
<1>1. \A b : Outcomes(ask, b) = NetworkOutcomes(ask, b)
  BY Zenon DEF Outcomes, DeviceMethods
<1>2. CASE ask.method = "enroll"
  <2>1. ask.arg \in Args("enroll")  BY <1>2, Zenon DEF Args
  <2>2. \A b : Outcomes(ask, b) = EnrollNetwork(ask.arg, b)  BY <1>1, <1>2, Zenon DEF NetworkOutcomes
  <2>3. CASE a.network # Missing
    <3>1. EnrollNetwork(ask.arg, a) \subseteq {Refused("precondition_failed", a), Refused("conflict", a), Ok(a)}
      BY <2>3, Zenon DEF EnrollNetwork
    <3>2. \A o \in Outcomes(ask, a) : o.app = a /\ o.code \in {"precondition_failed", "ok", "conflict"}
      BY <2>2, <3>1, OutcomeFields
    <3>3. QED  BY <3>2, Zenon DEF Serves, Refusals
  <2>4. CASE a.network = Missing
    <3> DEFINE n == [id |-> a.scopes + 1, on |-> ask.arg]
               b == [a EXCEPT !.network = n, !.scopes = a.scopes + 1]
    <3>1. n \in [id : Nat, on : Args("enroll")]  BY <2>1, <1>0
    <3>2. b \in AppStates /\ b.network = n  BY <3>1, <1>0, Zenon DEF AppStates
    <3>3. b.network # Missing /\ b.network.on = ask.arg  BY <3>1, <3>2, <1>0
    <3>4. EnrollNetwork(ask.arg, a) = {Refused("precondition_failed", a), Ok(b)}
      BY <2>4, Zenon DEF EnrollNetwork
    <3> HIDE DEF b
    <3>5. EnrollNetwork(ask.arg, b) = {Refused("precondition_failed", b), Ok(b)}
      BY <3>3, Zenon DEF EnrollNetwork
    <3>6. \A u \in Outcomes(ask, b) : u.app = b  BY <2>2, <3>5, OutcomeFields
    <3>7. \A o \in Outcomes(ask, a) : (o.code = "ok" /\ o.app = b) \/ (o.code = "precondition_failed" /\ o.app = a)
      BY <2>2, <3>4, OutcomeFields
    <3>8. QED  BY <3>2, <3>6, <3>7, Zenon DEF Serves, Refusals
  <2>5. QED  BY <2>3, <2>4, Zenon
<1>3. CASE ask.method = "retire"
  <2>1. \A b : Outcomes(ask, b) = RetireNetwork(ask.arg, b)  BY <1>1, <1>3, Zenon DEF NetworkOutcomes
  <2> DEFINE b == [a EXCEPT !.network = Missing]
  <2>2. b \in AppStates /\ b.network = Missing /\ b.watched = a.watched  BY Zenon DEF AppStates
  <2>3. CASE a.watched = Missing /\ a.network # Missing
    <3>1. \A o \in Outcomes(ask, a) : (o.code = "ok" /\ o.app = b) \/ (o.code = "conflict" /\ o.app = a)
      BY <2>1, <2>3 DEF RetireNetwork, Refused, Ok
    <3>2. \A u \in Outcomes(ask, b) : u.app = b  BY <2>1, <2>2, <2>3 DEF RetireNetwork, Refused, Ok
    <3>3. QED  BY <2>2, <3>1, <3>2, Zenon DEF Serves, Refusals
  <2>4. CASE ~(a.watched = Missing /\ a.network # Missing)
    <3>1. \A o \in Outcomes(ask, a) : o.app = a /\ o.code \in {"ok", "precondition_failed"}
      BY <2>1, <2>4 DEF RetireNetwork, Refused, Ok
    <3>2. QED  BY <3>1, Zenon DEF Serves, Refusals
  <2>5. QED  BY <2>3, <2>4, Zenon
<1>4. CASE ask.method = "enable"
  <2>1. \A b : Outcomes(ask, b) = EnableDeviceWatch(b)  BY <1>1, <1>4, Zenon DEF NetworkOutcomes
  <2>2. CASE a.watched = Missing /\ a.network # Missing
    <3> DEFINE b == [a EXCEPT !.watched = a.network.id]
    <3>1. a.network.id \in Nat  BY <1>0, <2>2, Zenon
    <3>2. b \in AppStates /\ b.watched # Missing  BY <3>1, <1>0, Zenon DEF AppStates
    <3>3. EnableDeviceWatch(a) = {Ok(b)}  BY <2>2, Zenon DEF EnableDeviceWatch
    <3> HIDE DEF b
    <3>4. EnableDeviceWatch(b) = {Ok(b)}  BY <3>2, Zenon DEF EnableDeviceWatch
    <3>5. QED  BY <2>1, <3>2, <3>3, <3>4, OutcomeFields DEF Serves
  <2>3. CASE ~(a.watched = Missing /\ a.network # Missing)
    <3>1. \A o \in Outcomes(ask, a) : o.app = a /\ o.code \in {"ok", "precondition_failed"}
      BY <2>1, <2>3 DEF EnableDeviceWatch, Refused, Ok
    <3>2. QED  BY <3>1 DEF Serves, Refusals
  <2>4. QED  BY <2>2, <2>3
<1>5. CASE ask.method = "disable"
  <2> DEFINE b == [a EXCEPT !.watched = Missing]
  <2>1. \A x : Outcomes(ask, x) = DisableDeviceWatch(x)  BY <1>1, <1>5, Zenon DEF NetworkOutcomes
  <2>2. b \in AppStates /\ [b EXCEPT !.watched = Missing] = b  BY Zenon DEF AppStates
  <2>3. QED  BY <2>1, <2>2 DEF Serves, DisableDeviceWatch, Ok
<1>6. QED  BY <1>2, <1>3, <1>4, <1>5, Zenon

LEMMA DeviceServes ==
  ASSUME NEW a \in AppStates, NEW ask \in Requests, ask.method \in DeviceMethods
  PROVE  Serves(ask, a)
<1>1. \A b : Outcomes(ask, b) = DeviceOutcomes(ask, b)
  BY Zenon DEF Outcomes, DeviceMethods
<1>2. CASE ask.method = "label"
  <2> DEFINE b == [a EXCEPT !.label = ask.arg]
  <2>1. \A x : Outcomes(ask, x) = LabelDevice(ask.arg, x)  BY <1>1, <1>2, Zenon DEF DeviceOutcomes
  <2>2. b \in AppStates /\ [b EXCEPT !.label = ask.arg] = b  BY <1>2, Zenon DEF AppStates, Args
  <2>3. \A u \in Outcomes(ask, b) : u.app = b  BY <2>1, <2>2 DEF LabelDevice, Refused, Ok
  <2>4. \A o \in Outcomes(ask, a) : (o.code = "not_found" /\ o.app = a) \/ (o.code = "ok" /\ o.app = b)
    BY <2>1 DEF LabelDevice, Refused, Ok
  <2>5. QED  BY <2>2, <2>3, <2>4, Zenon DEF Serves, Refusals
<1>3. CASE ask.method = "merge"
  <2> DEFINE b == [a EXCEPT !.merged = ask.arg]
  <2>1. \A x : Outcomes(ask, x) = MergeDevices(ask.arg, x)  BY <1>1, <1>3, Zenon DEF DeviceOutcomes
  <2>2. b \in AppStates /\ [b EXCEPT !.merged = ask.arg] = b  BY <1>3, Zenon DEF AppStates, Args
  <2>3. \A u \in Outcomes(ask, b) : u.app = b  BY <2>1, <2>2 DEF MergeDevices, Refused, Ok
  <2>4. \A o \in Outcomes(ask, a) : (o.code = "conflict" /\ o.app = a) \/ (o.code = "ok" /\ o.app = b)
    BY <2>1 DEF MergeDevices, Refused, Ok
  <2>5. QED  BY <2>2, <2>3, <2>4, Zenon DEF Serves, Refusals
<1>4. CASE ask.method = "split"
  <2> DEFINE b == [a EXCEPT !.split = ask.arg]
  <2>1. \A x : Outcomes(ask, x) = SplitDeviceObservation(ask.arg, x)  BY <1>1, <1>4, Zenon DEF DeviceOutcomes
  <2>2. b \in AppStates /\ [b EXCEPT !.split = ask.arg] = b  BY <1>4, Zenon DEF AppStates, Args
  <2>3. \A u \in Outcomes(ask, b) : u.app = b  BY <2>1, <2>2 DEF SplitDeviceObservation, Refused, Ok
  <2>4. \A o \in Outcomes(ask, a) : (o.code = "conflict" /\ o.app = a) \/ (o.code = "ok" /\ o.app = b)
    BY <2>1 DEF SplitDeviceObservation, Refused, Ok
  <2>5. QED  BY <2>2, <2>3, <2>4, Zenon DEF Serves, Refusals
<1>5. CASE ask.method = "unmerge"
  <2> DEFINE b == [a EXCEPT !.merged = Missing]
  <2>1. \A x : Outcomes(ask, x) = UnmergeDevices(x)  BY <1>1, <1>5, Zenon DEF DeviceOutcomes
  <2>2. b \in AppStates /\ [b EXCEPT !.merged = Missing] = b  BY Zenon DEF AppStates
  <2>3. QED  BY <2>1, <2>2 DEF Serves, UnmergeDevices, Ok
<1>6. CASE ask.method = "unsplit"
  <2> DEFINE b == [a EXCEPT !.split = Missing]
  <2>1. \A x : Outcomes(ask, x) = UnsplitDeviceObservation(x)  BY <1>1, <1>6, Zenon DEF DeviceOutcomes
  <2>2. b \in AppStates /\ [b EXCEPT !.split = Missing] = b  BY Zenon DEF AppStates
  <2>3. QED  BY <2>1, <2>2 DEF Serves, UnsplitDeviceObservation, Ok
<1>7. QED  BY <1>2, <1>3, <1>4, <1>5, <1>6, Zenon DEF DeviceMethods

LEMMA OtherServes ==
  ASSUME NEW a \in AppStates, NEW ask \in Requests, ask.method \in {"acknowledge", "save", "unsave"}
  PROVE  Serves(ask, a)
<1>1. CASE ask.method = "acknowledge"
  <2> DEFINE b == [a EXCEPT !.acknowledged = TRUE]
  <2>1. \A x : Outcomes(ask, x) = AcknowledgeArrivalFinding(x)  BY <1>1, Zenon DEF Outcomes, DeviceMethods
  <2>2. b \in AppStates /\ [b EXCEPT !.acknowledged = TRUE] = b  BY Zenon DEF AppStates
  <2>3. AcknowledgeArrivalFinding(a) = {Refused("not_found", a), Ok(b)}
    BY Zenon DEF AcknowledgeArrivalFinding
  <2>4. AcknowledgeArrivalFinding(b) = {Refused("not_found", b), Ok(b)}
    BY <2>2, Zenon DEF AcknowledgeArrivalFinding
  <2> HIDE DEF b
  <2>5. \A u \in Outcomes(ask, b) : u.app = b  BY <2>1, <2>4, OutcomeFields
  <2>6. \A o \in Outcomes(ask, a) : (o.code = "not_found" /\ o.app = a) \/ (o.code = "ok" /\ o.app = b)
    BY <2>1, <2>3, OutcomeFields
  <2>7. QED  BY <2>2, <2>5, <2>6, Zenon DEF Serves, Refusals
<1>2. CASE ask.method = "save"
  <2> DEFINE b == [a EXCEPT !.saved = @ \cup {ask.arg}]
  <2>1. \A x : Outcomes(ask, x) = SaveSelection(ask.arg, x)
    BY <1>2, Zenon DEF Outcomes, DeviceMethods, SelectionOutcomes
  <2>2. b \in AppStates /\ b.saved = a.saved \cup {ask.arg}  BY <1>2 DEF AppStates, Args
  <2>3. b.saved \cup {ask.arg} = b.saved  BY <2>2, Zenon
  <2>4. [b EXCEPT !.saved = @ \cup {ask.arg}] = b  BY <2>2, <2>3, Zenon DEF AppStates
  <2>5. SaveSelection(ask.arg, a) \subseteq {Refused("unavailable", a), Ok(b)}  BY Zenon DEF SaveSelection
  <2>6. SaveSelection(ask.arg, b) \subseteq {Refused("unavailable", b), Ok(b)}
    BY <2>4, Zenon DEF SaveSelection
  <2> HIDE DEF b
  <2>7. \A u \in Outcomes(ask, b) : u.app = b  BY <2>1, <2>6, OutcomeFields
  <2>8. \A o \in Outcomes(ask, a) : (o.code = "unavailable" /\ o.app = a) \/ (o.code = "ok" /\ o.app = b)
    BY <2>1, <2>5, OutcomeFields
  <2>9. QED  BY <2>2, <2>7, <2>8, Zenon DEF Serves, Refusals
<1>3. CASE ask.method = "unsave"
  <2> DEFINE b == [a EXCEPT !.saved = @ \ {ask.arg}]
  <2>1. \A x : Outcomes(ask, x) = RetireSelection(ask.arg, x)
    BY <1>3, Zenon DEF Outcomes, DeviceMethods, SelectionOutcomes
  <2>2. b \in AppStates /\ b.saved = a.saved \ {ask.arg}  BY Zenon DEF AppStates
  <2>3. b.saved \ {ask.arg} = b.saved  BY <2>2, Zenon
  <2>4. [b EXCEPT !.saved = @ \ {ask.arg}] = b  BY <2>2, <2>3, Zenon DEF AppStates
  <2>5. RetireSelection(ask.arg, a) = {Ok(b)}  BY Zenon DEF RetireSelection
  <2>6. RetireSelection(ask.arg, b) = {Ok(b)}  BY <2>4, Zenon DEF RetireSelection
  <2> HIDE DEF b
  <2>7. QED  BY <2>1, <2>2, <2>5, <2>6, OutcomeFields DEF Serves
<1>4. QED  BY <1>1, <1>2, <1>3, Zenon

LEMMA RequestServes ==
  ASSUME NEW a \in AppStates, NEW ask \in Requests, ask.method # "check"
  PROVE  Serves(ask, a)
<1>1. ask.method \in Methods  BY ControlApiAssumption, Zenon
<1>2. QED  BY <1>1, NetworkServes, DeviceServes, OtherServes, Zenon DEF Methods, DeviceMethods

(* A handler that goes on is the same request at another stage: it leaves  *)
(* the store alone, or it has committed, or it has recorded its run.       *)
Moved(w, v) ==
    /\ v \in Handlers /\ work' = (work \ {w}) \cup {v} /\ w.stage # "reply"
    /\ v.id = w.id /\ v.client = w.client /\ v.ask = w.ask /\ v.at = w.at

Quiet(w, v) ==
    /\ UNCHANGED <<app, effects>> /\ v.code # "ok"
    /\ v.stage \in {"scope", "store"} => v.ask.method # "check" \/ w.stage = "scope"
    /\ v.stage \in {"executing", "audit"} => phase[w.at] = "serving" \/ w.stage = "executing"

Committed(w, v) ==
    /\ w.stage = "store" /\ v.stage = "reply"
    /\ \E o \in Outcomes(w.ask, app) :
          /\ app' = o.app
          /\ v.code = o.code \/ (o.code = "ok" /\ v.code = "internal_error")
          /\ effects' = [done |-> effects.done \cup (IF o.code = "ok" THEN {w.id} ELSE {}),
                         changed |-> effects.changed \cup (IF o.app # app THEN {w.id} ELSE {}),
                         last |-> IF o.app # app THEN w.ask ELSE effects.last]

Recorded(w, v) ==
    /\ w.stage = "audit" /\ v.stage = "reply" /\ v.code = "ok" /\ UNCHANGED app
    /\ effects' = [effects EXCEPT !.done = @ \cup {w.id}]

LEMMA Becoming ==
  ASSUME NEW w \in Handlers, NEW s
  PROVE  /\ Becomes(w, [stage |-> s]) => work' = (work \ {w}) \cup {[w EXCEPT !.stage = s]}
         /\ \A c : Coded(w, c) => work' = (work \ {w}) \cup {[w EXCEPT !.stage = "reply", !.code = c]}
<1>1. DOMAIN w = {"id", "client", "ask", "at", "secret", "stage", "code"}
  BY Zenon DEF Handlers
<1>2. [f \in DOMAIN w |-> IF f \in DOMAIN [stage |-> s] THEN [stage |-> s][f] ELSE w[f]] = [w EXCEPT !.stage = s]
  BY <1>1 DEF Handlers
<1>3. ASSUME NEW c
      PROVE  [f \in DOMAIN w |-> IF f \in DOMAIN [stage |-> "reply", code |-> c]
                                    THEN [stage |-> "reply", code |-> c][f] ELSE w[f]]
             = [w EXCEPT !.stage = "reply", !.code = c]
  <2>1. /\ DOMAIN [stage |-> "reply", code |-> c] = {"stage", "code"}
        /\ [stage |-> "reply", code |-> c]["stage"] = "reply" /\ [stage |-> "reply", code |-> c]["code"] = c
    BY Zenon
  <2>2. w = [f \in DOMAIN w |-> w[f]]  BY Zenon DEF Handlers
  <2>3. [w EXCEPT !.stage = "reply", !.code = c]
        = [f \in DOMAIN w |-> IF f = "code" THEN c ELSE IF f = "stage" THEN "reply" ELSE w[f]]
    BY <1>1, <2>2, Zenon
  <2>4. QED  BY <1>1, <2>1, <2>3, Zenon
<1>4. QED  BY <1>2, <1>3, Zenon DEF Becomes, Coded

LEMMA Staged ==
  ASSUME NEW w \in Handlers, NEW s \in Stages, w.stage # "reply", Becomes(w, [stage |-> s])
  PROVE  \E v : Moved(w, v) /\ v.stage = s /\ v.code = w.code
<1>1. work' = (work \ {w}) \cup {[w EXCEPT !.stage = s]}  BY Becoming, Zenon
<1>2. [w EXCEPT !.stage = s] \in Handlers  BY Zenon DEF Handlers
<1>3. Moved(w, [w EXCEPT !.stage = s])  BY <1>1, <1>2, Zenon DEF Moved, Handlers
<1>4. QED  BY <1>3 DEF Handlers

LEMMA Replied ==
  ASSUME NEW w \in Handlers, w.stage # "reply",
         NEW c \in Refusals \cup {"ok", "internal_error", "unauthorized", "unavailable"}, Coded(w, c)
  PROVE  \E v : Moved(w, v) /\ v.stage = "reply" /\ v.code = c
<1>1. work' = (work \ {w}) \cup {[w EXCEPT !.stage = "reply", !.code = c]}  BY Becoming, Zenon
<1> DEFINE v == [w EXCEPT !.stage = "reply", !.code = c]
<1>2. v \in Handlers  BY Zenon DEF Handlers, Stages
<1>3. v.stage = "reply" /\ v.code = c /\ v.id = w.id /\ v.client = w.client /\ v.ask = w.ask /\ v.at = w.at
  BY Zenon DEF Handlers
<1> HIDE DEF v
<1>4. Moved(w, v)  BY <1>1, <1>2, <1>3, Zenon DEF Moved, v
<1>5. QED  BY <1>3, <1>4, Zenon

LEMMA HandlerSteps ==
  ASSUME Type, StageInv, NEW w \in work, Handles(w)
  PROVE  \E v : /\ Moved(w, v) /\ (Quiet(w, v) \/ Committed(w, v) \/ Recorded(w, v))
                /\ v.stage # "reply" => v.code = Missing
<1>0. /\ w \in Handlers /\ Missing # "ok" /\ w.ask \in Requests /\ w.ask.method \in Methods
      /\ w.stage # "reply" => w.code = Missing
      /\ w.stage \in {"scope", "store"} => w.ask.method # "check"
  BY ControlApiAssumption, Zenon DEF Type, RequestType, StageInv, Handlers
<1>1. CASE HandleConn(w)
  <2>0. w.stage = "accepted" /\ UNCHANGED <<app, effects>>  BY <1>1, Zenon DEF HandleConn
  <2>1. CASE Coded(w, "unauthorized")
    BY <1>0, <2>0, <2>1, Replied DEF Quiet
  <2>2. CASE w.ask.method = "check" /\ Becomes(w, [stage |-> "current"])
    BY <1>0, <2>0, <2>2, Staged DEF Quiet, Stages
  <2>3. CASE w.ask.method \in DeviceMethods /\ Becomes(w, [stage |-> "scope"])
    <3>1. PICK v : Moved(w, v) /\ v.stage = "scope" /\ v.code = w.code
      BY <1>0, <2>0, <2>3, Staged, Zenon DEF Stages
    <3>2. v.ask.method # "check"  BY <3>1, <2>3, Zenon DEF Moved, DeviceMethods
    <3>3. QED  BY <1>0, <2>0, <3>1, <3>2, Zenon DEF Quiet
  <2>4. CASE w.ask.method # "check" /\ Becomes(w, [stage |-> "store"])
    <3>1. PICK v : Moved(w, v) /\ v.stage = "store" /\ v.code = w.code
      BY <1>0, <2>0, <2>4, Staged, Zenon DEF Stages
    <3>2. v.ask.method # "check"  BY <3>1, <2>4, Zenon DEF Moved
    <3>3. QED  BY <1>0, <2>0, <3>1, <3>2, Zenon DEF Quiet
  <2>5. QED  BY <1>1, <2>1, <2>2, <2>3, <2>4, Zenon DEF HandleConn
<1>2. CASE CurrentScope(w)
  <2>0. w.stage = "scope" /\ UNCHANGED <<app, effects>>  BY <1>2, Zenon DEF CurrentScope
  <2>1. CASE Coded(w, "not_found")
    BY <1>0, <2>0, <2>1, Replied DEF Quiet, Refusals
  <2>2. CASE Becomes(w, [stage |-> "store"])
    BY <1>0, <2>0, <2>2, Staged DEF Quiet, Stages
  <2>3. QED  BY <1>2, <2>1, <2>2, Zenon DEF CurrentScope
<1>3. CASE Commits(w)
  <2>0. w.stage = "store"  BY <1>3, Zenon DEF Commits
  <2>1. CASE Coded(w, "internal_error") /\ UNCHANGED <<app, effects>>
    BY <1>0, <2>0, <2>1, Replied DEF Quiet
  <2>2. ASSUME NEW o \in Outcomes(w.ask, app), app' = o.app,
               Coded(w, o.code) \/ (o.code = "ok" /\ Coded(w, "internal_error")),
               effects' = [done |-> effects.done \cup (IF o.code = "ok" THEN {w.id} ELSE {}),
                           changed |-> effects.changed \cup (IF o.app # app THEN {w.id} ELSE {}),
                           last |-> IF o.app # app THEN w.ask ELSE effects.last]
        PROVE  \E v : Moved(w, v) /\ Committed(w, v) /\ v.stage = "reply"
    <3>1. o.code \in Refusals \cup {"ok", "unavailable"}
      BY <1>0, <2>0, RequestServes, Zenon DEF Serves, Type
    <3>2. PICK c \in {o.code, "internal_error"} :
             Coded(w, c) /\ (c = o.code \/ (o.code = "ok" /\ c = "internal_error"))
      BY <2>2, Zenon
    <3>3. PICK v : Moved(w, v) /\ v.stage = "reply" /\ v.code = c
      BY <1>0, <2>0, <3>1, <3>2, Replied
    <3>4. Committed(w, v)  BY <2>0, <2>2, <3>2, <3>3, Zenon DEF Committed
    <3>5. QED  BY <3>3, <3>4, Zenon
  <2>3. QED  BY <1>3, <2>1, <2>2, Zenon DEF Commits
<1>4. CASE CurrentCoordinator(w)
  <2>0. w.stage = "current" /\ UNCHANGED <<app, effects>>  BY <1>4, Zenon DEF CurrentCoordinator
  <2>1. CASE Coded(w, "unavailable")
    BY <1>0, <2>0, <2>1, Replied DEF Quiet
  <2>2. CASE Becomes(w, [stage |-> "found"])
    BY <1>0, <2>0, <2>2, Staged DEF Quiet, Stages
  <2>3. QED  BY <1>4, <2>1, <2>2, Zenon DEF CurrentCoordinator
<1>5. CASE Admits(w)
  <2>0. w.stage = "found" /\ UNCHANGED <<app, effects>>  BY <1>5, Zenon DEF Admits
  <2>1. CASE Coded(w, "unavailable")
    BY <1>0, <2>0, <2>1, Replied DEF Quiet
  <2>2. CASE phase[w.at] = "serving" /\ Becomes(w, [stage |-> "executing"])
    BY <1>0, <2>0, <2>2, Staged DEF Quiet, Stages
  <2>3. QED  BY <1>5, <2>1, <2>2, Zenon DEF Admits
<1>6. CASE Executes(w)
  <2>0. w.stage = "executing" /\ UNCHANGED <<app, effects>> /\ Becomes(w, [stage |-> "audit"])
    BY <1>6, Zenon DEF Executes
  <2>1. QED  BY <1>0, <2>0, Staged DEF Quiet, Stages
<1>7. CASE RecordsRun(w)
  <2>0. w.stage = "audit" /\ UNCHANGED app  BY <1>7, Zenon DEF RecordsRun
  <2>1. CASE Coded(w, "ok") /\ effects' = [effects EXCEPT !.done = @ \cup {w.id}]
    BY <1>0, <2>0, <2>1, Replied DEF Recorded
  <2>2. CASE Coded(w, "internal_error") /\ UNCHANGED effects
    BY <1>0, <2>0, <2>2, Replied DEF Quiet
  <2>3. QED  BY <1>7, <2>1, <2>2, Zenon DEF RecordsRun
<1>8. QED  BY <1>1, <1>2, <1>3, <1>4, <1>5, <1>6, <1>7, Zenon DEF Handles

-------------------------------------------------------------------------------
(* The steps *)

LEMMA Submitting ==
  ASSUME NEW c, NEW ms \in SUBSET Methods, Submit(c, ms)
  PROVE  Submit(c, Methods)
BY Zenon DEF Submit

LEMMA StepCases ==
  ASSUME ControlApiNext
  PROVE  \/ \E p \in Processes : ProcessStep(p) \/ ProcessStops(p)
         \/ \E c \in Clients : ConsumeBootstrap(c) \/ Submit(c, Methods) \/ Serve(c) \/ ClientTimesOut(c)
         \/ \E w \in work : Handles(w) \/ Replies(w)
<1>1. ASSUME NEW c \in Clients,
             \/ WebNetworkEnroll(c) \/ WebNetworkRetire(c) \/ WebDeviceWatch(c) \/ WebDeviceLabel(c)
             \/ WebDeviceIdentity(c) \/ WebDeviceSplit(c) \/ WebAcknowledge(c)
             \/ WebResolverSave(c) \/ WebResolverRetire(c) \/ WebHTTPSSave(c) \/ WebHTTPSRetire(c)
      PROVE  Submit(c, Methods)
  BY <1>1, Submitting, Zenon DEF WebNetworkEnroll, WebNetworkRetire, WebDeviceWatch, WebDeviceLabel,
     WebDeviceIdentity, WebDeviceSplit, WebAcknowledge, WebResolverSave, WebResolverRetire,
     WebHTTPSSave, WebHTTPSRetire, WebSubmit, Methods
<1>2. ASSUME NEW c \in Clients,
             \/ NetworkEnrollCommand(c) \/ NetworkRetireCommand(c) \/ DeviceLabelCommand(c)
             \/ DeviceMergeCommand(c) \/ DeviceSplitCommand(c)
             \/ ResolverCommand(c) \/ HTTPSCommand(c) \/ CheckCommand(c)
      PROVE  Submit(c, Methods)
  BY <1>2, Submitting, Zenon DEF NetworkEnrollCommand, NetworkRetireCommand, DeviceLabelCommand,
     DeviceMergeCommand, DeviceSplitCommand, ResolverCommand, HTTPSCommand, CheckCommand,
     CommandSubmit, Methods
<1>3. QED  BY <1>1, <1>2, Zenon DEF ControlApiNext

(* What a step may do to the pages. *)
LEMMA Hanging ==
  ASSUME Type, NEW C, Hangs(C)
  PROVE  /\ page' \in [Clients -> PageStates]
         /\ \A c \in Clients : page'[c].id = page[c].id
         /\ \A c \in Clients : page'[c] = page[c] \/ (page'[c].pc = "idle" /\ page'[c].told = "unavailable")
<1>1. page \in [Clients -> PageStates]  BY Zenon DEF Type, RequestType
<1>2. \A c \in Clients : [page[c] EXCEPT !.pc = "idle", !.told = "unavailable"] \in PageStates
  BY <1>1 DEF PageStates
<1>3. \A c \in Clients : page'[c] = IF c \in C THEN [page[c] EXCEPT !.pc = "idle", !.told = "unavailable"] ELSE page[c]
  BY Zenon DEF Hangs
<1>4. page' \in [Clients -> PageStates]  BY <1>1, <1>2, Zenon DEF Hangs
<1>5. QED  BY <1>1, <1>3, <1>4, Zenon DEF PageStates

LEMMA Telling ==
  ASSUME Type, NEW c \in Clients, NEW x \in {"ok", "refused", "unavailable"}, Told(c, x)
  PROVE  /\ page' \in [Clients -> PageStates]
         /\ page'[c].id = page[c].id /\ page'[c].pc = "idle" /\ page'[c].told = x
         /\ \A d \in Clients \ {c} : page'[d] = page[d]
<1>1. page[c] \in PageStates /\ page \in [Clients -> PageStates]  BY Zenon DEF Type, RequestType
<1> DEFINE new == [page[c] EXCEPT !.pc = "idle", !.told = x]
<1>2. new \in PageStates /\ new.id = page[c].id /\ new.pc = "idle" /\ new.told = x
  BY <1>1, Zenon DEF PageStates
<1>3. page' = [page EXCEPT ![c] = new]  BY <1>1, Zenon DEF Told, PageStates
<1> HIDE DEF new
<1>4. QED  BY <1>1, <1>2, <1>3, Zenon

LEMMA Answers ==
  ASSUME NEW ask, NEW code
  PROVE  /\ AnswerFor(ask, code) \in {"ok", "refused", "unavailable"}
         /\ AnswerFor(ask, code) = "ok" => code = "ok"
         /\ AnswerFor(ask, code) = "refused" => code \in Refusals
BY Zenon DEF AnswerFor, SelectionAnswer, WriteMutationControllerError

LEMMA SubmitSteps ==
  ASSUME Type, NEW c \in Clients, Submit(c, Methods)
  PROVE  /\ sends' = sends + 1 /\ page' \in [Clients -> PageStates]
         /\ page'[c].id = sends + 1 /\ page'[c].told \in {Missing, "unavailable"}
         /\ page'[c].pc = "dialling" => page'[c].told = Missing /\ page'[c].ask \in Requests
         /\ \A d \in Clients \ {c} : page'[d] = page[d]
         /\ UNCHANGED <<process, app, work, effects>>
<1>1. PICK ask \in Requests :
        /\ sends' = sends + 1
        /\ page' = [page EXCEPT ![c] =
              IF secretFile = Missing THEN [pc |-> "idle", id |-> sends + 1, ask |-> ask, secret |-> 0, told |-> "unavailable"]
              ELSE [pc |-> "dialling", id |-> sends + 1, ask |-> ask, secret |-> secretFile, told |-> Missing]]
        /\ UNCHANGED <<process, app, work, effects>>
  BY Zenon DEF Submit
<1> DEFINE new == IF secretFile = Missing THEN [pc |-> "idle", id |-> sends + 1, ask |-> ask, secret |-> 0, told |-> "unavailable"]
                  ELSE [pc |-> "dialling", id |-> sends + 1, ask |-> ask, secret |-> secretFile, told |-> Missing]
<1>2. sends \in Nat /\ secretFile \in Nat \cup {Missing} /\ page \in [Clients -> PageStates]
  BY Zenon DEF Type, RequestType, ProcessType
<1>3. new \in PageStates  BY <1>2 DEF PageStates
<1>4. /\ new.id = sends + 1 /\ new.told \in {Missing, "unavailable"}
      /\ new.pc = "dialling" => new.told = Missing /\ new.ask \in Requests
  BY Zenon
<1>5. page' = [page EXCEPT ![c] = new]  BY <1>1, Zenon
<1> HIDE DEF new
<1>6. QED  BY <1>1, <1>2, <1>3, <1>4, <1>5, Zenon

LEMMA ServeSteps ==
  ASSUME Type, FreshInv, NEW c \in Clients, Serve(c)
  PROVE  /\ page[c].pc = "dialling" /\ UNCHANGED <<process, app, sends, effects>>
         /\ \/ Told(c, "unavailable") /\ UNCHANGED work
            \/ /\ page' \in [Clients -> PageStates]
               /\ page'[c].pc = "waiting" /\ page'[c].id = page[c].id /\ page'[c].told = page[c].told
               /\ \A d \in Clients \ {c} : page'[d] = page[d]
               /\ \E h \in Handlers : /\ work' = work \cup {h} /\ h.id = page[c].id
                                      /\ h.stage = "accepted" /\ h.code = Missing
<1>1. page[c].pc = "dialling" /\ UNCHANGED <<process, app, sends, effects>>  BY Zenon DEF Serve
<1>2. CASE Told(c, "unavailable") /\ UNCHANGED work  BY <1>1, <1>2, Zenon
<1> DEFINE h == [id |-> page[c].id, client |-> c, ask |-> page[c].ask, at |-> socket,
                 secret |-> page[c].secret, stage |-> "accepted", code |-> Missing]
           new == [page[c] EXCEPT !.pc = "waiting"]
<1>3. CASE socket # Missing /\ work' = work \cup {h} /\ page' = [page EXCEPT ![c].pc = "waiting"]
  <2>1. /\ page \in [Clients -> PageStates] /\ page[c] \in PageStates /\ page[c].ask \in Requests
        /\ socket \in Processes
    BY <1>1, <1>3, Zenon DEF Type, RequestType, ProcessType, FreshInv, PageStates
  <2>2. h \in Handlers  BY <2>1, Zenon DEF Handlers, PageStates, Stages
  <2>3. h.id = page[c].id /\ h.stage = "accepted" /\ h.code = Missing  BY Zenon
  <2>4. new \in PageStates /\ new.pc = "waiting" /\ new.id = page[c].id /\ new.told = page[c].told
    BY <2>1, Zenon DEF PageStates
  <2>5. page' = [page EXCEPT ![c] = new]  BY <1>3, Zenon
  <2>6. work' = work \cup {h}  BY <1>3, Zenon
  <2> HIDE DEF new, h
  <2>7. page' \in [Clients -> PageStates] /\ page'[c] = new /\ \A d \in Clients \ {c} : page'[d] = page[d]
    BY <2>1, <2>4, <2>5, Zenon
  <2>8. QED  BY <1>1, <2>2, <2>3, <2>4, <2>6, <2>7, Zenon
<1>4. QED  BY <1>2, <1>3, Zenon DEF Serve

LEMMA TypeStep ==
  ASSUME Type, FreshInv, StageInv, [ControlApiNext]_controlApiVars
  PROVE  Type'
<1> USE DEF Type, process
<1>1. ASSUME NEW p \in Processes, ProcessStep(p)
      PROVE  Type'
  <2>1. UNCHANGED <<app, work, page, sends, effects>>  BY <1>1, Zenon DEF ProcessStep
  <2>2. RequestType'  BY <2>1, Zenon DEF RequestType
  <2>3. CASE PrepareSocket(p)  BY <2>1, <2>2, <2>3 DEF PrepareSocket, ProcessType, To, Phases
  <2>4. CASE NewServer(p)  BY <2>1, <2>2, <2>4, Zenon DEF NewServer, ProcessType, To, Phases
  <2>5. CASE CreateSessionSecret(p)  BY <2>1, <2>2, <2>5, Zenon DEF CreateSessionSecret, ProcessType, To, Phases
  <2>6. CASE DrainChecks(p)  BY <2>1, <2>2, <2>6, Zenon DEF DrainChecks, ProcessType, To, Phases
  <2>7. CASE CloseServer(p)  BY <2>1, <2>2, <2>7, Zenon DEF CloseServer, ProcessType
  <2>8. CASE CloseStore(p)  BY <2>1, <2>2, <2>8, Zenon DEF CloseStore, ProcessType, To, Phases
  <2>9. QED  BY <1>1, <2>3, <2>4, <2>5, <2>6, <2>7, <2>8, Zenon DEF ProcessStep
<1>2. ASSUME NEW p \in Processes, ProcessStops(p)
      PROVE  Type'
  <2>1. UNCHANGED <<app, sends, effects>> /\ Hangs(Waiting(p))  BY <1>2, Zenon DEF ProcessStops
  <2>2. page' \in [Clients -> PageStates]  BY <2>1, Hanging, Zenon
  <2>3. work' \subseteq work  BY <1>2, Zenon DEF ProcessStops, ProcessEnds
  <2>4. RequestType'  BY <2>1, <2>2, <2>3, Zenon DEF RequestType
  <2>5. CASE Stops(p)  BY <2>1, <2>4, <2>5, Zenon DEF Stops, ProcessType, To, Phases
  <2>6. CASE ProcessEnds(p)  BY <2>1, <2>4, <2>6, Zenon DEF ProcessEnds, Exits, Killed, ProcessType, To, Phases
  <2>7. QED  BY <1>2, <2>5, <2>6, Zenon DEF ProcessStops
<1>3. ASSUME NEW c \in Clients, ConsumeBootstrap(c)
      PROVE  Type'
  BY <1>3, Zenon DEF ConsumeBootstrap, ProcessType, RequestType
<1>4. ASSUME NEW c \in Clients, Submit(c, Methods)
      PROVE  Type'
  <2>1. /\ sends' = sends + 1 /\ page' \in [Clients -> PageStates] /\ UNCHANGED <<process, app, work, effects>>
    BY <1>4, SubmitSteps, Zenon
  <2>2. QED  BY <2>1 DEF ProcessType, RequestType
<1>5. ASSUME NEW c \in Clients, Serve(c)
      PROVE  Type'
  <2>1. /\ UNCHANGED <<process, app, sends, effects>>
        /\ page' \in [Clients -> PageStates] /\ work' \subseteq Handlers
    BY <1>5, ServeSteps, Telling, Zenon DEF RequestType
  <2>2. QED  BY <2>1, Zenon DEF ProcessType, RequestType
<1>6. ASSUME NEW c \in Clients, ClientTimesOut(c)
      PROVE  Type'
  <2>1. page' \in [Clients -> PageStates] /\ UNCHANGED <<process, app, work, sends, effects>>
    BY <1>6, Telling, Zenon DEF ClientTimesOut
  <2>2. QED  BY <2>1, Zenon DEF ProcessType, RequestType
<1>7. ASSUME NEW w \in work, Handles(w)
      PROVE  Type'
  <2>1. UNCHANGED <<process, page, sends>>  BY <1>7, Zenon DEF Handles
  <2>2. PICK v : Moved(w, v) /\ (Quiet(w, v) \/ Committed(w, v) \/ Recorded(w, v))
    BY <1>7, HandlerSteps, Zenon
  <2>3. work' \subseteq Handlers  BY <2>2, Zenon DEF Moved, RequestType
  <2>4. effects' = [done |-> effects'.done, changed |-> effects'.changed, last |-> effects'.last]
    BY <2>2, Zenon DEF Quiet, Committed, Recorded, RequestType
  <2>5. app' \in AppStates
    <3>1. CASE UNCHANGED app  BY <3>1, Zenon
    <3>2. CASE Committed(w, v)
      <4>1. w.ask \in Requests /\ w.ask.method # "check"
        BY <3>2, Zenon DEF Committed, StageInv, RequestType, Handlers
      <4>2. QED  BY <3>2, <4>1, RequestServes, Zenon DEF Committed, Serves
    <3>3. QED  BY <2>2, <3>1, <3>2, Zenon DEF Quiet, Recorded
  <2>6. QED  BY <2>1, <2>3, <2>4, <2>5, Zenon DEF ProcessType, RequestType
<1>8. ASSUME NEW w \in work, Replies(w)
      PROVE  Type'
  <2>1. UNCHANGED <<process, app, sends, effects>> /\ work' = work \ {w}  BY <1>8, Zenon DEF Replies
  <2>2. w.client \in Clients  BY Zenon DEF RequestType, Handlers
  <2>3. page' \in [Clients -> PageStates]
    <3>1. CASE UNCHANGED page  BY <3>1, Zenon DEF RequestType
    <3>2. CASE Told(w.client, AnswerFor(w.ask, w.code))  BY <2>2, <3>2, Telling, Answers, Zenon
    <3>3. QED  BY <1>8, <3>1, <3>2, Zenon DEF Replies
  <2>4. QED  BY <2>1, <2>3, Zenon DEF ProcessType, RequestType
<1>9. CASE UNCHANGED controlApiVars  BY <1>9, Zenon DEF controlApiVars, ProcessType, RequestType
<1>10. QED  BY <1>1, <1>2, <1>3, <1>4, <1>5, <1>6, <1>7, <1>8, <1>9, StepCases, Zenon

-------------------------------------------------------------------------------
(* Reach and shutdown *)

LEMMA OthersKeepStill ==
  ASSUME ControlApiNext, ~\E p \in Processes : ProcessStep(p) \/ ProcessStops(p)
  PROVE  UNCHANGED process
<1>1. \A c : ConsumeBootstrap(c) \/ Submit(c, Methods) \/ Serve(c) \/ ClientTimesOut(c) => UNCHANGED process
  BY Zenon DEF ConsumeBootstrap, Submit, Serve, ClientTimesOut
<1>2. \A w : Handles(w) \/ Replies(w) => UNCHANGED process
  BY Zenon DEF Handles, Replies
<1>3. QED  BY <1>1, <1>2, StepCases, Zenon

LEMMA ReachStep ==
  ASSUME Type, ReachInv, [ControlApiNext]_controlApiVars
  PROVE  ReachInv'
<1> USE DEF process
<1>0. /\ phase \in [Processes -> Phases] /\ token \in [Processes -> Nat] /\ Missing \notin Processes
      /\ socket \in Processes \cup {Missing}
  BY ControlApiAssumption, Zenon DEF Type, ProcessType
<1>1. CASE UNCHANGED process  BY <1>1, Zenon DEF ReachInv, Live
<1>2. ASSUME NEW p \in Processes, NEW f \in Phases, phase[p] # "off", To(p, f), f \notin {"listening", "serving"},
             \A q \in Processes \ {p} : Live(q) => socket' = socket,
             UNCHANGED <<token, secretFile>> \/ \A q \in Processes \ {p} : phase[q] = "off"
      PROVE  ReachInv'
  <2>1. phase'[p] = f /\ \A q \in Processes \ {p} : phase'[q] = phase[q]  BY <1>0, <1>2, Zenon DEF To
  <2>2. QED  BY <1>2, <2>1, Zenon DEF ReachInv, Live
<1>3. ASSUME NEW p \in Processes, PrepareSocket(p)
      PROVE  ReachInv'
  <2>1. CASE UNCHANGED <<socket, phase>>
    BY <1>3, <2>1, Zenon DEF PrepareSocket, ReachInv, Live
  <2>2. CASE ~(socket # Missing /\ Live(socket)) /\ socket' = Missing /\ To(p, "prepared")
    <3>1. \A q \in Processes : ~Live(q)  BY <1>0, <2>2, Zenon DEF ReachInv
    <3>2. \A q \in Processes \ {p} : phase[q] = "off"  BY <1>3, <3>1, Zenon DEF PrepareSocket, Settled, Live
    <3>3. phase'[p] = "prepared" /\ \A q \in Processes \ {p} : phase'[q] = "off"
      BY <1>0, <2>2, <3>2, Zenon DEF To
    <3>4. QED  BY <3>3, Zenon DEF ReachInv, Live
  <2>3. QED  BY <1>3, <2>1, <2>2, Zenon DEF PrepareSocket
<1>4. ASSUME NEW p \in Processes, NewServer(p)
      PROVE  ReachInv'
  <2>1. \A q \in Processes \ {p} : phase[q] = "off"  BY <1>4, Zenon DEF NewServer, ReachInv
  <2>2. phase'[p] = "listening" /\ socket' = p /\ \A q \in Processes \ {p} : phase'[q] = "off"
    BY <1>0, <1>4, <2>1, Zenon DEF NewServer, To
  <2>3. QED  BY <2>2, Zenon DEF ReachInv, Live
<1>5. ASSUME NEW p \in Processes, CreateSessionSecret(p)
      PROVE  ReachInv'
  <2>1. socket = p /\ \A q \in Processes \ {p} : phase[q] = "off"
    BY <1>5, Zenon DEF CreateSessionSecret, ReachInv, Live
  <2>2. /\ phase'[p] = "serving" /\ socket' = p /\ secretFile' = token'[p]
        /\ \A q \in Processes \ {p} : phase'[q] = "off"
    BY <1>0, <1>5, <2>1, Zenon DEF CreateSessionSecret, To
  <2>3. QED  BY <2>2, Zenon DEF ReachInv, Live
<1>6. ASSUME NEW p \in Processes, ProcessStep(p)
      PROVE  ReachInv'
  <2>1. CASE DrainChecks(p)  BY <1>2, <2>1, Zenon DEF DrainChecks, Phases
  <2>2. CASE CloseServer(p)
    <3>1. phase[p] = "closing" /\ \A q \in Processes \ {p} : phase[q] = "off"
      BY <2>2, Zenon DEF CloseServer, ReachInv
    <3>2. QED  BY <2>2, <3>1, Zenon DEF CloseServer, ReachInv, Live
  <2>3. CASE CloseStore(p)  BY <1>2, <2>3, Zenon DEF CloseStore, Phases
  <2>4. QED  BY <1>6, <1>3, <1>4, <1>5, <2>1, <2>2, <2>3, Zenon DEF ProcessStep
<1>7. ASSUME NEW p \in Processes, ProcessStops(p)
      PROVE  ReachInv'
  <2>1. CASE Stops(p)
    <3>1. \A q \in Processes \ {p} : Live(q) => socket' = socket  BY <2>1, Zenon DEF Stops, ReachInv, Live
    <3>2. QED  BY <1>2, <2>1, <3>1, Zenon DEF Stops, Phases
  <2>2. CASE ProcessEnds(p)  BY <1>2, <2>2, Zenon DEF ProcessEnds, Exits, Killed, Phases
  <2>3. QED  BY <1>7, <2>1, <2>2, Zenon DEF ProcessStops
<1>8. QED  BY <1>1, <1>6, <1>7, OthersKeepStill, Zenon DEF controlApiVars

LEMMA CheckStep ==
  ASSUME Type, StageInv, FreshInv, CheckInv, [ControlApiNext]_controlApiVars
  PROVE  CheckInv'
<1> USE DEF process
<1>0. /\ phase \in [Processes -> Phases] /\ work \subseteq Handlers
      /\ \A w \in work : w.at \in Processes
  BY Zenon DEF Type, ProcessType, RequestType, Handlers
<1>1. ASSUME UNCHANGED process, \A v \in work' \ work : v.stage \notin {"executing", "audit"}
      PROVE  CheckInv'
  BY <1>1, Zenon DEF CheckInv
<1>2. ASSUME NEW p \in Processes, ProcessStep(p)
      PROVE  CheckInv'
  <2>1. UNCHANGED work  BY <1>2, Zenon DEF ProcessStep
  <2>2. CASE UNCHANGED phase  BY <2>1, <2>2, Zenon DEF CheckInv
  <2>3. CASE PrepareSocket(p)  BY <1>0, <2>1, <2>2, <2>3, Zenon DEF PrepareSocket, To, CheckInv
  <2>4. CASE NewServer(p)  BY <1>0, <2>1, <2>4, Zenon DEF NewServer, To, CheckInv
  <2>5. CASE CreateSessionSecret(p)  BY <1>0, <2>1, <2>5, Zenon DEF CreateSessionSecret, To, CheckInv
  <2>6. CASE DrainChecks(p)  BY <1>0, <2>1, <2>6, Zenon DEF DrainChecks, Executing, To, CheckInv
  <2>7. CASE CloseServer(p)  BY <2>2, <2>7, Zenon DEF CloseServer
  <2>8. CASE CloseStore(p)  BY <1>0, <2>1, <2>8, Zenon DEF CloseStore, To, CheckInv
  <2>9. QED  BY <1>2, <2>3, <2>4, <2>5, <2>6, <2>7, <2>8, Zenon DEF ProcessStep
<1>3. ASSUME NEW p \in Processes, ProcessStops(p)
      PROVE  CheckInv'
  <2>1. CASE Stops(p) /\ UNCHANGED work  BY <1>0, <2>1, Zenon DEF Stops, To, CheckInv
  <2>2. CASE ProcessEnds(p)
    <3>1. \A q \in Processes \ {p} : phase'[q] = phase[q]  BY <1>0, <2>2, Zenon DEF ProcessEnds, Exits, Killed, To
    <3>2. work' = {w \in work : w.at # p}  BY <2>2, Zenon DEF ProcessEnds
    <3>3. QED  BY <1>0, <3>1, <3>2, Zenon DEF CheckInv
  <2>3. QED  BY <1>3, <2>1, <2>2, Zenon DEF ProcessStops
<1>4. ASSUME NEW c \in Clients, ConsumeBootstrap(c) \/ Submit(c, Methods) \/ ClientTimesOut(c)
      PROVE  CheckInv'
  BY <1>1, <1>4, Zenon DEF ConsumeBootstrap, Submit, ClientTimesOut
<1>5. ASSUME NEW c \in Clients, Serve(c)
      PROVE  CheckInv'
  BY <1>1, <1>5, ServeSteps
<1>6. ASSUME NEW w \in work, Handles(w)
      PROVE  CheckInv'
  <2>1. PICK v : Moved(w, v) /\ (Quiet(w, v) \/ Committed(w, v) \/ Recorded(w, v))
    BY <1>6, HandlerSteps, Zenon
  <2>2. UNCHANGED phase /\ work' = (work \ {w}) \cup {v} /\ v.at = w.at  BY <1>6, <2>1, Zenon DEF Handles, Moved
  <2>3. v.stage \in {"executing", "audit"} => phase[w.at] \in {"serving", "draining"}
    BY <2>1, Zenon DEF Quiet, Committed, Recorded, CheckInv
  <2>4. QED  BY <2>2, <2>3, Zenon DEF CheckInv
<1>7. ASSUME NEW w \in work, Replies(w)
      PROVE  CheckInv'
  BY <1>1, <1>7, Zenon DEF Replies
<1>8. CASE UNCHANGED controlApiVars  BY <1>1, <1>8, Zenon DEF controlApiVars
<1>9. QED  BY <1>2, <1>3, <1>4, <1>5, <1>6, <1>7, <1>8, StepCases, Zenon

-------------------------------------------------------------------------------
(* Answers *)

(* Nothing of a request's fate changes but that handlers may end and pages *)
(* may be told that the controller is unavailable.                         *)
LEMMA FewerStep ==
  ASSUME Type, AnswerInv, work' \subseteq work, UNCHANGED <<sends, effects>>,
         \A c \in Clients : page'[c].id = page[c].id,
         \A c \in Clients : page'[c] = page[c] \/ (page'[c].pc = "idle" /\ page'[c].told = "unavailable")
  PROVE  AnswerInv'
<1>1. FreshInv'  BY DEF AnswerInv, FreshInv
<1>2. StageInv'  BY Zenon DEF AnswerInv, StageInv
<1>3. TruthfulAnswer'  BY Zenon DEF AnswerInv, TruthfulAnswer
<1>4. QED  BY <1>1, <1>2, <1>3, Zenon DEF AnswerInv

LEMMA SubmitAnswers ==
  ASSUME Type, AnswerInv, NEW c \in Clients, Submit(c, Methods)
  PROVE  AnswerInv'
<1>1. /\ sends' = sends + 1 /\ page'[c].id = sends + 1 /\ page'[c].told \in {Missing, "unavailable"}
      /\ page'[c].pc = "dialling" => page'[c].told = Missing /\ page'[c].ask \in Requests
      /\ \A d \in Clients \ {c} : page'[d] = page[d]
      /\ UNCHANGED <<work, effects>>
  BY SubmitSteps, Zenon
<1>2. /\ sends \in Nat /\ \A w \in work : w.id \in Nat
      /\ \A d \in Clients : page[d].id \in Nat /\ Missing \notin Requests
      /\ Missing # "ok" /\ Missing # "refused"
  BY ControlApiAssumption, Zenon DEF Type, RequestType, Handlers, PageStates
<1>3. FreshInv'
  <2>1. \A i \in Nat : i <= sends => i <= sends' /\ i # sends + 1  BY <1>1, <1>2
  <2>2. \A w \in work' : w.id <= sends'  BY <1>1, <1>2, <2>1, Zenon DEF AnswerInv, FreshInv
  <2>3. \A i \in effects'.changed : i \in Nat /\ i <= sends' /\ i # sends + 1
    BY <1>1, <2>1, Zenon DEF AnswerInv, FreshInv
  <2>4. \A d \in Clients : page'[d].id <= sends'  BY <1>1, <1>2, <2>1 DEF AnswerInv, FreshInv
  <2>5. \A d \in Clients \ {c} : page'[d].id # sends + 1  BY <1>1, <1>2, <2>1, Zenon DEF AnswerInv, FreshInv
  <2>6. \A d, e \in Clients : d # e /\ page'[d].id = page'[e].id => page'[d].id = 0
    BY <1>1, <2>5 DEF AnswerInv, FreshInv
  <2>7. \A w \in work' : w.id # sends + 1  BY <1>1, <1>2, <2>1, Zenon DEF AnswerInv, FreshInv
  <2>8. ASSUME NEW d \in Clients, page'[d].pc = "dialling"
        PROVE  /\ page'[d].id # 0 /\ page'[d].told = Missing /\ page'[d].ask # Missing
               /\ page'[d].id \notin effects'.changed
               /\ \A w \in work' : w.id # page'[d].id
    <3>1. CASE d = c  BY <1>1, <1>2, <2>3, <2>7, <2>8, <3>1
    <3>2. CASE d # c  BY <1>1, <2>8, <3>2 DEF AnswerInv, FreshInv
    <3>3. QED  BY <3>1, <3>2, Zenon
  <2>9. \A v, w \in work' : v.id = w.id => v = w  BY <1>1, Zenon DEF AnswerInv, FreshInv
  <2>10. QED  BY <2>2, <2>3, <2>4, <2>6, <2>8, <2>9, Zenon DEF FreshInv
<1>4. StageInv'  BY <1>1, Zenon DEF AnswerInv, StageInv
<1>5. TruthfulAnswer'  BY <1>1, <1>2 DEF AnswerInv, TruthfulAnswer
<1>6. QED  BY <1>3, <1>4, <1>5, Zenon DEF AnswerInv

LEMMA ServeAnswers ==
  ASSUME Type, AnswerInv, NEW c \in Clients, Serve(c)
  PROVE  AnswerInv'
<1>0. page[c].pc = "dialling" /\ UNCHANGED <<sends, effects>>  BY ServeSteps, Zenon DEF AnswerInv
<1>1. CASE Told(c, "unavailable") /\ UNCHANGED work
  BY <1>0, <1>1, Telling, FewerStep, Zenon
<1>2. ASSUME page'[c].pc = "waiting", page'[c].id = page[c].id, page'[c].told = page[c].told,
             \A d \in Clients \ {c} : page'[d] = page[d],
             NEW h \in Handlers, work' = work \cup {h}, h.id = page[c].id, h.stage = "accepted", h.code = Missing
      PROVE  AnswerInv'
  <2>1. /\ page[c].id # 0 /\ page[c].told = Missing /\ page[c].id \notin effects.changed
        /\ \A w \in work : w.id # page[c].id
        /\ page[c].id <= sends
        /\ \A d \in Clients \ {c} : page[d].id # page[c].id
    BY <1>0, Zenon DEF AnswerInv, FreshInv
  <2>2. FreshInv'
    <3>1. \A v, w \in work' : v.id = w.id => v = w
      <4>1. \A v, w \in work : v.id = w.id => v = w  BY Zenon DEF AnswerInv, FreshInv
      <4>2. \A w \in work : w.id # h.id  BY <1>2, <2>1, Zenon
      <4>3. QED  BY <1>2, <4>1, <4>2, Zenon
    <3>2. \A d \in Clients : page'[d].pc = "dialling" =>
             /\ page'[d].id # 0 /\ page'[d].told = Missing /\ page'[d].ask # Missing
             /\ page'[d].id \notin effects'.changed
             /\ \A w \in work' : w.id # page'[d].id
      BY <1>0, <1>2, <2>1 DEF AnswerInv, FreshInv
    <3>3. \A d \in Clients : page'[d].id = page[d].id  BY <1>2, Zenon
    <3>4. \A w \in work' : w.id <= sends'  BY <1>0, <1>2, <2>1, Zenon DEF AnswerInv, FreshInv
    <3>5. /\ \A i \in effects'.changed : i \in Nat /\ i <= sends'
          /\ \A d \in Clients : page'[d].id <= sends'
          /\ \A d, e \in Clients : d # e /\ page'[d].id = page'[e].id => page'[d].id = 0
      BY <1>0, <3>3, Zenon DEF AnswerInv, FreshInv
    <3>6. QED  BY <3>1, <3>2, <3>4, <3>5, Zenon DEF FreshInv
  <2>3. StageInv'  BY <1>0, <1>2, <2>1, Zenon DEF AnswerInv, StageInv
  <2>4. Missing # "ok" /\ Missing # "refused"  BY ControlApiAssumption, Zenon
  <2>5. TruthfulAnswer'  BY <1>0, <1>2, <2>1, <2>4 DEF AnswerInv, TruthfulAnswer
  <2>6. QED  BY <2>2, <2>3, <2>5, Zenon DEF AnswerInv
<1>3. QED  BY <1>1, <1>2, ServeSteps, Zenon DEF AnswerInv

LEMMA HandlerAnswers ==
  ASSUME Type, AnswerInv, NEW w \in work, Handles(w)
  PROVE  AnswerInv'
<1>1. UNCHANGED <<page, sends>>  BY Zenon DEF Handles
<1>2. PICK v : /\ Moved(w, v) /\ (Quiet(w, v) \/ Committed(w, v) \/ Recorded(w, v))
               /\ v.stage # "reply" => v.code = Missing
  BY HandlerSteps, Zenon DEF AnswerInv
<1>3. work' = (work \ {w}) \cup {v} /\ v.id = w.id /\ v.ask = w.ask /\ w.stage # "reply"
  BY <1>2, Zenon DEF Moved
<1>4. /\ w.id \in Nat /\ w.id <= sends /\ w.id \notin effects.changed
      /\ \A x \in work \ {w} : x.id # w.id
  BY <1>3, Zenon DEF AnswerInv, FreshInv, StageInv, Type, RequestType, Handlers
<1>5. /\ effects.done \subseteq effects'.done
      /\ effects'.changed \subseteq effects.changed \cup {w.id}
      /\ v.stage = "reply" /\ v.code = "ok" => w.id \in effects'.done
      /\ w.id \in effects'.changed => v.stage = "reply" /\ v.code \in {"ok", "internal_error"}
  <2>1. CASE Quiet(w, v)  BY <1>4, <2>1, Zenon DEF Quiet
  <2>2. CASE Recorded(w, v)  BY <1>4, <2>2, Zenon DEF Recorded, Type, RequestType
  <2>3. CASE Committed(w, v)
    <3>1. w.ask \in Requests /\ w.ask.method # "check"
      BY <2>3, Zenon DEF Committed, AnswerInv, StageInv, Type, RequestType, Handlers
    <3>2. PICK o \in Outcomes(w.ask, app) :
             /\ v.code = o.code \/ (o.code = "ok" /\ v.code = "internal_error")
             /\ effects'.done = effects.done \cup (IF o.code = "ok" THEN {w.id} ELSE {})
             /\ effects'.changed = effects.changed \cup (IF o.app # app THEN {w.id} ELSE {})
      BY <2>3 DEF Committed
    <3>3. o.app # app => o.code = "ok"  BY <3>1, RequestServes DEF Serves, Type
    <3>4. v.stage = "reply"  BY <2>3, Zenon DEF Committed
    <3>5. QED  BY <1>4, <3>2, <3>3, <3>4, Zenon
  <2>4. QED  BY <1>2, <2>1, <2>2, <2>3, Zenon
<1>6. v.stage \in {"scope", "store"} => v.ask.method # "check"
  BY <1>2, <1>3, Zenon DEF Quiet, Committed, Recorded, AnswerInv, StageInv
<1>7. FreshInv'
  <2>1. \A x \in work' : x.id <= sends'  BY <1>1, <1>3, <1>4, Zenon DEF AnswerInv, FreshInv
  <2>2. \A i \in effects'.changed : i \in Nat /\ i <= sends'  BY <1>1, <1>4, <1>5, Zenon DEF AnswerInv, FreshInv
  <2>3. \A x, y \in work' : x.id = y.id => x = y  BY <1>3, <1>4, Zenon DEF AnswerInv, FreshInv
  <2>4. \A c \in Clients : page'[c].pc = "dialling" =>
           /\ page'[c].id # 0 /\ page'[c].told = Missing /\ page'[c].ask # Missing
           /\ page'[c].id \notin effects'.changed
           /\ \A x \in work' : x.id # page'[c].id
    BY <1>1, <1>3, <1>5 DEF AnswerInv, FreshInv
  <2>5. QED  BY <1>1, <2>1, <2>2, <2>3, <2>4, Zenon DEF AnswerInv, FreshInv
<1>8. StageInv'
  <2>1. ASSUME NEW x \in work \ {w}
        PROVE  /\ x.stage # "reply" => x.id \notin effects'.changed /\ x.code = Missing
               /\ x.stage = "reply" =>
                     /\ x.code = "ok" => x.id \in effects'.done
                     /\ x.id \in effects'.changed => x.code \in {"ok", "internal_error"}
               /\ x.stage \in {"scope", "store"} => x.ask.method # "check"
    BY <1>4, <1>5, Zenon DEF AnswerInv, StageInv
  <2>2. QED  BY <1>2, <1>3, <1>5, <1>6, <2>1, Zenon DEF StageInv
<1>9. TruthfulAnswer'  BY <1>1, <1>3, <1>4, <1>5, Zenon DEF AnswerInv, TruthfulAnswer
<1>10. QED  BY <1>7, <1>8, <1>9, Zenon DEF AnswerInv

LEMMA ReplyAnswers ==
  ASSUME Type, AnswerInv, NEW w \in work, Replies(w)
  PROVE  AnswerInv'
<1>0. w.stage = "reply" /\ work' = work \ {w} /\ UNCHANGED <<sends, effects>> /\ w.client \in Clients
  BY Zenon DEF Replies, Type, RequestType, Handlers
<1>1. CASE UNCHANGED page  BY <1>0, <1>1, FewerStep, Zenon
<1>2. CASE page[w.client].id = w.id /\ Told(w.client, AnswerFor(w.ask, w.code))
  <2> DEFINE x == AnswerFor(w.ask, w.code)
  <2>1. x \in {"ok", "refused", "unavailable"} /\ (x = "ok" => w.code = "ok") /\ (x = "refused" => w.code \in Refusals)
    BY Answers, Zenon
  <2>2. /\ page'[w.client].id = w.id /\ page'[w.client].pc = "idle" /\ page'[w.client].told = x
        /\ \A d \in Clients \ {w.client} : page'[d] = page[d]
    BY <1>0, <1>2, <2>1, Telling, Zenon
  <2> HIDE DEF x
  <2>3. \A v \in work' : v.id # w.id  BY <1>0, Zenon DEF AnswerInv, FreshInv
  <2>4. FreshInv'
    <3>1. \A d \in Clients : page'[d].id = page[d].id  BY <1>2, <2>2, Zenon
    <3>2. \A d \in Clients : page'[d].pc = "dialling" => page'[d] = page[d]  BY <2>2, Zenon
    <3>3. QED  BY <1>0, <3>1, <3>2 DEF AnswerInv, FreshInv
  <2>5. StageInv'  BY <1>0, Zenon DEF AnswerInv, StageInv
  <2>6. x = "ok" => w.id \in effects.done  BY <1>0, <2>1, Zenon DEF AnswerInv, StageInv
  <2>7. x = "refused" => w.id \notin effects.changed  BY <1>0, <2>1, Zenon DEF AnswerInv, StageInv, Refusals
  <2>8. TruthfulAnswer'  BY <1>0, <2>2, <2>3, <2>6, <2>7 DEF AnswerInv, TruthfulAnswer
  <2>9. QED  BY <2>4, <2>5, <2>8 DEF AnswerInv
<1>3. QED  BY <1>1, <1>2, Zenon DEF Replies

LEMMA AnswerStep ==
  ASSUME Type, AnswerInv, [ControlApiNext]_controlApiVars
  PROVE  AnswerInv'
<1>1. ASSUME UNCHANGED <<work, page, sends, effects>>
      PROVE  AnswerInv'
  BY <1>1, FewerStep, Zenon
<1>2. ASSUME NEW p \in Processes, ProcessStep(p)
      PROVE  AnswerInv'
  BY <1>1, <1>2, Zenon DEF ProcessStep
<1>3. ASSUME NEW p \in Processes, ProcessStops(p)
      PROVE  AnswerInv'
  <2>1. work' \subseteq work /\ UNCHANGED <<sends, effects>> /\ Hangs(Waiting(p))
    BY <1>3, Zenon DEF ProcessStops, ProcessEnds
  <2>2. QED  BY <2>1, Hanging, FewerStep, Zenon
<1>4. ASSUME NEW c \in Clients, ConsumeBootstrap(c)
      PROVE  AnswerInv'
  BY <1>1, <1>4, Zenon DEF ConsumeBootstrap
<1>5. ASSUME NEW c \in Clients, ClientTimesOut(c)
      PROVE  AnswerInv'
  <2>1. work' \subseteq work /\ UNCHANGED <<sends, effects>> /\ Told(c, "unavailable")
    BY <1>5, Zenon DEF ClientTimesOut
  <2>2. QED  BY <2>1, Telling, FewerStep, Zenon
<1>6. CASE UNCHANGED controlApiVars  BY <1>1, <1>6, Zenon DEF controlApiVars
<1>7. QED
  BY <1>2, <1>3, <1>4, <1>5, <1>6, SubmitAnswers, ServeAnswers, HandlerAnswers, ReplyAnswers, StepCases, Zenon

-------------------------------------------------------------------------------
(* Repetitions *)

LEMMA OnlyCommitsChange ==
  ASSUME Type, StageInv, ControlApiNext
  PROVE  \/ UNCHANGED app /\ effects'.last = effects.last
         \/ \E w \in work : \E o \in Outcomes(w.ask, app) :
               /\ w.ask \in Requests /\ w.ask.method # "check" /\ app' = o.app
               /\ effects'.last = IF o.app # app THEN w.ask ELSE effects.last
<1>1. ASSUME NEW p \in Processes, ProcessStep(p) \/ ProcessStops(p)
      PROVE  UNCHANGED <<app, effects>>
  BY <1>1, Zenon DEF ProcessStep, ProcessStops
<1>2. ASSUME NEW c \in Clients, ConsumeBootstrap(c) \/ Submit(c, Methods) \/ Serve(c) \/ ClientTimesOut(c)
      PROVE  UNCHANGED <<app, effects>>
  BY <1>2, Zenon DEF ConsumeBootstrap, Submit, Serve, ClientTimesOut
<1>3. ASSUME NEW w \in work, Replies(w)
      PROVE  UNCHANGED <<app, effects>>
  BY <1>3, Zenon DEF Replies
<1>4. ASSUME NEW w \in work, Handles(w)
      PROVE  \/ UNCHANGED app /\ effects'.last = effects.last
             \/ \E o \in Outcomes(w.ask, app) :
                   /\ w.ask \in Requests /\ w.ask.method # "check" /\ app' = o.app
                   /\ effects'.last = IF o.app # app THEN w.ask ELSE effects.last
  <2>1. PICK v : Moved(w, v) /\ (Quiet(w, v) \/ Committed(w, v) \/ Recorded(w, v))
    BY <1>4, HandlerSteps, Zenon
  <2>2. CASE Quiet(w, v)  BY <2>2, Zenon DEF Quiet
  <2>3. CASE Recorded(w, v)  BY <2>3, Zenon DEF Recorded, Type, RequestType
  <2>4. CASE Committed(w, v)
    <3>1. w.ask \in Requests /\ w.ask.method # "check"
      BY <2>4, Zenon DEF Committed, StageInv, Type, RequestType, Handlers
    <3>2. QED  BY <2>4, <3>1 DEF Committed
  <2>5. QED  BY <2>1, <2>2, <2>3, <2>4, Zenon
<1>5. QED  BY <1>1, <1>2, <1>3, <1>4, StepCases, Zenon

LEMMA RepeatStep ==
  ASSUME Type, StageInv, RepeatInv, [ControlApiNext]_controlApiVars
  PROVE  RepeatInv' /\ (app' # app => effects'.last # effects.last)
<1>1. CASE UNCHANGED app /\ effects'.last = effects.last  BY <1>1, Zenon DEF RepeatInv
<1>2. ASSUME NEW w \in work, NEW o \in Outcomes(w.ask, app),
             w.ask \in Requests, w.ask.method # "check", app' = o.app,
             effects'.last = IF o.app # app THEN w.ask ELSE effects.last
      PROVE  RepeatInv' /\ (app' # app => effects'.last # effects.last)
  <2>1. CASE o.app = app  BY <1>1, <1>2, <2>1, Zenon
  <2>2. CASE o.app # app
    <3>1. \A u \in Outcomes(w.ask, o.app) : u.app = o.app  BY <1>2, <2>2, RequestServes DEF Serves, Type
    <3>2. effects'.last = w.ask  BY <1>2, <2>2, Zenon
    <3>3. \A u \in Outcomes(effects'.last, app') : u.app = app'  BY <1>2, <3>1, <3>2, Zenon
    <3>4. w.ask # Missing  BY <1>2, ControlApiAssumption, Zenon
    <3>5. w.ask # effects.last  BY <1>2, <2>2, <3>4, Zenon DEF RepeatInv
    <3>6. QED  BY <1>2, <3>2, <3>3, <3>5, Zenon DEF RepeatInv
  <2>3. QED  BY <2>1, <2>2, Zenon
<1>3. CASE UNCHANGED controlApiVars  BY <1>1, <1>3, Zenon DEF controlApiVars
<1>4. QED  BY <1>1, <1>2, <1>3, OnlyCommitsChange, Zenon

-------------------------------------------------------------------------------
LEMMA InitialApi == ControlApiInit => ApiInv
<1> SUFFICES ASSUME ControlApiInit PROVE ApiInv
  BY Zenon
<1>0. /\ app \in AppStates /\ Missing \notin {"ok", "refused", "unavailable", "internal_error"}
      /\ work = {} /\ sends = 0 /\ effects = [done |-> {}, changed |-> {}, last |-> Missing]
      /\ \A p \in Processes : phase[p] = "off"
  BY ControlApiAssumption, Zenon DEF ControlApiInit
<1>1. page \in [Clients -> PageStates]
      /\ \A c \in Clients : page[c].pc = "idle" /\ page[c].id = 0 /\ page[c].told = Missing
  BY Zenon DEF ControlApiInit, PageStates
<1>2. Type
  <2>1. ProcessType  BY Zenon DEF ProcessType, ControlApiInit, Phases
  <2>2. RequestType  BY <1>0, <1>1, Zenon DEF RequestType
  <2>3. QED  BY <1>0, <2>1, <2>2, Zenon DEF Type
<1>3. ReachInv /\ CheckInv  BY <1>0, Zenon DEF ReachInv, CheckInv, Live
<1>4. AnswerInv
  <2>1. effects.changed = {} /\ Missing # "ok" /\ Missing # "refused"  BY <1>0, Zenon
  <2>2. FreshInv  BY <1>0, <1>1, <2>1 DEF FreshInv
  <2>3. StageInv  BY <1>0, Zenon DEF StageInv
  <2>4. TruthfulAnswer  BY <1>1, <2>1, Zenon DEF TruthfulAnswer
  <2>5. QED  BY <2>2, <2>3, <2>4, Zenon DEF AnswerInv
<1>5. RepeatInv  BY <1>0, Zenon DEF RepeatInv
<1>6. QED  BY <1>2, <1>3, <1>4, <1>5, Zenon DEF ApiInv

LEMMA ApiStep == ApiInv /\ [ControlApiNext]_controlApiVars => ApiInv'
BY TypeStep, ReachStep, CheckStep, AnswerStep, RepeatStep, Zenon DEF ApiInv, AnswerInv

(* The inductive invariant holds in every state of the controller, its     *)
(* clients and its store.                                                  *)
THEOREM ApiInvariant == ControlApiSpec => []ApiInv
<1>1. ApiInv /\ UNCHANGED controlApiVars => ApiInv'  BY ApiStep, Zenon
<1>2. QED  BY InitialApi, ApiStep, PTL DEF ControlApiSpec

(* An answer holds: success is durable, and a refused request has changed  *)
(* nothing and has no handler left that could, whatever was killed,        *)
(* restarted or given up in between.                                       *)
THEOREM AnswersAreTruthful == ControlApiSpec => []TruthfulAnswer
<1>1. ApiInv => TruthfulAnswer  BY Zenon DEF ApiInv, AnswerInv
<1>2. QED  BY <1>1, ApiInvariant, PTL

(* A controller that serves is the one that the socket and the secret on   *)
(* disk lead to.                                                           *)
THEOREM ServingReachable == ControlApiSpec => []ServingIsReachable
<1>1. ApiInv => ServingIsReachable  BY Zenon DEF ApiInv, ReachInv, ServingIsReachable, Live
<1>2. QED  BY <1>1, ApiInvariant, PTL

(* A check that was admitted finds the store open until its last event.    *)
THEOREM ChecksFindStore == ControlApiSpec => []StoreOutlivesChecks
<1>1. ApiInv => StoreOutlivesChecks
  BY Zenon DEF ApiInv, CheckInv, StoreOutlivesChecks, Executing, StoreOpen
<1>2. QED  BY <1>1, ApiInvariant, PTL

(* No request changes the store twice in a row: the handlers are           *)
(* idempotent, also while an earlier copy of the request still runs.       *)
THEOREM RepeatsChangeNothing == ControlApiSpec => RepeatChangesNothing
<1>1. ApiInv /\ [ControlApiNext]_controlApiVars => [app' # app => effects'.last # effects.last]_controlApiVars
  BY RepeatStep, Zenon DEF ApiInv, AnswerInv
<1>2. QED  BY <1>1, ApiInvariant, PTL DEF ControlApiSpec, RepeatChangesNothing
===============================================================================
