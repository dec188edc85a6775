-------------------------- MODULE ExternalConnection --------------------------
(***************************************************************************)
(* The read-only connections to AdGuard Home and to OPNsense.  Connecting  *)
(* writes a reference to the configuration, the credential to the keychain *)
(* and the intent to the capability lifecycle, each of which may fail;     *)
(* undoing and disconnecting take them back.  The process may be killed    *)
(* between any two of them.  A collection reads the scope, the remote      *)
(* history and the scope again, and stores what belongs to it, while users *)
(* disconnect, connect elsewhere, retire the network and enroll it anew.   *)
(*                                                                         *)
(* The two services share the protocol; `service' is the one a behaviour   *)
(* is about.  ReplaceCapability replaces the file or leaves it; what       *)
(* happens when power fails before the directory is synced is not          *)
(* modelled.  The constants Max... bound the model, not the code.          *)
(***************************************************************************)
EXTENDS Integers, FiniteSets, Sequences

CONSTANTS Endpoints, Collectors,
          Snapshots,        \* what the remote history may hold: sequences of entries
          MaxReferences, MaxEnrollments, MaxFaults,
          NoItem

(* A stored configuration: where, under which reference, and the intent. *)
Configurations ==
    [endpoint : Endpoints, ref : Nat \cup {NoItem}, desired : {"enabled", "disabled"}]

ASSUME ExternalAssumption ==
    /\ NoItem \notin Endpoints \cup Nat \cup Collectors \cup {"connected", "disconnected"}
    /\ NoItem \notin Configurations
    /\ \A s \in Snapshots : Len(s) \in Nat /\ DOMAIN s = 1..Len(s)
    /\ MaxReferences \in Nat /\ MaxEnrollments \in Nat /\ MaxFaults \in Nat

VARIABLES service,     \* "adguard" or "opnsense"
          setting,     \* the capability's configuration, durable
          vault,       \* references of the credentials in the keychain
          applied,     \* the intent the lifecycle engine holds
          op,          \* the operation that holds the connection's mutex
          references,  \* how many references were drawn
          asked,       \* the command that waits for the mutex
          told,        \* what the last command reported, until the next operation
          faults,      \* failures and restarts so far
          leaving,     \* the user is disconnecting, and retries until it is done
          enrolled,    \* the active scope, or NoItem
          enrollments,
          attached,    \* the interface still is the enrolled one
          offer,       \* the web process's pending review
          collecting,  \* the web process waits for a collection
          task,        \* per collector: how far its collection is
          kept         \* what was stored: scope, entry

connection == <<setting, vault, applied, op, references, asked, told>>
network == <<enrolled, enrollments, attached>>
collection == <<offer, collecting, task, kept>>
externalVars == <<service, connection, faults, leaving, network, collection>>

Idle == [pc |-> "idle", who |-> NoItem, reviewed |-> NoItem, scope |-> NoItem,
         from |-> NoItem, asReviewed |-> TRUE, whileEnrolled |-> TRUE, entries |-> <<>>, rest |-> {},
         inserted |-> 0, deduplicated |-> 0]

ExternalInit ==
    /\ service \in {"adguard", "opnsense"}
    /\ setting = NoItem /\ vault = {} /\ applied = "none" /\ op = NoItem /\ references = 0
    /\ asked = NoItem /\ told = NoItem /\ faults = 0 /\ leaving = FALSE
    /\ enrolled = 1 /\ enrollments = 1 /\ attached = TRUE
    /\ offer = NoItem /\ collecting = FALSE /\ task = [c \in Collectors |-> Idle] /\ kept = {}

At(kinds, pc) == op # NoItem /\ op.kind \in kinds /\ op.pc = pc

Fault == faults < MaxFaults /\ faults' = faults + 1

(* The operation goes on; or it ends, releases the mutex and answers the    *)
(* command that still waits.                                                *)
Then(pc) == op' = [op EXCEPT !.pc = pc] /\ UNCHANGED told

Undone == op' = [op EXCEPT !.kind = "undo", !.pc = "disable"] /\ UNCHANGED told

Answer(report) == op' = NoItem /\ told' = IF op.awaited THEN report ELSE told

(* ReplaceCapability: the file and the copy in memory, or neither. *)
ReplaceCapability(next) == setting' = next

(* connectionConfiguration with a reference of its own, or none. *)
Configuration(e, ref) == [endpoint |-> e, ref |-> ref, desired |-> "disabled"]

-------------------------------------------------------------------------------
(* Commands: the user approves at a terminal, and the request waits for the *)
(* connection's mutex.  The command may give up before the answer.          *)
ConnectCommand(e, credential) ==
    /\ asked = NoItem /\ ~leaving /\ references < MaxReferences
    /\ asked' = [kind |-> "connect", endpoint |-> e, credential |-> credential]
    /\ told' = NoItem

DisconnectCommand ==
    /\ asked = NoItem /\ (setting # NoItem \/ op # NoItem)
    /\ asked' = [kind |-> "disconnect"] /\ told' = NoItem

AdGuardCommand ==
    /\ service = "adguard"
    /\ DisconnectCommand \/ \E e \in Endpoints, credential \in BOOLEAN : ConnectCommand(e, credential)
OPNsenseCommand ==
    /\ service = "opnsense"
    /\ DisconnectCommand \/ \E e \in Endpoints : ConnectCommand(e, TRUE)

CommandGivesUp ==
    /\ op # NoItem /\ op.awaited /\ op' = [op EXCEPT !.awaited = FALSE]
    /\ UNCHANGED <<asked, told>>

(* Connect.  Another configuration, the probe of the service or the first   *)
(* audit end it before any change.                                          *)
ConnectStarts ==
    /\ op = NoItem /\ asked # NoItem /\ asked.kind = "connect" /\ asked' = NoItem
    /\ \/ /\ setting = NoItem
          /\ references' = references + 1
          /\ op' = [kind |-> "connect", pc |-> "persist", awaited |-> TRUE,
                    setting |-> Configuration(asked.endpoint,
                                              IF asked.credential THEN references + 1 ELSE NoItem)]
          /\ told' = NoItem
       \/ told' = "failed" /\ UNCHANGED <<op, references>>
    /\ UNCHANGED <<setting, vault, applied, faults>>

(* Mutant: the credential is stored before its reference is durable. *)
PutComesFirst ==
    /\ At({"connect"}, "persist")
    /\ vault' = vault \cup ({op.setting.ref} \ {NoItem})
    /\ \/ ReplaceCapability(op.setting) /\ Then("put") /\ UNCHANGED faults
       \/ Fault /\ Answer("failed") /\ UNCHANGED setting
    /\ UNCHANGED applied

(* A disabled reference before the keychain is touched. *)
PersistsReference ==
    /\ At({"connect"}, "persist")
    /\ \/ ReplaceCapability(op.setting) /\ Then("put") /\ UNCHANGED faults
       \/ Fault /\ Answer("failed") /\ UNCHANGED setting
    /\ UNCHANGED <<vault, applied>>

(* A Put that fails may have stored the item. *)
PutsCredential ==
    /\ At({"connect"}, "put")
    /\ \/ /\ vault' = vault \cup ({op.setting.ref} \ {NoItem})
          /\ Then("enable") /\ UNCHANGED faults
       \/ /\ op.setting.ref # NoItem /\ Fault /\ Undone
          /\ vault' \in {vault, vault \cup {op.setting.ref}}
    /\ UNCHANGED <<setting, applied>>

EnablesIntent ==
    /\ At({"connect"}, "enable")
    /\ \/ /\ ReplaceCapability([op.setting EXCEPT !.desired = "enabled"])
          /\ Then("apply") /\ UNCHANGED faults
       \/ Fault /\ Undone /\ UNCHANGED setting
    /\ UNCHANGED <<vault, applied>>

AppliesIntent ==
    /\ At({"connect"}, "apply")
    /\ \/ applied' = "enabled" /\ Then("audit") /\ UNCHANGED faults
       \/ Fault /\ Undone /\ UNCHANGED applied
    /\ UNCHANGED <<setting, vault>>

AuditsConnection ==
    /\ At({"connect"}, "audit")
    /\ \/ Answer("connected") /\ UNCHANGED faults
       \/ Fault /\ Undone
    /\ UNCHANGED <<setting, vault, applied>>

Connect ==
    \/ ConnectStarts
    \/ /\ PersistsReference \/ PutsCredential \/ EnablesIntent \/ AppliesIntent \/ AuditsConnection
       /\ UNCHANGED <<references, asked>>

(* Taking a connection back: undoConnect and Disconnect do the same in the  *)
(* same order and stop at the first failure.  Only Disconnect skips what is *)
(* disabled already.                                                        *)
DisconnectStarts ==
    /\ op = NoItem /\ asked # NoItem /\ asked.kind = "disconnect" /\ asked' = NoItem
    /\ \/ setting = NoItem /\ told' = "disconnected" /\ UNCHANGED <<op, faults>>
       \/ /\ setting # NoItem
          /\ op' = [kind |-> "disconnect", pc |-> "disable", awaited |-> TRUE, setting |-> setting]
          /\ told' = NoItem /\ UNCHANGED faults
       \/ setting # NoItem /\ Fault /\ told' = "failed" /\ UNCHANGED op     \* the first audit
    /\ UNCHANGED <<setting, vault, applied>>

Disables(kinds) ==
    /\ At(kinds, "disable")
    /\ IF op.kind = "disconnect" /\ setting.desired = "disabled"
       THEN Then("delete") /\ UNCHANGED <<setting, faults>>
       ELSE \/ /\ ReplaceCapability([op.setting EXCEPT !.desired = "disabled"])
               /\ Then("apply") /\ UNCHANGED faults
            \/ Fault /\ Answer("failed") /\ UNCHANGED setting
    /\ UNCHANGED <<vault, applied>>

AppliesDisabled(kinds) ==
    /\ At(kinds, "apply")
    /\ \/ applied' = "disabled" /\ Then("delete") /\ UNCHANGED faults
       \/ Fault /\ Answer("failed") /\ UNCHANGED applied
    /\ UNCHANGED <<setting, vault>>

DeleteFails ==
    /\ op.setting.ref # NoItem /\ Fault /\ Answer("failed")
    /\ vault' \in {vault, vault \ {op.setting.ref}}

(* Mutant: an item that is already gone counts as a failure. *)
DeletesOnlyPresent(kinds) ==
    /\ At(kinds, "delete")
    /\ \/ /\ op.setting.ref \in vault \cup {NoItem} /\ vault' = vault \ {op.setting.ref}
          /\ Then("remove") /\ UNCHANGED faults
       \/ op.setting.ref \notin vault \cup {NoItem} /\ Answer("failed") /\ UNCHANGED <<vault, faults>>
       \/ DeleteFails
    /\ UNCHANGED <<setting, applied>>

(* Deleting an item that is gone succeeds; a failure may have deleted it. *)
DeletesCredential(kinds) ==
    /\ At(kinds, "delete")
    /\ \/ vault' = vault \ {op.setting.ref} /\ Then("remove") /\ UNCHANGED faults
       \/ DeleteFails
    /\ UNCHANGED <<setting, applied>>

(* Mutant: a configuration that could not be removed is not reported. *)
RemovalIsAssumed(kinds) ==
    /\ At(kinds, "remove") /\ Then("drop")
    /\ \/ ReplaceCapability(NoItem) /\ UNCHANGED faults
       \/ Fault /\ UNCHANGED setting
    /\ UNCHANGED <<vault, applied>>

RemovesSetting(kinds) ==
    /\ At(kinds, "remove")
    /\ \/ ReplaceCapability(NoItem) /\ Then("drop") /\ UNCHANGED faults
       \/ Fault /\ Answer("failed") /\ UNCHANGED setting
    /\ UNCHANGED <<vault, applied>>

(* RemoveConfiguration and the last audit. *)
DropsIntent(kinds) ==
    /\ At(kinds, "drop")
    /\ \/ /\ applied' = "none" /\ UNCHANGED faults
          /\ Answer(IF op.kind = "undo" THEN "failed" ELSE "disconnected")
       \/ Fault /\ Answer("failed") /\ applied' \in {applied, "none"}
    /\ UNCHANGED <<setting, vault>>

Revoke(kinds) ==
    /\ \/ Disables(kinds) \/ AppliesDisabled(kinds) \/ DeletesCredential(kinds)
       \/ RemovesSetting(kinds) \/ DropsIntent(kinds)
    /\ UNCHANGED asked

UndoConnect == Revoke({"undo"}) /\ UNCHANGED references
Disconnect == (DisconnectStarts \/ Revoke({"disconnect"})) /\ UNCHANGED references

Still == UNCHANGED <<service, leaving, network, collection>>

AdGuardConnect == service = "adguard" /\ Connect /\ Still
AdGuardUndoConnect == service = "adguard" /\ UndoConnect /\ Still
AdGuardDisconnect == service = "adguard" /\ Disconnect /\ Still
OPNsenseConnect == service = "opnsense" /\ Connect /\ Still
OPNsenseUndoConnect == service = "opnsense" /\ UndoConnect /\ Still
OPNsenseDisconnect == service = "opnsense" /\ Disconnect /\ Still

Commands ==
    /\ \/ AdGuardCommand /\ UNCHANGED op
       \/ OPNsenseCommand /\ UNCHANGED op
       \/ CommandGivesUp
    /\ UNCHANGED <<setting, vault, applied, references, faults>> /\ Still

(* The endpoint that a read would reach, or NoItem when it fails. *)
ConfiguredClient ==
    IF setting # NoItem /\ setting.desired = "enabled" /\ setting.ref \in vault \cup {NoItem}
    THEN setting.endpoint ELSE NoItem

-------------------------------------------------------------------------------
(* BuildObservations: which entries may be stored (their indices), each     *)
(* once, and the counts of the rest.                                        *)
Admitted(entries) == {i \in DOMAIN entries : entries[i] \notin {"hidden", "outside", "old"}}

Observations(entries) == {entries[i] : i \in Admitted(entries)}

Repeated(entries) == Cardinality(Admitted(entries)) - Cardinality(Observations(entries))

Skipped(entries) == Len(entries) - Cardinality(Admitted(entries))

-------------------------------------------------------------------------------
(* Reviews.  The connection and the network are read one after the other,   *)
(* and the user decides later.                                              *)

Set(c, fields) ==
    task' = [task EXCEPT ![c] = [f \in DOMAIN Idle |-> IF f \in DOMAIN fields THEN fields[f] ELSE @[f]]]

Ends(c) == task' = [task EXCEPT ![c] = Idle]

(* Current: a fresh status, under the mutex. *)
ReadsStatus(c, who) ==
    /\ task[c].pc = "idle" /\ op = NoItem /\ ConfiguredClient # NoItem
    /\ Set(c, [pc |-> "review", who |-> who, reviewed |-> ConfiguredClient])

(* The web process holds one review, and none while it collects. *)
WebReview(c) ==
    /\ service = "adguard" /\ ~collecting /\ UNCHANGED <<collecting, kept>>
    /\ \/ offer = NoItem /\ ReadsStatus(c, "web") /\ UNCHANGED offer
       \/ /\ task[c].pc = "review"
          /\ IF enrolled # NoItem /\ offer = NoItem
             THEN Set(c, [pc |-> "offered", scope |-> enrolled]) /\ offer' = c
             ELSE Ends(c) /\ UNCHANGED offer

(* An approval is one-use even if the call fails. *)
WebDecision(c) ==
    /\ task[c].pc = "offered" /\ offer = c /\ offer' = NoItem
    /\ \/ Set(c, [pc |-> "begin"]) /\ collecting' = TRUE
       \/ Ends(c) /\ UNCHANGED collecting
    /\ UNCHANGED kept

(* The counts that the reply carries. *)
ReportedDuplicates(t) == t.deduplicated + Repeated(t.entries)

AddsUp(t) == t.inserted + ReportedDuplicates(t) + Skipped(t.entries) = Len(t.entries)

(* The reply, its verification, or the page's timeout while the controller  *)
(* goes on.                                                                 *)
WebAnswers(c) ==
    /\ task[c].who = "web" /\ collecting /\ collecting' = FALSE
    /\ \/ task[c].pc = "done" /\ Ends(c)
       \/ task[c].pc \in {"begin", "read", "recheck", "store"} /\ Set(c, [who |-> "gone"])
    /\ UNCHANGED <<offer, kept>>

(* The AdGuard command names a scope and nothing else, perhaps an old one.  *)
AdGuardCollectCommand(c) ==
    /\ service = "adguard"
    /\ \/ task[c].pc = "idle" /\ \E s \in 1..enrollments : Set(c, [pc |-> "begin", who |-> "command", scope |-> s])
       \/ task[c].pc = "done" /\ task[c].who # "web" /\ Ends(c)
    /\ UNCHANGED <<offer, collecting, kept>>

(* The OPNsense command shows the connection and the network and waits.     *)
OPNsenseCollectCommand(c) ==
    /\ service = "opnsense"
    /\ \/ ReadsStatus(c, "command")
       \/ task[c].pc = "review" /\ enrolled # NoItem /\ Set(c, [pc |-> "offered", scope |-> enrolled])
       \/ task[c].pc = "offered" /\ (Set(c, [pc |-> "begin"]) \/ Ends(c))
       \/ task[c].pc = "done" /\ Ends(c)
    /\ UNCHANGED <<offer, collecting, kept>>

-------------------------------------------------------------------------------
(* A collection: scope, audit, remote history, scope again, storage.        *)

(* GetNetworkScope and ValidateCurrentScope.  A scope's binding never       *)
(* changes, and a retired scope never returns.                              *)
ScopeIsCurrent(s) == enrolled = s /\ attached

(* A failed collection is audited and reported; the page stops waiting.     *)
Fails(c) ==
    /\ Ends(c) /\ UNCHANGED kept
    /\ collecting' = (collecting /\ task[c].who # "web")

Goes(c, fields) == Set(c, fields) /\ UNCHANGED <<kept, collecting>>

ChecksScope(c) ==
    /\ task[c].pc = "begin"
    /\ \/ ScopeIsCurrent(task[c].scope) /\ Goes(c, [pc |-> "read"])
       \/ ~ScopeIsCurrent(task[c].scope) /\ Fails(c)

Reads(c) ==
    \E s \in Snapshots :
        Goes(c, [pc |-> "recheck", from |-> ConfiguredClient, entries |-> s, reviewed |-> NoItem,
                 asReviewed |-> task[c].reviewed \in {NoItem, ConfiguredClient},
                 whileEnrolled |-> enrolled = task[c].scope])

(* Mutant: the reviewed origin is not compared. *)
ReadsAnyOrigin(c) ==
    /\ task[c].pc = "read" /\ op = NoItem
    /\ IF ConfiguredClient = NoItem THEN Fails(c) ELSE Reads(c)

(* ReadSnapshotBound and ReadSnapshot: the mutex is held through the read.  *)
ReadSnapshotBound(c) ==
    /\ task[c].pc = "read" /\ op = NoItem
    /\ IF ConfiguredClient = NoItem \/ task[c].reviewed \notin {NoItem, ConfiguredClient}
       THEN Fails(c) ELSE Reads(c)

RechecksScope(c) ==
    /\ task[c].pc = "recheck"
    /\ \/ ScopeIsCurrent(task[c].scope) /\ Goes(c, [pc |-> "store", rest |-> Observations(task[c].entries)])
       \/ ~ScopeIsCurrent(task[c].scope) /\ Fails(c)

(* Each observation is submitted and awaited; the store knows it by scope,  *)
(* origin and entry.                                                        *)
Key(c, e) == <<task[c].scope, task[c].from, e>>

StoresNext(c) ==
    /\ task[c].pc = "store"
    /\ \/ /\ \E e \in task[c].rest :
                /\ Set(c, [rest |-> task[c].rest \ {e},
                           inserted |-> task[c].inserted + Cardinality({Key(c, e)} \ kept),
                           deduplicated |-> task[c].deduplicated + Cardinality({Key(c, e)} \cap kept)])
                /\ kept' = kept \cup {Key(c, e)}
          /\ UNCHANGED collecting
       \/ task[c].rest # {} /\ Fails(c)                    \* ingestion refuses or fails
       \/ task[c].rest = {} /\ Goes(c, [pc |-> "done"])

Collect(c) ==
    /\ ChecksScope(c) \/ ReadSnapshotBound(c) \/ RechecksScope(c) \/ StoresNext(c)
    /\ UNCHANGED offer

AdGuardCollect(c) == service = "adguard" /\ Collect(c)
OPNsenseCollect(c) == service = "opnsense" /\ Collect(c)

-------------------------------------------------------------------------------
(* Surroundings *)

EnrollsAgain ==
    /\ enrolled = NoItem /\ enrollments < MaxEnrollments
    /\ enrollments' = enrollments + 1 /\ enrolled' = enrollments + 1 /\ attached' = TRUE
Retires == enrolled # NoItem /\ enrolled' = NoItem /\ UNCHANGED <<enrollments, attached>>
InterfaceChanges == attached' = ~attached /\ UNCHANGED <<enrolled, enrollments>>

NetworkChanges ==
    /\ EnrollsAgain \/ Retires \/ InterfaceChanges
    /\ UNCHANGED <<service, connection, faults, leaving, collection>>

(* A review of the page is replaced once it has expired. *)
OfferExpires ==
    /\ offer # NoItem /\ offer' = NoItem /\ Ends(offer)
    /\ UNCHANGED <<service, connection, faults, leaving, network, collecting, kept>>

(* The controller is killed and started again: the configuration, the       *)
(* keychain and what was stored remain, and the engine reads the file.      *)
ControllerRestarts ==
    /\ Fault /\ op' = NoItem /\ asked' = NoItem
    /\ applied' = IF setting = NoItem THEN "none" ELSE setting.desired
    /\ task' = [c \in Collectors |-> IF task[c].pc \in {"review", "offered"} THEN task[c] ELSE Idle]
    /\ collecting' = FALSE
    /\ UNCHANGED <<service, setting, vault, references, told, leaving, network, offer, kept>>

(* The user gives the connection up for good. *)
Leaves ==
    /\ ~leaving /\ leaving' = TRUE
    /\ UNCHANGED <<service, connection, faults, network, collection>>

Collections ==
    /\ \E c \in Collectors :
          \/ WebReview(c) \/ WebDecision(c) \/ WebAnswers(c)
          \/ AdGuardCollectCommand(c) \/ OPNsenseCollectCommand(c)
          \/ AdGuardCollect(c) \/ OPNsenseCollect(c)
    /\ UNCHANGED <<service, connection, faults, leaving, network>>

ExternalNext ==
    \/ Commands
    \/ AdGuardConnect \/ AdGuardUndoConnect \/ AdGuardDisconnect
    \/ OPNsenseConnect \/ OPNsenseUndoConnect \/ OPNsenseDisconnect
    \/ Collections \/ NetworkChanges \/ OfferExpires \/ ControllerRestarts \/ Leaves

ExternalSpec == ExternalInit /\ [][ExternalNext]_externalVars

(* An operation that holds the mutex goes on, and a user who leaves tries   *)
(* again as long as a configuration is left.                                *)
Proceeds == (Connect \/ UndoConnect \/ Disconnect) /\ Still
Retries == leaving /\ DisconnectCommand /\ Commands

ExternalFairness == WF_externalVars(Proceeds) /\ WF_externalVars(Retries)

-------------------------------------------------------------------------------
(* Every credential in the keychain is named by the durable configuration,  *)
(* so that it can be found and deleted, and an enabled configuration finds  *)
(* its credential: after every failure and every kill, between any two      *)
(* steps (adguard and opnsense Connect, undoConnect, Disconnect).           *)
CredentialAgrees ==
    /\ \A r \in vault : setting # NoItem /\ setting.ref = r
    /\ setting # NoItem /\ setting.desired = "enabled" => setting.ref \in vault \cup {NoItem}

(* A reported success is one.  A command that reports a connection leaves   *)
(* one that can be used, and one that reports a disconnection leaves        *)
(* neither configuration nor credential, until the next operation: through  *)
(* failures of every step, abandoned commands and restarts.  A collection   *)
(* that reports success accounts for every entry it read, as the page       *)
(* verifies, and everything it admitted is stored, although other           *)
(* collections store the same entries at the same time.                     *)
AnswerHolds ==
    /\ told = "connected" /\ op = NoItem => ConfiguredClient # NoItem
    /\ told = "disconnected" => setting = NoItem /\ vault = {}
    /\ \A c \in Collectors : task[c].pc = "done" =>
          /\ AddsUp(task[c])
          /\ \A e \in Observations(task[c].entries) : Key(c, e) \in kept

(* What a collection stores was read from the origin that the user reviewed *)
(* and while the chosen scope was the enrolled one, even when the service   *)
(* was connected elsewhere or the network retired and enrolled again during *)
(* the review or the read (CollectReviewed, ReadSnapshotBound).             *)
CollectedAsReviewed ==
    \A c \in Collectors : task[c].pc \in {"store", "done"} =>
        task[c].asReviewed /\ task[c].whileEnrolled

(* A user who keeps disconnecting gets rid of the configuration and of the  *)
(* credential, whatever failed or was killed half-way before.               *)
DisconnectCompletes == leaving ~> (setting = NoItem /\ vault = {} /\ op = NoItem)
===============================================================================
