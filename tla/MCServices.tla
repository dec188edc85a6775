------------------------------ MODULE MCServices ------------------------------
(* The controller's interface to its users and to two external services: a  *)
(* behaviour explores one of them, named by `focus'.                        *)
EXTENDS ControlApi, ExternalConnection

VARIABLE focus

Ask(m, x) == [method |-> m, arg |-> x]

Asks ==
    {Ask("enroll", "en0"), Ask("enroll", "en1"), Ask("retire", 1), Ask("enable", 0), Ask("disable", 0),
     Ask("check", 0), Ask("acknowledge", 0), Ask("label", "tv"), Ask("merge", "d2"), Ask("unmerge", 0),
     Ask("split", "d2"), Ask("unsplit", 0), Ask("save", "s1"), Ask("unsave", "s1")}

WatchedApp == [EmptyApp EXCEPT !.network = [id |-> 1, on |-> "en0"], !.scopes = 1, !.watched = 1]

Apps == {EmptyApp, WatchedApp}

History == {<<"q1", "q1", "hidden">>}

(* A service that is connected and a network that is enrolled. *)
ConnectedInit ==
    /\ service \in {"adguard", "opnsense"}
    /\ setting = [Configuration(1, IF service = "opnsense" THEN 1 ELSE NoItem) EXCEPT !.desired = "enabled"]
    /\ vault = {setting.ref} \ {NoItem} /\ applied = "enabled" /\ op = NoItem /\ references = 1
    /\ asked = NoItem /\ told = NoItem /\ faults = 0 /\ leaving = FALSE
    /\ enrolled = 1 /\ enrollments = 1 /\ attached = TRUE
    /\ offer = NoItem /\ collecting = FALSE /\ task = [c \in Collectors |-> Idle] /\ kept = {}

Init ==
    /\ focus \in {"process", "answers", "connection", "collection"}
    /\ ControlApiInit /\ (focus # "answers" => app = EmptyApp)
    /\ IF focus = "collection" THEN ConnectedInit ELSE ExternalInit
    /\ focus \in {"process", "answers"} => service = "adguard"

(* Two processes and two kinds of request; one process and enough of one    *)
(* kind to exceed the limit on connections.                                 *)
ProcessFocus ==
    /\ \A c \in Clients : page'[c].ask \in {Missing, Ask("check", 0), Ask("enroll", "en0")}
    /\ sends' > 2 => boots' = 1 /\ app' = EmptyApp /\ \A c \in Clients : page'[c].ask # Ask("enroll", "en0")

(* One process, which may be killed and is not started again, and requests  *)
(* that touch the same part of the state.                                   *)
Topics ==
    {{"enroll", "retire", "enable", "disable", "save", "unsave"},
     {"disable", "acknowledge", "label", "merge", "unmerge", "split", "unsplit"}}

AnswersFocus ==
    /\ boots' <= 1 /\ phase'[2] = "off" /\ phase'[1] # "draining" /\ sends' <= 2
    /\ \E topic \in Topics : \A c \in Clients : page'[c].ask # Missing => page'[c].ask.method \in topic

(* Collections, while either the connection or the network changes.  The    *)
(* mutex orders a connection's operation and the reads, so that nothing     *)
(* else moves during one.                                                   *)
CollectionFocus ==
    /\ UNCHANGED <<faults, leaving>>
    /\ (op = NoItem /\ asked = NoItem) \/ UNCHANGED <<network, collection>>
    /\ op' # NoItem => op'.awaited
    /\ told' # "failed"
    /\ \/ enrollments' = 1 /\ enrolled' = 1 /\ attached'
       \/ op' = NoItem /\ asked' = NoItem /\ references' = 1
    /\ asked' \notin {asked, NoItem} =>
          \E c \in Collectors : task[c].reviewed # NoItem /\ task[c].pc \in {"review", "offered", "begin", "read"}
    /\ asked' # NoItem /\ asked'.kind = "connect" =>
          asked'.endpoint = references + 1 /\ asked'.credential = (service = "opnsense")

Next ==
    /\ UNCHANGED focus
    /\ \/ /\ focus \in {"process", "answers"}
          /\ ControlApiNext /\ UNCHANGED externalVars
          /\ focus = "process" => ProcessFocus
          /\ focus = "answers" => AnswersFocus
       \/ /\ focus \in {"connection", "collection"}
          /\ ExternalNext /\ UNCHANGED controlApiVars
          /\ focus = "connection" => UNCHANGED <<network, collection>>
          /\ focus = "collection" => CollectionFocus

Spec == Init /\ [][Next]_<<controlApiVars, externalVars, focus>> /\ ExternalFairness
===============================================================================
