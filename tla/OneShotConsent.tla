---------------------------- MODULE OneShotConsent ----------------------------
(***************************************************************************)
(* What a run control promises about a consent, without saying how: at     *)
(* most one ticket is live, a ticket only ever moves forward, an execution *)
(* happens at most once per granted ticket and only after the durable      *)
(* ledger says that it was authorized and admitted, and not after the      *)
(* ledger says that the run is finished.                                   *)
(***************************************************************************)
CONSTANT Tickets

VARIABLES stage,      \* how far each ticket has come
          ledger,     \* the phases each ticket's run has durably recorded
          performed   \* tickets whose execution was started

consent == <<stage, ledger, performed>>

Init ==
    /\ stage = [t \in Tickets |-> "unused"]
    /\ ledger = [t \in Tickets |-> {}]
    /\ performed = {}

Quiescent == \A t \in Tickets : stage[t] \in {"unused", "spent"}

Move(t, from, to) ==
    /\ stage[t] = from
    /\ stage' = [stage EXCEPT ![t] = to]
    /\ UNCHANGED <<ledger, performed>>

Offer(t) == Quiescent /\ Move(t, "unused", "offered")
Withdraw(t) == Move(t, "offered", "spent")
Grant(t) == Move(t, "offered", "granted")
End(t) == Move(t, "granted", "spent")

(* A phase is recorded once; "admitted" only after "authorized". *)
Log(t, phase) ==
    /\ stage[t] = "granted"
    /\ phase \notin ledger[t] /\ "finished" \notin ledger[t]
    /\ phase # "authorized" => "authorized" \in ledger[t]
    /\ ledger' = [ledger EXCEPT ![t] = @ \cup {phase}]
    /\ UNCHANGED <<stage, performed>>

Perform(t) ==
    /\ stage[t] = "granted"
    /\ ledger[t] = {"authorized", "admitted"}
    /\ t \notin performed
    /\ performed' = performed \cup {t}
    /\ UNCHANGED <<stage, ledger>>

Next ==
    \E t \in Tickets :
       \/ Offer(t) \/ Withdraw(t) \/ Grant(t) \/ End(t) \/ Perform(t)
       \/ \E phase \in {"authorized", "admitted", "finished"} : Log(t, phase)

Spec == Init /\ [][Next]_consent
===============================================================================
