---------------------------- MODULE MCEvidenceStore ----------------------------
(* The instance of EvidenceStore for TLC. *)
EXTENDS EvidenceStore

CONSTANTS o1, o2, d1, d2

(* One observation has a device or none, and the clock may move while it   *)
(* is planned; the other shares its device or has the corrected one.       *)
(* Repairs are of the shared device.                                       *)
DevicesOf(o) == IF o = o1 THEN {None, d1} ELSE {d1, d2}
Skews(o) == IF o = o1 THEN 0..MaxSkew ELSE {0}

MCNext ==
    \/ \E o \in Obs : \E d \in DevicesOf(o), skew \in Skews(o) : Stage(o, d, skew)
    \/ \E o \in Obs : RepairLegacy(o, d1)
    \/ Removal
    \/ Tick

MCSpec == Init /\ [][MCNext]_vars /\ Fairness
===============================================================================
