------------------------------ MODULE MCIngestion ------------------------------
(* Instances of Ingestion for TLC. *)
EXTENDS Ingestion

(* Items and keys are interchangeable: they are numbered in the order in   *)
(* which they are submitted.  The third item joins while the worker is     *)
(* busy and the channel full, with the key of the others.                  *)
InTurn ==
    /\ \A i, j \in Items : i < j /\ pc'[j] # "new" => pc'[i] # "new"
    /\ key'[1] \in {None, 1}
    /\ pc[3] = "new" /\ pc'[3] # "new" =>
          /\ pc'[3] = "begun" /\ current # None /\ Len(queue) = Capacity
          /\ \A i \in Items : key'[i] = 1

MCSpec == Init /\ [][Next /\ InTurn]_vars /\ Fairness
===============================================================================
