-------------------------- MODULE MCDeviceCorrections --------------------------
(* Instances of DeviceCorrections for TLC. *)
EXTENDS DeviceViews

(* Observations are numbered in the order of their arrival; their times    *)
(* are free.                                                               *)
InOrder == \A o \in known, x \in Obs : x < o => x \in known

MacSymmetry == Permutations(Macs)
===============================================================================
