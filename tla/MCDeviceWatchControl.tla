------------------------ MODULE MCDeviceWatchControl ------------------------
(***************************************************************************)
(* Small instances of DeviceWatchControl: two networks and two or three    *)
(* scope identifiers, so that a scope can be retired and the same network, *)
(* or another one, enrolled again.                                         *)
(***************************************************************************)
EXTENDS DeviceWatchControl, TLC

CONSTANTS s1, s2, n1, n2

(* Each network has one identifier, for a replacement elsewhere.           *)
Elsewhere == s1 :> n1 @@ s2 :> n2

(* One network is enrolled twice.                                          *)
SameAgain == [s \in Scopes |-> n1]
=============================================================================
