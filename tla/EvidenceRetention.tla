--------------------------- MODULE EvidenceRetention ---------------------------
(***************************************************************************)
(* What the evidence store promises, whatever the format: observations and *)
(* identity claims with the expiry they were given when they were stored,  *)
(* claims linked to devices.  Evidence leaves because it expired or        *)
(* because it was named; what stays keeps its expiry; a claim whose        *)
(* observation has left no longer refers to it.                            *)
(***************************************************************************)
EXTENDS Naturals

CONSTANT None

VARIABLES now,          \* the controller's clock
          observations, \* records [id, exp]
          claims,       \* records [id, exp, source, devices]
          devices
vars == <<now, observations, claims, devices>>

Init ==
    /\ \A o, p \in observations : o.id = p.id => o = p
    /\ claims = {} /\ devices = {}

(* New evidence: an observation that is not held, with claims about it     *)
(* whose expiry lies ahead, linked to known or new devices.                *)
Ingest ==
    /\ \E o \in observations' :
          /\ o.id \notin {p.id : p \in observations} /\ o.exp > now
          /\ observations' = observations \cup {o}
          /\ \A c \in claims' \ claims : c.source = o.id /\ c.exp > now
    /\ claims \subseteq claims'
    /\ devices \subseteq devices' /\ \A c \in claims' : c.devices \subseteq devices'
    /\ UNCHANGED now

(* Evidence that was left incomplete gets its missing claims and links.    *)
Repair ==
    /\ \E o \in observations :
          /\ o.exp > now
          /\ \A c \in claims' \ claims : c.source = o.id
          /\ \A c \in claims \ claims' : \E d \in claims' :
                /\ d.id = c.id /\ d.exp = c.exp /\ d.source = c.source
                /\ c.devices \subseteq d.devices
    /\ devices \subseteq devices' /\ \A c \in claims' : c.devices \subseteq devices'
    /\ UNCHANGED <<now, observations>>

Without(c, gone, unlinked) ==
    [c EXCEPT !.source = IF c.source \in {o.id : o \in gone} THEN None ELSE c.source,
              !.devices = c.devices \ unlinked]

Remove(O, C, D) ==
    /\ observations' = observations \ O
    /\ claims' = {Without(c, O, D) : c \in claims \ C}
    /\ devices' = devices \ D
    /\ UNCHANGED now

Expire ==
    LET O == {o \in observations : o.exp <= now /\ o \notin observations'}
    IN  Remove(O, {c \in claims : c.exp <= now /\ Without(c, O, {}) \notin claims'}, {})

DeleteObservation == \E o \in observations : Remove({o}, {}, {})
DeleteClaim == \E c \in claims : Remove({}, {d \in claims : d.id = c.id}, {})
DeleteDevice == \E d \in devices : Remove({}, {}, {d})

Clock == now' # now /\ UNCHANGED <<observations, claims, devices>>

Next == Ingest \/ Repair \/ Expire \/ DeleteObservation \/ DeleteClaim \/ DeleteDevice \/ Clock

Spec == Init /\ [][Next]_vars
===============================================================================
