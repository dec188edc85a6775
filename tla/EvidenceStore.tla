----------------------------- MODULE EvidenceStore -----------------------------
(***************************************************************************)
(* The two formats of the evidence store.  Old evidence is in rows; new    *)
(* Device Watch evidence is in batches: a payload of records, the routing  *)
(* group all its records share, the earliest expiry, and a lookup row per  *)
(* observation that names batch and slot.  Every action is one SQLite      *)
(* transaction; one that fails or is rolled back changes nothing.          *)
(*                                                                         *)
(* A record's claims and links are sets; the value of a claim is told      *)
(* apart by its kind and the device it is linked to.  The encoded size is  *)
(* 1 while claim and link ids can be derived from the observation and 2    *)
(* otherwise, so that removing a part makes a payload larger.              *)
(***************************************************************************)
EXTENDS Naturals, FiniteSets, SequencesExt

CONSTANTS Obs, Devices,
          Corrected,        \* devices under an active identity correction
          Retention,        \* duration of the standard class
          MaxSkew,          \* between the clock readings of one plan
          MaxRecords,       \* EvidenceBatchMaxRecords
          MaxBytes,         \* EvidenceBatchMaxBytes, in sizes as above
          MaxRows,          \* rows of one table in one pass
          MaxBatches,       \* batches in one pass
          MaxTime, SetBack, \* bound of the clock; it may be set back
          MaxHeld, MaxId,   \* bounds of this model: records, batch ids
          None

Kinds == {"mac", "ip"}

ASSUME StoreAssumption ==
    /\ Retention \in Nat \ {0} /\ MaxSkew \in Nat /\ MaxRecords \in Nat \ {0}
    /\ MaxBytes \in Nat \ {0, 1} /\ MaxRows \in Nat \ {0} /\ MaxBatches \in Nat \ {0}
    /\ MaxTime \in Nat /\ MaxHeld \in Nat /\ MaxId \in Nat /\ SetBack \in BOOLEAN /\ Corrected \subseteq Devices
    /\ None \notin Obs \cup Devices

VARIABLES now,
          batches,     \* id -> [records, group, nextExpiry]
          groups,      \* routings with a row in evidence_batch_identity_groups
          lookup,      \* observation -> [batch, slot, exp]
          rowObs, rowClaims, rowLinks,     \* the legacy tables
          devices
vars == <<now, batches, groups, lookup, rowObs, rowClaims, rowLinks, devices>>
rows == <<rowObs, rowClaims, rowLinks>>
-------------------------------------------------------------------------------
(* Records and payloads *)

Ids(s) == {x.id : x \in s}

CanDerive(r) == r.obs # None /\ Cardinality(r.claims) = 2 /\ Cardinality(r.links) = 2
Size(r) == IF CanDerive(r) THEN 1 ELSE 2
Bytes(records) == FoldLeft(LAMBDA n, r : n + Size(r), 0, records)
Fits(records) == Len(records) <= MaxRecords /\ Bytes(records) <= MaxBytes

Routing(r) == {<<l.claim[2], l.device>> : l \in r.links}

Expiries(r) == {c.exp : c \in r.claims} \cup (IF r.obs = None THEN {} ELSE {r.exp})

(* Mutant: the latest expiry. *)
lastEvidenceBatchExpiry(records) == Max(UNION {Expiries(records[n]) : n \in DOMAIN records})

nextEvidenceBatchExpiry(records) == Min(UNION {Expiries(records[n]) : n \in DOMAIN records})

Batch(records) == [records |-> records, group |-> Routing(records[1]),
                   nextExpiry |-> nextEvidenceBatchExpiry(records)]

(* As many records as fit, then the next part. *)
partitionRetainedEvidence(records) ==
    FoldLeft(LAMBDA parts, r :
                IF parts # <<>> /\ Fits(Append(Last(parts), r))
                   THEN Append(Front(parts), Append(Last(parts), r))
                   ELSE Append(parts, <<r>>),
             <<>>, records)

(* Mutant: records that are routed differently stay together. *)
partitionBySize(records) == partitionRetainedEvidence(records)

(* By routing, in the order of first occurrence, then by size. *)
partitionIdentityEvidence(records) ==
    LET routings == FoldLeft(LAMBDA seen, r :
                               IF \E n \in DOMAIN seen : seen[n] = Routing(r)
                                  THEN seen ELSE Append(seen, Routing(r)),
                             <<>>, records)
    IN  FlattenSeq([n \in DOMAIN routings |->
           partitionRetainedEvidence(SelectSeq(records, LAMBDA r : Routing(r) = routings[n]))])

(* The batch tables as one value, for operations that rewrite several. *)
Tables == [batches |-> batches, groups |-> groups, lookup |-> lookup]

LookupRows(id, records) ==
    [o \in {records[n].obs : n \in DOMAIN records} \ {None} |->
        LET n == CHOOSE m \in DOMAIN records : records[m].obs = o
        IN  [batch |-> id, slot |-> n, exp |-> records[n].exp]]

Join(f, g) == [x \in DOMAIN f \cup DOMAIN g |-> IF x \in DOMAIN g THEN g[x] ELSE f[x]]
RestrictTo(f, S) == [x \in S |-> f[x]]

(* A rowid that SQLite gives a new batch. *)
NextId(b) == IF b = {} THEN 1 ELSE Max(b) + 1

GroupsUsed(b) == {b[id].group : id \in DOMAIN b}

removeUnusedEvidenceBatchIdentityGroup(t, routing) ==
    [t EXCEPT !.groups = IF routing \in GroupsUsed(t.batches) THEN @ ELSE @ \ {routing}]

(* The first part keeps the id, the others get new ones; the lookup rows   *)
(* of the batch are rebuilt.                                               *)
rewriteEvidenceBatchRecords(t, id, retained) ==
    LET parts == partitionIdentityEvidence(retained)
        old   == t.batches[id].group
        kept  == {o \in DOMAIN t.lookup : t.lookup[o].batch # id}
        cleared == [t EXCEPT !.lookup = RestrictTo(@, kept)]
        Put(u, n) ==
            LET b == IF n = 1 THEN id ELSE NextId(DOMAIN u.batches)
            IN  [batches |-> Join(u.batches, [x \in {b} |-> Batch(parts[n])]),
                 groups  |-> u.groups \cup {Routing(parts[n][1])},
                 lookup  |-> Join(u.lookup, LookupRows(b, parts[n]))]
        put == IF parts = <<>>
                  THEN [cleared EXCEPT !.batches = RestrictTo(@, DOMAIN @ \ {id})]
                  ELSE FoldLeft(Put, cleared, [n \in 1..Len(parts) |-> n])
    IN  removeUnusedEvidenceBatchIdentityGroup(put, old)

SetTables(t) == batches' = t.batches /\ groups' = t.groups /\ lookup' = t.lookup

(* ON DELETE SET NULL of a row's reference to an observation. *)
SetNull(x, gone) == IF x \in gone THEN None ELSE x

WithoutObservation(r) ==
    [r EXCEPT !.obs = None, !.exp = 0,
              !.claims = {[c EXCEPT !.source = None] : c \in r.claims},
              !.links = {[l EXCEPT !.evidence = None] : l \in r.links}]

NonEmpty(records) == SelectSeq(records, LAMBDA r : r.obs # None \/ r.claims # {})
MapRecords(records, Op(_)) == NonEmpty([n \in DOMAIN records |-> Op(records[n])])
-------------------------------------------------------------------------------
(* Ingestion *)

ClaimId(o, k) == <<o, k>>

NewClaims(o, skew) == {[id |-> ClaimId(o, k), exp |-> now + Retention + skew, source |-> o] : k \in Kinds}
NewLinks(o, d) ==
    IF d = None THEN {}
    ELSE {[claim |-> ClaimId(o, k), device |-> d, evidence |-> o] : k \in Kinds}

Init ==
    /\ now = 0 /\ batches = <<>> /\ groups = {} /\ lookup = <<>>
    /\ rowObs \in {[o \in S |-> Retention] : S \in SUBSET Obs}
    /\ rowClaims = {} /\ rowLinks = {} /\ devices = {}

(* Mutant: only the batches are probed for a replay. *)
ReplayInBatches(o) == o \in DOMAIN lookup

(* evidenceBatchObservationReplay: in either format, expired or not. *)
IsReplay(o) == o \in DOMAIN lookup \/ o \in DOMAIN rowObs

(* appendEvidenceBatch: to the newest batch of the routing if it fits. *)
appendEvidenceBatch(r) ==
    LET same == {id \in DOMAIN batches : batches[id].group = Routing(r)}
        last == Max(same)
        join == same # {} /\ Fits(Append(batches[last].records, r))
        id   == IF join THEN last ELSE NextId(DOMAIN batches)
        records == IF join THEN Append(batches[last].records, r) ELSE <<r>>
    IN  /\ batches' = Join(batches, [x \in {id} |-> Batch(records)])
        /\ groups' = groups \cup {Routing(r)}
        /\ lookup' = Join(lookup, [x \in {r.obs} |->
                         [batch |-> id, slot |-> Len(records), exp |-> r.exp]])

HasRoom == /\ FoldLeft(LAMBDA n, id : n + Len(batches[id].records), 0, SetToSeq(DOMAIN batches)) < MaxHeld
           /\ NextId(DOMAIN batches) <= MaxId

(* The planner picks a device, a new one, or none when it is ambiguous.    *)
(* Identity rows that already carry the ids refuse the plan.               *)
Stage(o, d, skew) ==
    /\ ~IsReplay(o) /\ HasRoom
    /\ \A k \in Kinds : ClaimId(o, k) \notin Ids(rowClaims)
    /\ appendEvidenceBatch([obs |-> o, exp |-> now + Retention,
                            claims |-> NewClaims(o, skew), links |-> NewLinks(o, d)])
    /\ devices' = devices \cup ({d} \ {None})
    /\ UNCHANGED <<now, rows>>

(* A replay of an unexpired row observation completes what is missing: an  *)
(* existing claim and an existing link stay as they are.                   *)
RepairLegacy(o, d) ==
    /\ o \in DOMAIN rowObs /\ rowObs[o] > now
    /\ LET have == {c.id : c \in {x \in rowClaims : x.source = o}}
           add  == {c \in NewClaims(o, 0) : c.id \notin have}
       IN  /\ Ids(add) \cap Ids(rowClaims) = {}
           /\ rowClaims' = rowClaims \cup add
    /\ rowLinks' = rowLinks \cup
          {l \in NewLinks(o, d) : ~\E m \in rowLinks : m.claim = l.claim /\ m.device = d}
    /\ devices' = devices \cup ({d} \ {None})
    /\ UNCHANGED <<now, batches, groups, lookup, rowObs>>

-------------------------------------------------------------------------------
(* Retention *)

(* Mutant: the record goes with its observation. *)
retainedWhileObserved(r, at) ==
    IF r.obs # None /\ r.exp <= at THEN [r EXCEPT !.obs = None, !.claims = {}, !.links = {}]
    ELSE r

retainedEvidenceAfter(r, at) ==
    LET s == IF r.obs # None /\ r.exp <= at THEN WithoutObservation(r) ELSE r
        kept == {c \in s.claims : c.exp > at}
    IN  [s EXCEPT !.claims = kept, !.links = {l \in s.links : l.claim \in Ids(kept)}]

pruneEvidenceBatch(t, id) ==
    rewriteEvidenceBatchRecords(t, id,
        MapRecords(t.batches[id].records, LAMBDA r : retainedEvidenceAfter(r, now)))

(* The due batch that comes first in (next_expiry_ns, id). *)
Due(t) == {id \in DOMAIN t.batches : t.batches[id].nextExpiry <= now}
FirstDue(t) == CHOOSE id \in Due(t) : \A other \in Due(t) :
                  \/ t.batches[id].nextExpiry < t.batches[other].nextExpiry
                  \/ t.batches[id].nextExpiry = t.batches[other].nextExpiry /\ id <= other

(* What a pass rewrites is not due again in it, so that taking the first   *)
(* due batch each time is taking the ids selected at the start.            *)
pruneEvidenceBatches(t) ==
    FoldLeft(LAMBDA u, n : IF Due(u) = {} THEN u ELSE pruneEvidenceBatch(u, FirstDue(u)),
             t, [n \in 1..MaxBatches |-> n])

(* The earliest MaxRows of the expired rows of a table. *)
Oldest(S, Exp(_)) ==
    {P \in SUBSET {x \in S : Exp(x) <= now} :
        /\ Cardinality(P) = Min({MaxRows, Cardinality({x \in S : Exp(x) <= now})})
        /\ \A x \in P, y \in S \ P : Exp(x) <= Exp(y)}

(* Rows: claims go with their links, then observations, whose references   *)
(* become NULL.                                                            *)
pruneLegacyExpired ==
    \E C \in Oldest(rowClaims, LAMBDA c : c.exp),
       O \in Oldest(DOMAIN rowObs, LAMBDA o : rowObs[o]) :
          /\ rowObs' = RestrictTo(rowObs, DOMAIN rowObs \ O)
          /\ rowClaims' = {[c EXCEPT !.source = SetNull(@, O)] : c \in rowClaims \ C}
          /\ rowLinks' = {[l EXCEPT !.evidence = SetNull(@, O)] :
                             l \in {m \in rowLinks : m.claim \notin Ids(C)}}

PruneEvidenceBatchExpired ==
    /\ pruneLegacyExpired
    /\ SetTables(pruneEvidenceBatches(Tables))
    /\ UNCHANGED <<now, devices>>
-------------------------------------------------------------------------------
(* Deletion on request *)

DeleteEvidenceBatchObservation(o) ==
    \/ /\ o \in DOMAIN rowObs
       /\ rowObs' = RestrictTo(rowObs, DOMAIN rowObs \ {o})
       /\ rowClaims' = {[c EXCEPT !.source = SetNull(@, {o})] : c \in rowClaims}
       /\ rowLinks' = {[l EXCEPT !.evidence = SetNull(@, {o})] : l \in rowLinks}
       /\ UNCHANGED <<now, batches, groups, lookup, devices>>
    \/ /\ o \in DOMAIN lookup
       /\ LET at == lookup[o]
              records == batches[at.batch].records
          IN  SetTables(rewriteEvidenceBatchRecords(Tables, at.batch,
                 NonEmpty([records EXCEPT ![at.slot] = WithoutObservation(@)])))
       /\ UNCHANGED <<now, rows, devices>>

WithoutClaim(r, c) ==
    [r EXCEPT !.claims = {x \in @ : x.id # c}, !.links = {l \in @ : l.claim # c}]

(* Every batch up to the largest id at the start that holds the claim; the *)
(* ones a rewrite adds no longer hold it.                                  *)
DeleteEvidenceBatchClaim(c) ==
    LET holds(id) == \E n \in DOMAIN batches[id].records : c \in Ids(batches[id].records[n].claims)
        ids == SetToSortSeq({id \in DOMAIN batches : holds(id)}, LAMBDA a, b : a < b)
    IN  /\ ids # <<>> \/ c \in Ids(rowClaims)
        /\ SetTables(FoldLeft(LAMBDA t, id : rewriteEvidenceBatchRecords(t, id,
                         MapRecords(t.batches[id].records, LAMBDA r : WithoutClaim(r, c))),
                     Tables, ids))
        /\ rowClaims' = {x \in rowClaims : x.id # c}
        /\ rowLinks' = {l \in rowLinks : l.claim # c}
        /\ UNCHANGED <<now, rowObs, devices>>

WithoutDevice(r, d) == [r EXCEPT !.links = {l \in @ : l.device # d}]

RoutesTo(d) == {routing \in groups : \E k \in Kinds : <<k, d>> \in routing}

(* The batches routed to the device lose its links, in the order of their  *)
(* ids; a trigger then refuses the deletion while any route is left.       *)
DeleteEvidenceBatchDevice(d) ==
    LET ids == SetToSortSeq({id \in DOMAIN batches : batches[id].group \in RoutesTo(d)},
                            LAMBDA a, b : a < b)
    IN  /\ d \in devices \ Corrected
        /\ SetTables(FoldLeft(LAMBDA t, id : rewriteEvidenceBatchRecords(t, id,
                         MapRecords(t.batches[id].records, LAMBDA r : WithoutDevice(r, d))),
                     Tables, ids))
        /\ \A routing \in groups' : \A k \in Kinds : <<k, d>> \notin routing
        /\ rowLinks' = {l \in rowLinks : l.device # d}
        /\ devices' = devices \ {d}
        /\ UNCHANGED <<now, rowObs, rowClaims>>

Tick == /\ \E t \in 0..MaxTime : (t = now + 1 \/ (SetBack /\ t < now)) /\ now' = t
        /\ UNCHANGED <<batches, groups, lookup, rows, devices>>

Removal ==
    \/ PruneEvidenceBatchExpired
    \/ \E o \in Obs :
          \/ DeleteEvidenceBatchObservation(o)
          \/ \E k \in Kinds : DeleteEvidenceBatchClaim(ClaimId(o, k))
    \/ \E d \in Devices : DeleteEvidenceBatchDevice(d)

Next ==
    \/ \E o \in Obs, d \in Devices \cup {None} :
          RepairLegacy(o, d) \/ \E skew \in 0..MaxSkew : Stage(o, d, skew)
    \/ Removal
    \/ Tick

Spec == Init /\ [][Next]_vars

(* What a pass selects: it changes the state exactly when there is some. *)
PassHasWork == \/ Due(Tables) # {}
               \/ \E c \in rowClaims : c.exp <= now
               \/ \E o \in DOMAIN rowObs : rowObs[o] <= now

(* Maintenance runs a pass every fifteen minutes: weak fairness of it,     *)
(* with PassHasWork for ENABLED.                                           *)
Fairness == ([]<>~PassHasWork \/ []<><<PruneEvidenceBatchExpired>>_vars)
-------------------------------------------------------------------------------
(* Properties *)

Records == UNION {{id} \X DOMAIN batches[id].records : id \in DOMAIN batches}
RecordAt(x) == batches[x[1]].records[x[2]]

(* What the code checks of a batch before it appends to it or rewrites it. *)
validateRetainedBatchBundle(r) ==
    /\ r.obs # None \/ r.claims # {}
    /\ \A c \in r.claims : c.source = r.obs
    /\ \A c1, c2 \in r.claims : c1.id = c2.id => c1 = c2
    /\ \A l \in r.links : l.claim \in Ids(r.claims) /\ l.evidence = r.obs

validateEvidenceBatchIdentityGroup(b) ==
    b.group \in groups /\ \A n \in DOMAIN b.records : Routing(b.records[n]) = b.group

validateEvidenceBatchLookups(id) ==
    LookupRows(id, batches[id].records) =
        RestrictTo(lookup, {o \in DOMAIN lookup : lookup[o].batch = id})

(* Every batch passes the code's own checks after every rewrite, and is    *)
(* within its limits, and no lookup row names a batch that is gone: one    *)
(* batch that failed would make every later pass roll back.  Routing       *)
(* groups exist exactly while a batch uses them: a stale one would keep    *)
(* the device-deletion trigger raised for good.                            *)
IndexesAgree ==
    /\ \A id \in DOMAIN batches :
          LET b == batches[id]
          IN  /\ b.records # <<>> /\ Fits(b.records)
              /\ b.nextExpiry = nextEvidenceBatchExpiry(b.records)
              /\ \A n \in DOMAIN b.records : validateRetainedBatchBundle(b.records[n])
              /\ validateEvidenceBatchIdentityGroup(b)
              /\ validateEvidenceBatchLookups(id)
    /\ \A o \in DOMAIN lookup : lookup[o].batch \in DOMAIN batches
    /\ groups = GroupsUsed(batches)

(* References resolve across the tables: a source key is held at most      *)
(* once, whichever format holds it, a link in either format names a device *)
(* that exists, a row's link its claim, and a row names an observation     *)
(* only while it is held.                                                  *)
ReferencesResolve ==
    /\ \A o \in DOMAIN rowObs : o \notin DOMAIN lookup
    /\ \A x, y \in Records : RecordAt(x).obs # None /\ RecordAt(x).obs = RecordAt(y).obs => x = y
    /\ \A x \in Records : \A l \in RecordAt(x).links : l.device \in devices
    /\ \A c \in rowClaims : c.source \in DOMAIN rowObs \cup {None}
    /\ \A l \in rowLinks :
          /\ l.claim \in Ids(rowClaims) /\ l.device \in devices
          /\ l.evidence \in DOMAIN rowObs \cup {None}

(* Both formats together behave as one set of retained evidence. *)
Retained == INSTANCE EvidenceRetention WITH
    observations <- {[id |-> o, exp |-> rowObs[o]] : o \in DOMAIN rowObs} \cup
                    {[id |-> o, exp |-> lookup[o].exp] : o \in DOMAIN lookup},
    claims <- {[id |-> c.id, exp |-> c.exp, source |-> c.source,
                devices |-> {l.device : l \in {m \in rowLinks : m.claim = c.id}}] : c \in rowClaims}
              \cup UNION {{[id |-> c.id, exp |-> c.exp, source |-> c.source,
                            devices |-> {l.device : l \in {m \in RecordAt(x).links : m.claim = c.id}}] :
                              c \in RecordAt(x).claims} : x \in Records}

(* Evidence leaves only because it expired or was named, what stays keeps  *)
(* its expiry and its links, and nothing that expired comes back by a      *)
(* replay while it is held.                                                *)
ImplementsRetention == Retained!Spec

(* Nothing due at the present time is held. *)
NothingDue ==
    /\ \A o \in DOMAIN rowObs : rowObs[o] > now
    /\ \A c \in rowClaims : c.exp > now
    /\ \A x \in Records : \A e \in Expiries(RecordAt(x)) : e > now

(* Bounded passes catch up: expired evidence does not stay for ever,       *)
(* whatever is ingested or deleted between the passes.                     *)
DueEvidenceGoes == []<>NothingDue
===============================================================================
