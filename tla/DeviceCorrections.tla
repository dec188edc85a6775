--------------------------- MODULE DeviceCorrections ---------------------------
(***************************************************************************)
(* Device identities of one enrolled scope: how a neighbour observation is *)
(* attached to a device, and the user's corrections on top, merges of two  *)
(* devices and splits of one observation.  Evidence is immutable: links    *)
(* keep the device they were inferred for, and readers apply the           *)
(* corrections.  Every action is one SQLite transaction.  Retiring the     *)
(* scope only disables actions, so the scope stays enrolled here.          *)
(*                                                                         *)
(* An observation carries two claims, "ip" and "mac", each linked to the   *)
(* device or, when the match is ambiguous, not linked.  Evidence that an   *)
(* earlier version stored is in rows, later evidence in batches (`era').   *)
(* Ids are numbers because readers sort by them.                           *)
(***************************************************************************)
EXTENDS Integers, FiniteSets

CONSTANTS Obs,                   \* observation ids
          Fresh,                 \* ids of the devices that splits make
          Macs, Times,
          Horizon,               \* macContinuityHorizon
          MaxMerges, MaxSplits,  \* MaxDeviceMergesPerScope, MaxDeviceSplitsPerScope
          MaxDetail              \* MaxDeviceDetailEvidence

ASSUME IdsAssumption ==
    /\ Obs \subseteq Nat \ {0} /\ Fresh \subseteq Nat /\ Times \subseteq Nat
    /\ \A o \in Obs, d \in Fresh : o < d
    /\ Horizon \in Nat /\ MaxMerges \in Nat /\ MaxSplits \in Nat /\ MaxDetail \in Nat

VARIABLES era,        \* format in which new evidence is stored: "row", "batch"
          known,      \* observations ever stored (their ids stay deduplicated)
          links,      \* retained links, each with its claim and observation
          devices,    \* device -> created_at
          merges,     \* source -> target
          splits,     \* observation -> [source, target, kinds, at, mac]
          made        \* device_identity_split_targets

evidence    == <<known, links>>
corrections == <<merges, splits, made>>
deviceVars        == <<era, evidence, devices, corrections>>

(* A device inferred for an observation is named after it (a digest of its *)
(* id), and "device.dw." sorts before the "device.split." of the others.   *)
Devices == Obs \cup Fresh

Kinds == {"ip", "mac"}

Links == [obs : Obs, kind : Kinds, device : Devices, at : Times, mac : Macs, format : {"row", "batch"}]

DevicesInit ==
    /\ era = "row"
    /\ known = {} /\ links = {}
    /\ devices = <<>> /\ merges = <<>> /\ splits = <<>> /\ made = {}

-------------------------------------------------------------------------------
(* Reading the corrections *)

canonical(d) == IF d \in DOMAIN merges THEN merges[d] ELSE d

MergeTargets == {merges[s] : s \in DOMAIN merges}

Merged(d) == d \in DOMAIN merges \/ d \in MergeTargets

SplitSources == {splits[o].source : o \in DOMAIN splits}

SplitTargets == {splits[o].target : o \in DOMAIN splits}

(* A link or a split carries the address and is in the window before `at'. *)
Recent(x, mac, at) == x.mac = mac /\ x.at >= at - Horizon /\ x.at <= at

(* The devices whose original links carry the address in the window. *)
Matching(mac, at) ==
    {l.device : l \in {x \in links : x.kind = "mac" /\ Recent(x, mac, at)}}

(* Mutant: a split's target is not added to the candidates. *)
FindWithoutSplits(mac, at) == {canonical(d) : d \in Matching(mac, at)}

(* Mutant: a merge source is not resolved to its target. *)
FindUnresolved(mac, at) == Matching(mac, at)

(* FindRecentDevicesByClaim, corrected. *)
FindRecentDevicesByClaim(mac, at) ==
    LET found == Matching(mac, at)
        moved == {o \in DOMAIN splits : /\ "mac" \in splits[o].kinds
                                        /\ Recent(splits[o], mac, at)
                                        /\ splits[o].source \in found}
    IN  {canonical(d) : d \in found} \cup {splits[o].target : o \in moved}

-------------------------------------------------------------------------------
(* Ingestion *)

Extend(f, x, v) == [y \in DOMAIN f \cup {x} |-> IF y = x THEN v ELSE f[y]]

Without(f, x) == [y \in DOMAIN f \ {x} |-> f[y]]

Observe(o) ==
    /\ o \notin known
    /\ known' = known \cup {o}
    /\ UNCHANGED <<era, corrections>>

Link(o, mac, at, d) ==
    links' = links \cup [obs : {o}, kind : Kinds, device : {d}, at : {at}, mac : {mac}, format : {era}]

(* PlanReconciliation with its storage: no candidate makes a new device,   *)
(* one is taken, several leave the claims without a device.                *)
AttachNew(o, mac, at) ==
    /\ Observe(o)
    /\ FindRecentDevicesByClaim(mac, at) = {}
    /\ devices' = Extend(devices, o, at)
    /\ Link(o, mac, at, o)

AttachFound(o, mac, at, d) ==
    /\ Observe(o)
    /\ FindRecentDevicesByClaim(mac, at) = {d}
    /\ Link(o, mac, at, d)
    /\ UNCHANGED devices

LeaveAmbiguous(o, mac, at) ==
    /\ Observe(o)
    /\ Cardinality(FindRecentDevicesByClaim(mac, at)) > 1
    /\ UNCHANGED <<links, devices>>

(* The release that stores batches and knows corrections is installed. *)
Upgrade ==
    /\ era = "row" /\ era' = "batch"
    /\ UNCHANGED <<evidence, devices, corrections>>

(* Retention: an observation and its claims are of one class and stored    *)
(* together, so they go together.                                          *)
Expire(o) ==
    /\ \E l \in links : l.obs = o
    /\ links' = {l \in links : l.obs # o}
    /\ UNCHANGED <<era, known, devices, corrections>>

-------------------------------------------------------------------------------
(* Original evidence rows of a device, newest first (sortDeviceEvidenceRows) *)

Precedes(a, b) ==
    \/ a.at > b.at
    \/ a.at = b.at /\ a.kind = "ip" /\ b.kind = "mac"
    \/ a.at = b.at /\ a.kind = b.kind /\ a.obs < b.obs

Rank(l, rows) == Cardinality({x \in rows : Precedes(x, l)})

Newest(rows, n) == {l \in rows : Rank(l, rows) < n}

OwnLinks(d) == {l \in links : l.device = d}

(* getOriginalDeviceEvidenceRowsLimited: each format returns one row more  *)
(* than the limit.                                                         *)
OriginalRows(own, limit) ==
    LET stored(format) == {l \in own : l.format = format}
    IN  Newest(stored("row"), limit + 1) \cup Newest(stored("batch"), limit + 1)

-------------------------------------------------------------------------------
(* Merges *)

MergeDevices(source, target) ==
    /\ era = "batch" /\ source # target
    /\ ~Merged(source) /\ target \notin DOMAIN merges
    /\ Cardinality(DOMAIN merges) < MaxMerges
    /\ \A d \in {source, target} : OwnLinks(d) # {} /\ d \notin SplitSources \cup SplitTargets
    /\ merges' = Extend(merges, source, target)
    /\ UNCHANGED <<era, evidence, devices, splits, made>>

UnmergeDevices(source) ==
    /\ source \in DOMAIN merges
    /\ merges' = Without(merges, source)
    /\ UNCHANGED <<era, evidence, devices, splits, made>>

-------------------------------------------------------------------------------
(* Splits *)

(* The observation's links among the rows read for the correction. *)
Selected(source, o) == {l \in OriginalRows(OwnLinks(source), MaxDetail) : l.obs = o}

(* The rows are longer than the limit and the first one behind it is of    *)
(* the same instant: the observation may be cut in two.                    *)
CutAt(rows, at) == \E l \in rows : Rank(l, rows) = MaxDetail /\ l.at = at

Separate(source, o, at, target) ==
    /\ era = "batch" /\ target # source
    /\ o \notin DOMAIN splits /\ Cardinality(DOMAIN splits) < MaxSplits
    /\ ~Merged(source) /\ ~Merged(target)
    /\ ~CutAt(OriginalRows(OwnLinks(source), MaxDetail), at)
    /\ \E l \in Selected(source, o) :
          /\ l.at = at
          /\ splits' = Extend(splits, o, [source |-> source, target |-> target, at |-> at, mac |-> l.mac,
                                          kinds |-> {x.kind : x \in Selected(source, o)}])
    /\ UNCHANGED <<era, evidence, merges>>

(* SplitDeviceObservation without a target makes one, *)
SplitIntoNew(source, o, at, target) ==
    /\ target \in Fresh \ DOMAIN devices
    /\ Separate(source, o, at, target)
    /\ devices' = Extend(devices, target, at)
    /\ made' = made \cup {target}

(* and with a target asks for a device of the scope or of another split. *)
SplitDeviceObservation(source, o, at, target) ==
    /\ target \in DOMAIN devices
    /\ OwnLinks(target) # {} \/ target \in SplitTargets
    /\ Separate(source, o, at, target)
    /\ UNCHANGED <<devices, made>>

(* Mutant: the target goes although another split still uses it. *)
UndoDropsTarget(o) ==
    /\ o \in DOMAIN splits
    /\ splits' = Without(splits, o)
    /\ made' = made \ {splits[o].target}
    /\ devices' = IF splits[o].target \in made THEN Without(devices, splits[o].target) ELSE devices
    /\ UNCHANGED <<era, evidence, merges>>

(* A device made for splits goes with the last of them, unless evidence is *)
(* linked to it.                                                           *)
UndoDeviceSplitObservation(o) ==
    /\ o \in DOMAIN splits
    /\ splits' = Without(splits, o)
    /\ LET target == splits[o].target
           unused == target \in made /\ \A x \in DOMAIN splits' : splits'[x].target # target
           empty  == OwnLinks(target) = {} /\ \A x \in DOMAIN splits' : splits'[x].source # target
       IN  /\ made' = IF unused THEN made \ {target} ELSE made
           /\ devices' = IF unused /\ empty THEN Without(devices, target) ELSE devices
    /\ UNCHANGED <<era, evidence, merges>>

DevicesNext ==
    \/ \E o \in Obs, mac \in Macs, at \in Times :
          \/ AttachNew(o, mac, at) \/ LeaveAmbiguous(o, mac, at)
          \/ \E d \in DOMAIN devices : AttachFound(o, mac, at, d)
    \/ Upgrade
    \/ \E o \in Obs : Expire(o) \/ UndoDeviceSplitObservation(o)
    \/ \E s \in Devices, t \in Devices :
          \/ MergeDevices(s, t)
          \/ \E o \in Obs, at \in Times : SplitIntoNew(s, o, at, t) \/ SplitDeviceObservation(s, o, at, t)
    \/ \E d \in Devices : UnmergeDevices(d)

DevicesSpec == DevicesInit /\ [][DevicesNext]_deviceVars

-------------------------------------------------------------------------------
(* Properties *)

(* The tables hold ids and times of their columns, and corrections are of  *)
(* observations that were stored.                                          *)
DevicesTypeOK ==
    /\ era \in {"row", "batch"}
    /\ known \subseteq Obs
    /\ links \subseteq Links /\ \A l \in links : l.obs \in known
    /\ DOMAIN devices \subseteq Devices /\ devices \in [DOMAIN devices -> Times]
    /\ DOMAIN merges \subseteq Devices /\ merges \in [DOMAIN merges -> Devices]
    /\ DOMAIN splits \subseteq known
    /\ splits \in [DOMAIN splits -> [source : Devices, target : Devices, kinds : SUBSET Kinds,
                                     at : Times, mac : Macs]]
    /\ made \subseteq Devices

(* The corrections of a scope are flat: a merge target is no source, no    *)
(* device takes part in a merge and in a split, and nothing is its own     *)
(* target.  Every reader resolves an identity with one lookup because of   *)
(* this (device_identity_merge.go, "a set of stars").                      *)
CorrectionsAreFlat ==
    /\ DOMAIN merges \cap MergeTargets = {}
    /\ \A d \in SplitSources \cup SplitTargets : ~Merged(d)
    /\ \A o \in DOMAIN splits : splits[o].source # splits[o].target

(* Every device that a link, a merge, a split or a registration names      *)
(* exists.                                                                 *)
ReferencesHold ==
    /\ \A l \in links : l.device \in DOMAIN devices
    /\ DOMAIN merges \cup MergeTargets \subseteq DOMAIN devices
    /\ SplitSources \cup SplitTargets \cup made \subseteq DOMAIN devices

(* A device made for splits is registered only while a split points at it. *)
MadeForSplits == made \subseteq SplitTargets

(* However corrections follow each other, they stay flat and never name a  *)
(* device that is gone: undoing a split never removes a device in use, and *)
(* never leaves the one it was made for behind ("an empty Device created   *)
(* only for the split is removed after its last active split is undone").  *)
RegistryHolds == CorrectionsAreFlat /\ ReferencesHold /\ MadeForSplits

(* What the readers rely on when they look a link up by its observation:   *)
(* the links of one observation agree, a split remembers where and when    *)
(* its links are, and a device of an observation is not there before it.   *)
LinksCohere ==
    \A l \in links, x \in links : l.obs = x.obs => l.device = x.device /\ l.at = x.at /\ l.mac = x.mac

SplitsMatchLinks ==
    \A l \in links : l.obs \in DOMAIN splits =>
        /\ splits[l.obs].source = l.device
        /\ splits[l.obs].at = l.at /\ splits[l.obs].mac = l.mac

NamesAreKnown == DOMAIN devices \cap Obs \subseteq known

Consistent == LinksCohere /\ SplitsMatchLinks /\ NamesAreKnown

(* The device to which the corrected view gives a link. *)
Owner(l) == IF l.obs \in DOMAIN splits /\ l.kind \in splits[l.obs].kinds
            THEN splits[l.obs].target ELSE canonical(l.device)

RecentOwners(mac, at) == {Owner(l) : l \in {x \in links : x.kind = "mac" /\ Recent(x, mac, at)}}

(* New evidence is attached to a known device only if the corrected view   *)
(* gives all recent evidence of its address to that device, and to a new   *)
(* device only if there is none: no correction is undone by later traffic. *)
AttachesToOwner ==
    [][\A l \in links' : l.obs \notin known =>
          RecentOwners(l.mac, l.at) = IF l.device \in DOMAIN devices THEN {l.device} ELSE {}]_deviceVars

(* Only a split makes an address ambiguous whose recent evidence belongs   *)
(* to one corrected device: for an address of no split, the candidates of  *)
(* FindRecentDevicesByClaim are the owners of its recent evidence.         *)
MergeKeepsContinuity ==
    \A mac \in Macs, at \in Times :
        (\A o \in DOMAIN splits : splits[o].mac # mac)
        => FindRecentDevicesByClaim(mac, at) = RecentOwners(mac, at)

(* "The selected observation's retained links move together": a split      *)
(* covers every retained link of its observation.                          *)
LinksMoveTogether ==
    \A l \in links : l.obs \in DOMAIN splits => l.kind \in splits[l.obs].kinds
===============================================================================
