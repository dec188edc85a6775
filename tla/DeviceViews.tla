------------------------------ MODULE DeviceViews ------------------------------
(***************************************************************************)
(* What the readers of the device records show: the evidence of one device *)
(* and the paged list of devices, as of a time, under the corrections.     *)
(* A reader holds one read transaction, so it is an operator on a state of *)
(* DeviceCorrections.  A view is a set of rows; its order is Precedes.     *)
(* Budgets on the number of batches one request may open are left out.     *)
(***************************************************************************)
EXTENDS DeviceCorrections, FiniteSetsExt, Sequences, TLC

CONSTANT MaxQueryLimit      \* largest page

Ats(rows) == {l.at : l \in rows}

RowsAsOf(d, asOf) == {l \in OwnLinks(d) : l.at <= asOf}

-------------------------------------------------------------------------------
(* Evidence of one device *)

Absent == [status |-> "absent"]     \* ErrDeviceEvidenceNotFound

OverLimit == [status |-> "limit"]   \* ErrEvidenceBatchQueryLimit

Detail(rows, truncated, first, last) ==
    [status |-> "found", rows |-> rows, truncated |-> truncated, first |-> first, last |-> last]

getOriginalDeviceEvidenceDetail(d, asOf, limit) ==
    LET rows == OriginalRows(RowsAsOf(d, asOf), limit)
    IN  IF rows = {} THEN Absent
        ELSE Detail(Newest(rows, limit), Cardinality(rows) > limit, devices[d], Max(Ats(rows)))

(* The order of a merged view: the target's rows before those of the other *)
(* origins; rows that agree in everything shown are in no fixed order.     *)
MergedPrecedes(d, a, b) ==
    LET origin(l) == IF l.device = d THEN 0 ELSE l.device
    IN  \/ a.at > b.at
        \/ a.at = b.at /\ origin(a) < origin(b)
        \/ a.at = b.at /\ origin(a) = origin(b) /\ Precedes(a, b)

getMergedDeviceEvidenceDetail(d, asOf, limit) ==
    LET origins == {d} \cup {s \in DOMAIN merges : merges[s] = d}
        parts   == {getOriginalDeviceEvidenceDetail(x, asOf, limit) : x \in origins} \ {Absent}
        rows    == UNION {p.rows : p \in parts}
        page    == {l \in rows : Cardinality({x \in rows : MergedPrecedes(d, x, l)}) < limit}
    IN  IF d \in DOMAIN merges \/ parts = {} THEN Absent
        ELSE Detail(page, Cardinality(rows) > limit \/ \E p \in parts : p.truncated,
                    Min({p.first : p \in parts}), Max({p.last : p \in parts}))

Moved(l) == l.obs \in DOMAIN splits /\ l.kind \in splits[l.obs].kinds

(* The device's creation, unless the observation that made it was split    *)
(* away: then the earliest link that stays.                                *)
correctedSourceFirstSeen(d, asOf) ==
    IF \E o \in DOMAIN splits : splits[o].source = d /\ splits[o].at <= devices[d]
    THEN Min(Ats({l \in RowsAsOf(d, asOf) : ~Moved(l)}))
    ELSE devices[d]

(* len(splits.byLink): a source may have this many rows fewer to show. *)
MovedLinks == MapThenSumSet(LAMBDA o : Cardinality(splits[o].kinds), DOMAIN splits)

(* Own rows that stay, and for every split into the device the rows of its *)
(* observation, read from the source as of the observation's time.         *)
CorrectedRows(d, asOf, rawLimit) ==
    LET own     == {l \in OriginalRows(RowsAsOf(d, asOf), rawLimit) : ~Moved(l)}
        arrived == {o \in DOMAIN splits : splits[o].target = d /\ splits[o].at <= asOf}
        window  == [o \in arrived |-> OriginalRows(RowsAsOf(splits[o].source, splits[o].at), MaxDetail)]
    IN  [own  |-> own,
         gained |-> UNION {{l \in window[o] : l.obs = o /\ Moved(l)} : o \in arrived},
         cut  |-> \E o \in arrived : CutAt(window[o], splits[o].at)]

ShowCorrected(d, asOf, limit, view) ==
    LET rows  == view.own \cup view.gained
        first == Min(Ats(rows))
    IN  IF view.cut THEN OverLimit
        ELSE IF rows = {} THEN Absent
        ELSE Detail(Newest(rows, limit), Cardinality(rows) > limit,
                    IF view.own = {} THEN first ELSE Min({first, correctedSourceFirstSeen(d, asOf)}),
                    Max(Ats(rows)))

getCorrectedDeviceEvidenceDetail(d, asOf, limit) ==
    IF d \notin SplitSources \cup SplitTargets THEN getMergedDeviceEvidenceDetail(d, asOf, limit)
    ELSE ShowCorrected(d, asOf, limit, CorrectedRows(d, asOf, limit + MovedLinks))

-------------------------------------------------------------------------------
(* The list of devices.  A page is a function from the listed devices to   *)
(* their summaries; next is the cursor of the following page, 0 for none.  *)

FirstIds(ids, n) == {x \in ids : Cardinality({y \in ids : y < x}) < n}

deviceEvidencePage(found, limit) ==
    LET ids == FirstIds(DOMAIN found, limit)
    IN  [devices |-> [d \in ids |-> found[d]],
         next    |-> IF Cardinality(DOMAIN found) > limit THEN Max(ids) ELSE 0]

Summary(first, last) == [first |-> first, last |-> last]

(* Each format lists one device more than the limit; the devices of the    *)
(* batches only up to the last one listed from rows.                       *)
listOriginalDeviceEvidence(asOf, after, limit) ==
    LET listed(format) == {d \in DOMAIN devices : d > after /\ \E l \in RowsAsOf(d, asOf) : l.format = format}
        legacy == FirstIds(listed("row"), limit + 1)
        batch  == FirstIds({d \in listed("batch") : Cardinality(legacy) > limit => d <= Max(legacy)}, limit + 1)
    IN  deviceEvidencePage([d \in legacy \cup batch |-> Summary(devices[d], Max(Ats(RowsAsOf(d, asOf))))], limit)

SummaryOfDetail(detail) == Summary(detail.first, detail.last)

PageSize(limit, corrected) == Min({MaxQueryLimit, limit + Cardinality(corrected) + 1})

(* Original pages are read until more than a page of devices that are not  *)
(* sources is `got'.                                                       *)
Remaining(page) == DOMAIN page.devices \ DOMAIN merges

RECURSIVE ScanOriginal(_, _, _, _)
ScanOriginal(asOf, limit, page, got) ==
    IF page.next = 0 \/ Cardinality(got \cup Remaining(page)) > limit THEN got \cup Remaining(page)
    ELSE ScanOriginal(asOf, limit, listOriginalDeviceEvidence(asOf, page.next, PageSize(limit, DOMAIN merges)),
                      got \cup Remaining(page))

mergedDeviceSummary(parts) == Summary(Min({p.first : p \in parts}), Max({p.last : p \in parts}))

ShowingSources(t, asOf) == {s \in DOMAIN merges : merges[s] = t /\ RowsAsOf(s, asOf) # {}}

(* The devices read, and the merge targets with what their sources show. *)
MergedPage(asOf, after, limit, got) ==
    deviceEvidencePage(
        [d \in got \cup {t \in MergeTargets : t > after /\ ShowingSources(t, asOf) # {}} |->
            mergedDeviceSummary({getOriginalDeviceEvidenceDetail(x, asOf, 1) :
                                    x \in ShowingSources(d, asOf) \cup (got \cap {d})})], limit)

listMergedDeviceEvidence(asOf, after, limit) ==
    IF merges = <<>> THEN listOriginalDeviceEvidence(asOf, after, limit)
    ELSE MergedPage(asOf, after, limit,
            ScanOriginal(asOf, limit, listOriginalDeviceEvidence(asOf, after, PageSize(limit, DOMAIN merges)), {}))

(* addCorrected, for several devices: those that show evidence.  A device  *)
(* over the limit fails the whole request, which the listing leaves out.   *)
Corrected(ids, asOf) ==
    LET detail == [d \in ids |-> getCorrectedDeviceEvidenceDetail(d, asOf, 1)]
    IN  [d \in {x \in ids : detail[x].status = "found"} |-> SummaryOfDetail(detail[d])]

(* A merged page, with the devices that take part in splits corrected. *)
CorrectedPage(page, asOf) ==
    LET split == DOMAIN page.devices \cap (SplitSources \cup SplitTargets)
    IN  [d \in DOMAIN page.devices \ split |-> page.devices[d]] @@ Corrected(split, asOf)

(* The devices up to the cursor are complete, and they fill the page. *)
Enough(found, cursor, limit) ==
    /\ Cardinality(DOMAIN found) > limit
    /\ cursor >= Max(FirstIds(DOMAIN found, limit + 1))

RECURSIVE ScanMerged(_, _, _, _), ScanFurther(_, _, _, _)
ScanMerged(asOf, limit, cursor, found) ==
    LET page == listMergedDeviceEvidence(asOf, cursor, PageSize(limit, SplitSources))
    IN  ScanFurther(asOf, limit, page.next, found @@ CorrectedPage(page, asOf))

ScanFurther(asOf, limit, next, found) ==
    IF next = 0 \/ Enough(found, next, limit) THEN found ELSE ScanMerged(asOf, limit, next, found)

(* Mutant: the targets of splits are not looked up ahead of the pages. *)
ListFromPages(asOf, after, limit) ==
    IF splits = <<>> THEN listMergedDeviceEvidence(asOf, after, limit)
    ELSE deviceEvidencePage(ScanMerged(asOf, limit, after, <<>>), limit)

listCorrectedDeviceEvidence(asOf, after, limit) ==
    IF splits = <<>> THEN listMergedDeviceEvidence(asOf, after, limit)
    ELSE deviceEvidencePage(ScanMerged(asOf, limit, after, Corrected({t \in SplitTargets : t > after}, asOf)), limit)

-------------------------------------------------------------------------------
(* Properties *)

Owned(d, asOf) == {l \in links : Owner(l) = d /\ l.at <= asOf}

(* The evidence shown for a device is the newest of what the corrections   *)
(* give to it, complete up to the limit, "truncated" exactly when there is *)
(* more, and the device is absent exactly when there is nothing: merging,  *)
(* splitting, undoing and expiry neither lose, duplicate nor misplace rows.*)
DetailIsOwned ==
    \A d \in DOMAIN devices, asOf \in Times, limit \in 1..MaxDetail :
        LET detail == getCorrectedDeviceEvidenceDetail(d, asOf, limit)
            owned  == Owned(d, asOf)
        IN  \/ detail.status = "limit"
            \/ detail = Absent /\ owned = {}
            \/ /\ detail.status = "found" /\ owned # {}
               /\ detail.rows \subseteq owned
               /\ Cardinality(detail.rows) = Min({limit, Cardinality(owned)})
               /\ \A l \in detail.rows, x \in owned \ detail.rows : l.at >= x.at
               /\ detail.truncated = (Cardinality(owned) > limit)
               /\ detail.last = Max(Ats(owned))

(* A reader that follows the cursor to the end. *)
RECURSIVE Pages(_, _, _)
Pages(asOf, after, limit) ==
    LET page == listCorrectedDeviceEvidence(asOf, after, limit)
    IN  <<page.devices>> \o IF page.next = 0 THEN <<>> ELSE Pages(asOf, page.next, limit)

(* Requests are as of now: every stored time has passed. *)
Now == Max(Times)

(* Following the pages lists every device that has evidence, once, in      *)
(* order, with the first and last time its own view shows, whatever the    *)
(* page size and however many corrected devices lie between the pages, if  *)
(* no request fails at the limit.                                          *)
ListingIsComplete ==
    \A limit \in 1..MaxQueryLimit :
        LET detail == [d \in DOMAIN devices |-> getCorrectedDeviceEvidenceDetail(d, Now, 1)]
            pages  == Pages(Now, 0, limit)
            shown  == {d \in DOMAIN devices : detail[d].status = "found"}
        IN  (\A d \in DOMAIN devices : detail[d].status # "limit") =>
               /\ UNION {DOMAIN pages[i] : i \in DOMAIN pages} = shown
               /\ \A i, j \in DOMAIN pages : i < j => \A d \in DOMAIN pages[i], e \in DOMAIN pages[j] : d < e
               /\ \A i \in DOMAIN pages : \A d \in DOMAIN pages[i] : pages[i][d] = SummaryOfDetail(detail[d])

(* The two views of the corrected devices, page by page and one by one,    *)
(* show each row exactly once, under the device that owns it, and agree:   *)
(* DetailIsOwned and ListingIsComplete.                                    *)
ViewsAreComplete == DetailIsOwned /\ ListingIsComplete
===============================================================================
