-------------------------- MODULE Assessment_proofs --------------------------
(*****************************************************************************)
(* Proofs about what is concluded from what was stored: whether ingestion    *)
(* lags (IngestionLatency), which samples are compared (NetworkQuality),     *)
(* and which retained runs a diagnosis rests on (QualityDiagnosis). The      *)
(* parts share no state.                                                     *)
(* LatencyInv says that the streak counts exactly the slow writes at the     *)
(* end of the history; SamplesInv that samples are told apart by their ids;  *)
(* HistoryInv that a read in progress has the pages of one snapshot of       *)
(* well-formed rows.                                                         *)
(*****************************************************************************)
EXTENDS IngestionLatency, QualityDiagnosis,
        FiniteSetTheorems, WellFoundedInduction, TLAPS

-------------------------------------------------------------------------------
(* The latency tracker *)

Completions == [at : Nat, latency : Nat]

(* The streak is the length of the longest run of slow writes, each within *)
(* the window of the one before, that ends with the last durable write.    *)
LatencyInv ==
    /\ now \in Nat /\ pending \in [Receipts -> Nat \cup {None}]
    /\ \A r \in Receipts : pending[r] # None => pending[r] <= now
    /\ history \in Seq(Completions) /\ slowStreak \in Nat
    /\ lastCompletedAt = IF Len(history) = 0 THEN None ELSE history[Len(history)].at
    /\ LastWereSlow(slowStreak)
    /\ \A n \in Nat : LastWereSlow(n) => n <= slowStreak

(* The last durable write has a time. *)
LEMMA LastEntry ==
  ASSUME history \in Seq(Completions), Len(history) # 0
  PROVE  history[Len(history)].at \in Nat
<1>1. Len(history) \in 1..Len(history)  OBVIOUS
<1>2. history[Len(history)] \in Completions  BY <1>1
<1>3. QED  BY <1>2, Zenon DEF Completions

(* A shorter run of slow writes ends where a longer one ends. *)
LEMMA Shorter ==
  ASSUME history \in Seq(Completions), NEW k \in Nat, NEW n \in Nat, n <= k, LastWereSlow(k)
  PROVE  LastWereSlow(n)
BY DEF LastWereSlow

(* A durable write is remembered behind the ones before it. *)
LEMMA Appended ==
  ASSUME history \in Seq(Completions), NEW e \in Completions, history' = Append(history, e)
  PROVE  /\ history' \in Seq(Completions) /\ Len(history') = Len(history) + 1
         /\ history'[Len(history) + 1] = e
         /\ \A m \in 1..Len(history) : history'[m] = history[m]
         /\ Len(history') # 0
OBVIOUS

(* A durable write extends the run of slow writes when it is slow and      *)
(* within the window of the one before it.                                 *)
LEMMA StreakGrows ==
  ASSUME history \in Seq(Completions), NEW e \in Completions, history' = Append(history, e),
         NEW n \in Nat
  PROVE  LastWereSlow(n + 1)' <=>
            /\ e.latency >= Threshold
            /\ n = 0 \/ (LastWereSlow(n) /\ e.at - history[Len(history)].at <= FreshnessWindow)
<1> DEFINE L == Len(history)
<1>1. /\ history' \in Seq(Completions) /\ Len(history') = L + 1 /\ history'[L + 1] = e
      /\ L \in Nat /\ \A m \in 1..L : history'[m] = history[m]
  BY Appended
<1>2. LastWereSlow(n + 1)' <=>
         /\ n + 1 <= L + 1
         /\ \A m \in (L - n + 1)..(L + 1) : history'[m].latency >= Threshold
         /\ \A m \in (L - n + 2)..(L + 1) : history'[m].at - history'[m-1].at <= FreshnessWindow
  <2>1. Len(history') - (n + 1) + 1 = L - n + 1 /\ Len(history') - (n + 1) + 2 = L - n + 2  BY <1>1
  <2>2. QED  BY <1>1, <2>1, Zenon DEF LastWereSlow
<1>3. LastWereSlow(n) <=>
         /\ n <= L
         /\ \A m \in (L - n + 1)..L : history[m].latency >= Threshold
         /\ \A m \in (L - n + 2)..L : history[m].at - history[m-1].at <= FreshnessWindow
  BY Zenon DEF LastWereSlow
<1> HIDE DEF L
<1>4. CASE n = 0
  <2>1. (L - n + 1)..(L + 1) = {L + 1} /\ (L - n + 2)..(L + 1) = {}  BY <1>1, <1>4
  <2>2. QED  BY <1>1, <1>2, <1>4, <2>1
<1>5. CASE n # 0
  <2>1. n <= L =>
           /\ (\A m \in (L - n + 1)..(L + 1) : history'[m].latency >= Threshold)
                 <=> /\ e.latency >= Threshold
                     /\ \A m \in (L - n + 1)..L : history[m].latency >= Threshold
    BY <1>1, <1>5
  <2>2. n <= L =>
           /\ (\A m \in (L - n + 2)..(L + 1) : history'[m].at - history'[m-1].at <= FreshnessWindow)
                 <=> /\ e.at - history[L].at <= FreshnessWindow
                     /\ \A m \in (L - n + 2)..L : history[m].at - history[m-1].at <= FreshnessWindow
    <3> SUFFICES ASSUME n <= L
                 PROVE  (\A m \in (L - n + 2)..(L + 1) : history'[m].at - history'[m-1].at <= FreshnessWindow)
                           <=> /\ e.at - history[L].at <= FreshnessWindow
                               /\ \A m \in (L - n + 2)..L : history[m].at - history[m-1].at <= FreshnessWindow
      BY Zenon
    <3>1. (L - n + 2)..(L + 1) = ((L - n + 2)..L) \cup {L + 1}  BY <1>1, <1>5
    <3>2. history'[L + 1] = e /\ history'[(L + 1) - 1] = history[L]  BY <1>1, <1>5
    <3>3. \A m \in (L - n + 2)..L : history'[m] = history[m] /\ history'[m-1] = history[m-1]
      BY <1>1, <1>5
    <3>4. QED  BY <3>1, <3>2, <3>3, Zenon
  <2>3. LastWereSlow(n + 1)' <=>
           /\ e.latency >= Threshold
           /\ LastWereSlow(n) /\ e.at - history[L].at <= FreshnessWindow
    <3>1. n + 1 <= L + 1 <=> n <= L  BY <1>1
    <3>2. QED  BY <1>2, <1>3, <2>1, <2>2, <3>1, Zenon
  <2>4. QED  BY <1>5, <2>3, Zenon DEF L
<1>6. QED  BY <1>4, <1>5, Zenon

(* Every step of the tracker keeps its invariant. *)
LEMMA LatencyStep ==
  ASSUME LatencyInv, [Next]_vars
  PROVE  LatencyInv'
<1> USE DEF LatencyInv
<1>1. ASSUME UNCHANGED <<lastCompletedAt, slowStreak, history>>, now' \in Nat, now <= now',
             pending' \in [Receipts -> Nat \cup {None}],
             \A r \in Receipts : pending'[r] # None => pending'[r] <= now'
      PROVE  LatencyInv'
  BY <1>1, Zenon DEF LastWereSlow
<1>2. CASE UNCHANGED vars  BY <1>1, <1>2 DEF vars
<1>3. CASE Tick  BY <1>1, <1>3 DEF Tick
<1>4. ASSUME NEW r \in Receipts, accept(r) PROVE LatencyInv'  BY <1>1, <1>4 DEF accept
<1>5. ASSUME NEW r \in Receipts, NEW durable \in BOOLEAN, complete(r, durable) PROVE LatencyInv'
  <2>1. /\ pending' \in [Receipts -> Nat \cup {None}] /\ now' = now
        /\ \A u \in Receipts : pending'[u] # None => pending'[u] <= now
    BY <1>5, Zenon DEF complete
  <2>2. CASE ~durable  BY <1>1, <1>5, <2>1, <2>2 DEF complete
  <2>3. CASE durable
    <3>1. PICK l \in Nat : l = now - pending[r]  BY <1>5 DEF complete
    <3>2. PICK e \in Completions : e = [at |-> now, latency |-> l]  BY Zenon DEF Completions
    <3>3. /\ slowStreak' = StreakAfter(l) /\ lastCompletedAt' = now
          /\ history' = Append(history, e) /\ e.at = now /\ e.latency = l
      BY <1>5, <2>3, <3>1, <3>2, Zenon DEF complete
    <3>4. /\ history' \in Seq(Completions) /\ Len(history') = Len(history) + 1
          /\ history'[Len(history) + 1] = e /\ Len(history') # 0
      BY <3>3, Appended, Zenon
    <3>5. lastCompletedAt' = IF Len(history') = 0 THEN None ELSE history'[Len(history')].at
      BY <3>3, <3>4, Zenon
    <3> DEFINE paused == lastCompletedAt # None /\ now - lastCompletedAt > FreshnessWindow
    <3>6. Len(history) # 0 =>
             /\ lastCompletedAt = history[Len(history)].at /\ history[Len(history)].at \in Nat
             /\ lastCompletedAt # None
      BY LastEntry, LatencyAssumption, Zenon
    <3>7. slowStreak' = IF l >= Threshold THEN (IF paused THEN 0 ELSE slowStreak) + 1 ELSE 0
      BY <3>3, Zenon DEF StreakAfter
    <3>8. slowStreak' \in Nat  BY <3>7
    <3>9. LastWereSlow(0)'  BY <3>4 DEF LastWereSlow
    <3>10. ASSUME NEW n \in Nat
           PROVE  LastWereSlow(n + 1)' <=>
                    /\ l >= Threshold
                    /\ n = 0 \/ (LastWereSlow(n) /\ now - history[Len(history)].at <= FreshnessWindow)
      BY <3>3, StreakGrows, Zenon
    <3>11. \A n \in Nat : n # 0 /\ LastWereSlow(n) => Len(history) # 0
      BY DEF LastWereSlow
    <3>12. LastWereSlow(slowStreak)'
      <4>1. CASE l < Threshold  BY <3>1, <3>7, <3>9, <4>1, LatencyAssumption DEF LastWereSlow
      <4>2. CASE l >= Threshold /\ paused
        <5>1. slowStreak' = 0 + 1 /\ LastWereSlow(0 + 1)'  BY <3>7, <3>10, <4>2, Zenon
        <5>2. QED  BY <5>1, Zenon DEF LastWereSlow
      <4>3. CASE l >= Threshold /\ ~paused
        <5>1. slowStreak' = slowStreak + 1  BY <3>7, <4>3, Zenon
        <5>2. slowStreak # 0 => now - history[Len(history)].at <= FreshnessWindow
          BY <3>6, <3>11, <4>3, LatencyAssumption
        <5>3. LastWereSlow(slowStreak)  BY Zenon
        <5>4. PICK k \in Nat : k = slowStreak  BY Zenon
        <5>5. LastWereSlow(k + 1)'
          <6>1. LastWereSlow(k)  BY <5>3, <5>4, Zenon
          <6>2. QED  BY <3>10, <4>3, <5>2, <5>4, <6>1, Zenon
        <5>6. QED  BY <5>1, <5>4, <5>5, Zenon DEF LastWereSlow
      <4>4. QED  BY <3>1, <4>1, <4>2, <4>3, LatencyAssumption
    <3>13. ASSUME NEW n \in Nat, LastWereSlow(n)' PROVE n <= slowStreak'
      <4>1. CASE n = 0  BY <3>8, <4>1
      <4>2. CASE n # 0
        <5>1. PICK k \in Nat : n = k + 1  BY <4>2
        <5>2. LastWereSlow(k + 1)'  BY <3>13, <5>1, Zenon
        <5>3. /\ l >= Threshold
              /\ k = 0 \/ (LastWereSlow(k) /\ now - history[Len(history)].at <= FreshnessWindow)
          BY <3>10, <5>2, Zenon
        <5>4. k = 0 \/ (k <= slowStreak /\ ~paused)
          BY <3>6, <3>11, <5>3, LatencyAssumption
        <5>5. QED  BY <3>7, <5>1, <5>3, <5>4
      <4>3. QED  BY <4>1, <4>2, Zenon
    <3>14. QED  BY <2>1, <3>4, <3>5, <3>8, <3>12, <3>13, Zenon
  <2>4. QED  BY <2>2, <2>3, Zenon
<1>6. QED  BY <1>2, <1>3, <1>4, <1>5, Zenon DEF Next

(* The inductive invariant of the latency tracker. *)
THEOREM LatencyInvariant == Spec => []LatencyInv
<1>1. Init => LatencyInv
  <2> SUFFICES ASSUME Init PROVE LatencyInv  BY Zenon
  <2>1. history \in Seq(Completions) /\ Len(history) = 0 /\ slowStreak = 0  BY DEF Init
  <2>2. LastWereSlow(0) /\ \A n \in Nat : LastWereSlow(n) => n <= 0  BY <2>1 DEF LastWereSlow
  <2>3. QED  BY <2>1, <2>2, LatencyAssumption DEF Init, LatencyInv
<1>2. LatencyInv /\ [Next]_vars => LatencyInv'  BY LatencyStep, Zenon
<1>3. QED  BY <1>1, <1>2, PTL DEF Spec

(* Health reports "lagging" exactly when a pending record is overdue or the *)
(* last durable writes were all slow, for any thresholds and any sequence   *)
(* of accepted, failed and completed writes (latencyTracker.snapshot).      *)
THEOREM LaggingJustified == Spec => []LaggingIsJustified
<1>1. LatencyInv => LaggingIsJustified
  <2> SUFFICES ASSUME LatencyInv PROVE LaggingIsJustified  BY Zenon
  <2> USE LatencyAssumption DEF LatencyInv
  <2>1. Overdue <=> \E r \in Receipts : pending[r] # None /\ now >= pending[r] + Threshold
    BY DEF Overdue, Pending
  <2>2. slowStreak >= SlowStreakThreshold <=> LastWereSlow(SlowStreakThreshold)
    BY Shorter, Zenon
  <2>3. LastWereSlow(SlowStreakThreshold) => Len(history) # 0
    BY DEF LastWereSlow
  <2>4. Len(history) # 0 => (Fresh <=> now <= history[Len(history)].at + FreshnessWindow)
    <3>1. Len(history) # 0 => history[Len(history)].at \in Nat  BY LastEntry, Zenon
    <3>2. QED  BY <3>1 DEF Fresh
  <2>5. QED  BY <2>1, <2>2, <2>3, <2>4, Zenon DEF LaggingIsJustified, snapshot
<1>2. QED  BY <1>1, LatencyInvariant, PTL

-------------------------------------------------------------------------------
(* What is compared *)

(* A set of natural numbers has a least one. *)
LEMMA LeastNatural ==
  ASSUME NEW T, T \subseteq Nat, T # {}
  PROVE  \E x \in T : \A y \in T : x <= y
<1> DEFINE R == OpToRel(<, Nat)
<1>1. IsWellFoundedOn(R, Nat)  BY NatLessThanWellFounded, Zenon
<1>2. \A x, y \in Nat : x < y => <<x, y>> \in R  BY Zenon DEF OpToRel
<1> HIDE DEF R
<1>3. PICK x \in T : \A y \in T : ~(<<y, x>> \in R)  BY <1>1, WFMin, Zenon
<1>4. \A y \in T : ~(y < x)  BY <1>2, <1>3, Zenon
<1>5. QED  BY <1>4

(* Times of one window have a first and a last one. *)
LEMMA Within ==
  ASSUME NEW a \in Int, NEW b \in Int, NEW lo \in Int, NEW hi \in Int, NEW d \in Int,
         lo <= a, b <= hi, ~(hi - lo > d)
  PROVE  b - a <= d
OBVIOUS

LEMMA Extremes ==
  ASSUME NEW low \in Int, NEW high \in Int, NEW T, T \subseteq low..high, T # {}
  PROVE  /\ Earliest(T) \in T /\ \A t \in T : Earliest(T) <= t
         /\ Last(T) \in T /\ \A t \in T : t <= Last(T)
<1>1. \E t \in T : \A u \in T : t <= u
  <2> DEFINE D == {t - low : t \in T}
  <2>1. D \subseteq Nat  OBVIOUS
  <2>2. \A t \in T : t - low \in D  BY Zenon
  <2>3. \A d \in D : \E t \in T : d = t - low  BY Zenon
  <2> HIDE DEF D
  <2>4. PICK d \in D : \A y \in D : d <= y  BY <2>1, <2>2, LeastNatural, Zenon
  <2>5. PICK t \in T : d = t - low  BY <2>3, Zenon
  <2>6. \A u \in T : t - low <= u - low  BY <2>2, <2>4, <2>5, Zenon
  <2>7. QED  BY <2>6
<1>2. \E t \in T : \A u \in T : u <= t
  <2> DEFINE D == {high - t : t \in T}
  <2>1. D \subseteq Nat  OBVIOUS
  <2>2. \A t \in T : high - t \in D  BY Zenon
  <2>3. \A d \in D : \E t \in T : d = high - t  BY Zenon
  <2> HIDE DEF D
  <2>4. PICK d \in D : \A y \in D : d <= y  BY <2>1, <2>2, LeastNatural, Zenon
  <2>5. PICK t \in T : d = high - t  BY <2>3, Zenon
  <2>6. \A u \in T : high - t <= high - u  BY <2>2, <2>4, <2>5, Zenon
  <2>7. QED  BY <2>6
<1>3. Earliest(T) \in T /\ \A t \in T : Earliest(T) <= t  BY <1>1, Zenon DEF Earliest
<1>4. Last(T) \in T /\ \A t \in T : t <= Last(T)  BY <1>2, Zenon DEF Last
<1>5. QED  BY <1>3, <1>4, Zenon

(* Samples are told apart by their ids. *)
SamplesInv ==
    /\ samples \subseteq SampleSpace
    /\ \A m, n \in samples : m.id = n.id => m = n

(* An entry of the evidence speaks for one sample, the newest of its       *)
(* target, with its times.                                                 *)
Speaks(e, m, family, w) ==
    /\ e.id = m.id /\ e.started = m.started /\ e.completed = m.completed
    /\ m.layer # "link" => m.family = family
    /\ \A n \in samples : n.target = m.target => n.completed <= m.completed
    /\ e.state # "stale" => ~Stale(m, w)

(* The newest sample of a target, among those of its layer, is the newest  *)
(* of all.                                                                 *)
LEMMA NewestSpeaks ==
  ASSUME SamplesInv, NEW family, NEW ms, ms \subseteq samples,
         \A m \in ms, n \in samples : n.layer = m.layer => n \in ms,
         NEW m \in Latest(OfFamily(ms, family))
  PROVE  /\ m \in samples /\ (m.layer # "link" => m.family = family)
         /\ \A n \in samples : n.target = m.target => n.completed <= m.completed
<1>1. m \in ms /\ m \in samples /\ (m.layer = "link" \/ m.family = family)
  BY Zenon DEF Latest, OfFamily
<1>2. ASSUME NEW n \in samples, n.target = m.target PROVE n.completed <= m.completed
  <2>1. n.layer = m.layer /\ n.family = m.family  BY <1>1, <1>2, QualityAssumption, Zenon DEF SamplesInv
  <2>2. n \in OfFamily(ms, family)  BY <1>1, <1>2, <2>1, Zenon DEF OfFamily
  <2>3. QED  BY <1>2, <2>2, Zenon DEF Latest
<1>3. QED  BY <1>1, <1>2, Zenon

(* So an entry of the evidence speaks for the newest sample, in each layer. *)
LEMMA EvidenceSpeaks ==
  ASSUME SamplesInv, NEW family, NEW w, NEW e \in EvidenceOf(Collected(family), w)
  PROVE  \E m \in samples : Speaks(e, m, family, w)
<1> DEFINE net == {m \in samples : m.layer \in {"link", "gateway"}}
           res == {m \in samples : m.layer = "dns"}
           web == {m \in samples : m.layer = "https"}
<1>1. /\ Collected(family).network = net /\ Collected(family).resolvers = res
      /\ Collected(family).https = web /\ Collected(family).family = family
  BY Zenon DEF Collected
<1> HIDE DEF net, res, web
<1>2. CASE e \in Assess(OfFamily(net, family), w)
  <2>1. PICK m \in Latest(OfFamily(net, family)) :
           e = Entry(m, m.layer, assessMeasurement(m, w), m.successes > 0, FALSE)
    BY <1>2, Zenon DEF Assess
  <2>2. assessMeasurement(m, w) # "stale" => ~Stale(m, w)  BY Zenon DEF assessMeasurement
  <2>3. e.id = m.id /\ e.started = m.started /\ e.completed = m.completed /\ e.state = assessMeasurement(m, w)
    BY <2>1, Zenon DEF Entry
  <2>4. /\ m \in samples /\ (m.layer # "link" => m.family = family)
        /\ \A n \in samples : n.target = m.target => n.completed <= m.completed
    <3>1. net \subseteq samples /\ \A k \in net, n \in samples : n.layer = k.layer => n \in net  BY Zenon DEF net
    <3>2. QED  BY <2>1, <3>1, NewestSpeaks, Zenon
  <2>5. QED  BY <2>2, <2>3, <2>4, Zenon DEF Speaks
<1>3. CASE e \in AssessResolvers(OfFamily(res, family), w)
  <2>1. PICK m \in Latest(OfFamily(res, family)) :
           e = Entry(m, "dns", assessResolverMeasurement(m, w), m.exchange = "response-received",
                     resolverResult(m) \in UnclearResults)
    BY <1>3, Zenon DEF AssessResolvers
  <2>2. assessResolverMeasurement(m, w) # "stale" => ~Stale(m, w)  BY Zenon DEF assessResolverMeasurement
  <2>3. e.id = m.id /\ e.started = m.started /\ e.completed = m.completed /\ e.state = assessResolverMeasurement(m, w)
    BY <2>1, Zenon DEF Entry
  <2>4. /\ m \in samples /\ (m.layer # "link" => m.family = family)
        /\ \A n \in samples : n.target = m.target => n.completed <= m.completed
    <3>1. res \subseteq samples /\ \A k \in res, n \in samples : n.layer = k.layer => n \in res  BY Zenon DEF res
    <3>2. QED  BY <2>1, <3>1, NewestSpeaks, Zenon
  <2>5. QED  BY <2>2, <2>3, <2>4 DEF Speaks
<1>4. CASE e \in AssessHTTPS(OfFamily(web, family), w)
  <2>1. PICK m \in Latest(OfFamily(web, family)) :
           e = Entry(m, "external", assessHTTPSMeasurement(m, w), m.status # Nil, FALSE)
    BY <1>4, Zenon DEF AssessHTTPS
  <2>2. assessHTTPSMeasurement(m, w) # "stale" => ~Stale(m, w)  BY Zenon DEF assessHTTPSMeasurement
  <2>3. e.id = m.id /\ e.started = m.started /\ e.completed = m.completed /\ e.state = assessHTTPSMeasurement(m, w)
    BY <2>1, Zenon DEF Entry
  <2>4. /\ m \in samples /\ (m.layer # "link" => m.family = family)
        /\ \A n \in samples : n.target = m.target => n.completed <= m.completed
    <3>1. web \subseteq samples /\ \A k \in web, n \in samples : n.layer = k.layer => n \in web  BY Zenon DEF web
    <3>2. QED  BY <2>1, <3>1, NewestSpeaks, Zenon
  <2>5. QED  BY <2>2, <2>3, <2>4 DEF Speaks
<1>5. QED  BY <1>1, <1>2, <1>3, <1>4, Zenon DEF EvidenceOf

(* When the candidates ended. *)
FoundEnds(in, w) == {e.completed : e \in Candidates(in, w)}

(* What Corroborate compares is found, is not contradicted and ended       *)
(* within the skew.                                                        *)
LEMMA ComparedIsFound ==
  ASSUME NEW in, NEW w, Corroborate(in, w) # Nil, NEW i \in Corroborate(in, w).compared
  PROVE  /\ validateCorroboration(in, w)
         /\ \A e \in Candidates(in, w), gap \in Discontinuities(in) : ~(e.started <= gap)
         /\ ~(Last(FoundEnds(in, w)) - Earliest(FoundEnds(in, w)) > w.skew)
         /\ \A j \in Corroborate(in, w).compared : \E e \in Candidates(in, w) : e.id = j
<1> DEFINE found == Candidates(in, w)
           ends == FoundEnds(in, w)
           starts == {e.started : e \in found}
           few == Cardinality({e.layer : e \in found}) < 2
           gone == \E e \in found, gap \in Discontinuities(in) : e.started <= gap
           apart == Last(ends) - Earliest(ends) > w.skew
           all == [conclusion |-> Conclude(found), confidence |-> "limited",
                   compared |-> {e.id : e \in found}, start |-> Earliest(starts), end |-> Last(ends)]
<1>1. Corroborate(in, w) =
         IF ~validateCorroboration(in, w) THEN Nil
         ELSE IF few THEN Nothing("insufficient-evidence")
         ELSE IF gone THEN Nothing("collection-discontinuity")
         ELSE IF apart THEN Nothing("observations-too-far-apart")
         ELSE all
  BY Zenon DEF Corroborate, FoundEnds
<1>2. \A code : Nothing(code).compared = {}  BY Zenon DEF Nothing
<1>3. all.compared = {e.id : e \in found}  BY Zenon
<1> HIDE DEF few, all
<1>4. validateCorroboration(in, w) /\ ~gone /\ ~apart /\ Corroborate(in, w) = all
  BY <1>1, <1>2, Zenon
<1>5. QED  BY <1>3, <1>4, Zenon

(* Within a valid window every candidate ended between its start and its   *)
(* end.                                                                    *)
LEMMA CollectedInWindow ==
  ASSUME SamplesInv, NEW family, validateCorroboration(Collected(family), SampleWindow), NEW m \in samples
  PROVE  m.completed \in SampleWindow.start..SampleWindow.asOf
<1> DEFINE in == Collected(family)
<1>1. m \in SampleSpace  BY Zenon DEF SamplesInv
<1>2. /\ m.layer \in {"link", "gateway", "dns", "https"} /\ m.started \in Int /\ m.completed \in Int
      /\ SampleWindow.start \in Int /\ SampleWindow.asOf \in Int
  BY <1>1, QualityAssumption, Zenon
<1>3. m \in in.network \/ m \in in.resolvers \/ m \in in.https  BY <1>2, Zenon DEF Collected
<1>4. \E ms \in {in.network, in.resolvers, in.https} : m \in ms /\ ValidContext(ms, in.iface, SampleWindow)
  BY <1>3, Zenon DEF validateCorroboration, ValidateSnapshot, ValidateResolverSnapshot, ValidateHTTPSSnapshot
<1>5. SampleWindow.start <= m.started /\ m.started <= m.completed /\ m.completed <= SampleWindow.asOf
  BY <1>4, Zenon DEF ValidContext
<1>6. QED  BY <1>2, <1>5

(* What is compared is what the invariant allows, sample by sample. *)
LEMMA ComparedHolds == SamplesInv => ComparedIsCurrent
<1> SUFFICES ASSUME SamplesInv, NEW family \in {"ipv4", "ipv6"}
             PROVE  LET c == Corroborate(Collected(family), SampleWindow)
                        used == {m \in samples : c # Nil /\ m.id \in c.compared}
                    IN  \A m \in used :
                          /\ SampleWindow.asOf - m.completed < SampleWindow.freshness
                          /\ m.layer # "link" => m.family = family
                          /\ \A n \in samples :
                                /\ n.target = m.target => n.completed <= m.completed
                                /\ n.gap \in RuntimeGaps => n.completed < m.started
                          /\ \A n \in used : n.completed - m.completed <= SampleWindow.skew
  BY Zenon DEF ComparedIsCurrent
<1> DEFINE used == {m \in samples : /\ Corroborate(Collected(family), SampleWindow) # Nil
                                    /\ m.id \in Corroborate(Collected(family), SampleWindow).compared}
<1> SUFFICES ASSUME NEW m \in used
             PROVE  /\ SampleWindow.asOf - m.completed < SampleWindow.freshness
                    /\ m.layer # "link" => m.family = family
                    /\ \A n \in samples :
                          /\ n.target = m.target => n.completed <= m.completed
                          /\ n.gap \in RuntimeGaps => n.completed < m.started
                    /\ \A n \in used : n.completed - m.completed <= SampleWindow.skew
  BY Zenon
<1>0. /\ Corroborate(Collected(family), SampleWindow) # Nil
      /\ m \in samples /\ m.id \in Corroborate(Collected(family), SampleWindow).compared
  BY Zenon
<1> DEFINE in == Collected(family)
           w == SampleWindow
           found == Candidates(in, w)
           ends == FoundEnds(in, w)
<1>1. /\ validateCorroboration(in, w)
      /\ \A e \in found, gap \in Discontinuities(in) : ~(e.started <= gap)
      /\ ~(Last(ends) - Earliest(ends) > w.skew)
      /\ \A j \in Corroborate(in, w).compared : \E e \in found : e.id = j
  BY <1>0, ComparedIsFound, Zenon
<1>2. ASSUME NEW n \in samples, \E e \in found : e.id = n.id
      PROVE  \E e \in found : e.state # "stale" /\ Speaks(e, n, family, w)
  <2>1. PICK e \in found : e.id = n.id  BY <1>2, Zenon
  <2>2. e \in EvidenceOf(in, w) /\ e.state # "stale"  BY Zenon DEF Candidates
  <2>3. PICK k \in samples : Speaks(e, k, family, w)  BY <2>2, EvidenceSpeaks, Zenon
  <2>4. k = n  BY <2>1, <2>3, Zenon DEF Speaks, SamplesInv
  <2>5. QED  BY <2>1, <2>2, <2>3, <2>4, Zenon
<1>3. /\ \A n \in samples : n.started \in Int /\ n.completed \in Int
      /\ w.asOf \in Int /\ w.freshness \in Int /\ w.skew \in Int /\ w.start \in Int
  BY QualityAssumption, Zenon DEF SamplesInv
<1>4. ends \subseteq w.start..w.asOf
  <2> SUFFICES ASSUME NEW e \in found PROVE e.completed \in w.start..w.asOf  BY Zenon DEF FoundEnds
  <2>1. e \in EvidenceOf(in, w)  BY Zenon DEF Candidates
  <2>2. PICK k \in samples : Speaks(e, k, family, w)  BY <2>1, EvidenceSpeaks, Zenon
  <2>3. e.completed = k.completed  BY <2>2, Zenon DEF Speaks
  <2>4. QED  BY <1>1, <2>3, CollectedInWindow, Zenon
<1>5. PICK e \in found : e.state # "stale" /\ Speaks(e, m, family, w)  BY <1>0, <1>1, <1>2, Zenon
<1>5a. \A n \in used : n \in samples /\ n.id \in Corroborate(in, w).compared  BY Zenon
<1> HIDE DEF found, w, in, used
<1>6. w.asOf - m.completed < w.freshness
  <2>1. ~(m.completed + w.freshness <= w.asOf)  BY <1>5, Zenon DEF Speaks, Stale
  <2>2. QED  BY <1>0, <1>3, <2>1
<1>7. ASSUME NEW n \in samples
      PROVE  /\ n.target = m.target => n.completed <= m.completed
             /\ n.gap \in RuntimeGaps => n.completed < m.started
  <2>1. n.target = m.target => n.completed <= m.completed  BY <1>5, Zenon DEF Speaks
  <2>2. ASSUME n.gap \in RuntimeGaps PROVE n.completed < m.started
    <3>1. n.layer \in {"link", "gateway", "dns", "https"}  BY QualityAssumption, Zenon DEF SamplesInv
    <3>2. n \in AllSamples(in)  BY <3>1, Zenon DEF AllSamples, Collected, in
    <3>3. n.completed \in Discontinuities(in)  BY <2>2, <3>2, Zenon DEF Discontinuities
    <3>4. ~(e.started <= n.completed) /\ e.started = m.started  BY <1>1, <1>5, <3>3, Zenon DEF Speaks
    <3>5. QED  BY <1>0, <1>3, <3>4
  <2>3. QED  BY <2>1, <2>2, Zenon
<1>8. ASSUME NEW n \in samples, n.id \in Corroborate(in, w).compared
      PROVE  n.completed - m.completed <= w.skew
  <2>1. \E f \in found : f.id = n.id  BY <1>1, <1>8, Zenon
  <2>2. PICK f \in found : Speaks(f, n, family, w)  BY <1>2, <2>1, Zenon
  <2>3. n.completed \in ends /\ m.completed \in ends  BY <1>5, <2>2, Zenon DEF Speaks, FoundEnds, found
  <2> HIDE DEF ends
  <2>4. /\ Earliest(ends) \in ends /\ Earliest(ends) <= m.completed
        /\ Last(ends) \in ends /\ n.completed <= Last(ends)
    BY <1>3, <1>4, <2>3, Extremes, Zenon
  <2>5. Earliest(ends) \in w.start..w.asOf /\ Last(ends) \in w.start..w.asOf  BY <1>4, <2>4, Zenon
  <2>6. ~(Last(ends) - Earliest(ends) > w.skew)  BY <1>1, Zenon
  <2>7. Earliest(ends) \in Int /\ Last(ends) \in Int  BY <1>3, <2>5
  <2>8. QED  BY <1>0, <1>3, <2>4, <2>6, <2>7, Within, Zenon
<1>9. QED  BY <1>5, <1>5a, <1>6, <1>7, <1>8, Zenon DEF Speaks, w

(* The samples collected are told apart by their ids. *)
THEOREM SamplesInvariant == SamplesSpec => []SamplesInv
<1>1. SamplesInit => SamplesInv  BY Zenon DEF SamplesInit, SamplesInv
<1>2. SamplesInv /\ [SamplesNext]_samples => SamplesInv'  BY Zenon DEF SamplesInv, SamplesNext, Collect
<1>3. QED  BY <1>1, <1>2, PTL DEF SamplesSpec

(* A conclusion of Corroborate rests on samples that are all fresh, of the *)
(* family asked for, the newest of their targets, later than every gap of  *)
(* the collector and within the skew of each other, for any samples and    *)
(* any window.                                                             *)
THEOREM ComparedCurrent == SamplesSpec => []ComparedIsCurrent
<1>1. QED  BY ComparedHolds, SamplesInvariant, PTL

-------------------------------------------------------------------------------
(* Retained history *)

(* A finite set that has not more than one element. *)
LEMMA AtMostOne ==
  ASSUME NEW T, IsFiniteSet(T), ~(Cardinality(T) > 1), NEW a \in T, NEW b \in T
  PROVE  a = b
<1> SUFFICES ASSUME a # b PROVE FALSE  BY Zenon
<1>1. IsFiniteSet({a}) /\ Cardinality({a}) = 1  BY FS_Singleton, Zenon
<1>2. Cardinality({a} \cup {b}) = Cardinality({a}) + 1  BY <1>1, FS_AddElement, Zenon
<1>3. {a} \cup {b} \in SUBSET T  BY Zenon
<1>4. Cardinality({a} \cup {b}) <= Cardinality(T) /\ Cardinality(T) \in Nat
  BY <1>3, FS_Subset, FS_CardinalityType, Zenon
<1>5. QED  BY <1>1, <1>2, <1>4

(* The readings of the wall clock. *)
Moments == 0..MaxWall

(* The times of the wall clock are integers. *)
LEMMA MomentsAreTimes == 0 \in Int /\ MaxWall \in Int /\ 0..MaxWall = Moments /\ \A t \in Moments : t \in Int
BY DiagnosisAssumption DEF Moments

(* What a retained sample tells, as far as a comparison depends on it. *)
Measures(kind, m) ==
    /\ m.started \in Moments /\ m.completed \in Moments \cup {Nil}
    /\ m.completed = Nil => kind = "gateway" /\ ~m.complete
    /\ kind # "gateway" => "exchange" \in DOMAIN m
    /\ kind = "resolver" =>
          /\ "reply" \in DOMAIN m
          /\ m.reply # Nil => m.reply.answer \in {"none", "present", "nodata", "referral", "unclassified"}

Written(r) ==
    /\ r.kind \in Kinds /\ r.at \in Moments
    /\ DOMAIN r.selection = {"scope", "iface", "family"}
    /\ r.measurement # Nil => Measures(r.kind, r.measurement)

(* A run of a page is described from the rows of one run. *)
Retained(d, kind) ==
    /\ d.kind = kind /\ d.lastAuditAt \in Moments
    /\ DOMAIN d.selection = {"scope", "iface", "family"}
    /\ d.measurement # Nil => Measures(kind, d.measurement)

(* The last of some rows is the time of one of them, and none is later. *)
LEMMA LastOfRows ==
  ASSUME NEW events, events # {}, \A e \in events : e.at \in Moments
  PROVE  /\ LastAt(events) \in Moments /\ \A e \in events : e.at <= LastAt(events)
         /\ \E e \in events : e.at = LastAt(events)
<1> DEFINE T == {e.at : e \in events}
<1>1. T \subseteq 0..MaxWall /\ T # {} /\ 0 \in Int /\ MaxWall \in Int
  <2>1. 0 \in Int /\ MaxWall \in Int  BY DiagnosisAssumption
  <2>2. QED  BY <2>1, Zenon DEF Moments
<1>2. \A e \in events : e.at \in T  BY Zenon
<1>3. \A t \in T : \E e \in events : e.at = t  BY Zenon
<1>4. LastAt(events) = Last(T)  BY Zenon DEF LastAt
<1> HIDE DEF T
<1>5. Last(T) \in T /\ \A t \in T : t <= Last(T)  BY <1>1, Extremes, Zenon
<1>6. QED  BY <1>1, <1>2, <1>3, <1>4, <1>5, Zenon DEF Moments

(* What DescribeRetainedRun tells of written rows of one run. *)
LEMMA DescribedRun ==
  ASSUME NEW events, events # {}, NEW kind, NEW id,
         \A e \in events : Written(e) /\ e.kind = kind /\ e.run = id
  PROVE  LET d == DescribeRetainedRun(events)
         IN  Retained(d, kind) /\ d.run = id /\ d.lastAuditAt = LastAt(events)
<1> DEFINE any == CHOOSE e \in events : TRUE
           last == {e \in events : e.state = "finished"}
           end == CHOOSE e \in last : TRUE
           run == [kind |-> any.kind, run |-> any.run, selection |-> any.selection,
                   lastAuditAt |-> LastAt(events), retained |-> {e.state : e \in events},
                   outcome |-> IF last = {} THEN "unknown" ELSE end.outcome,
                   measurement |-> IF last = {} THEN Nil ELSE end.measurement]
           tail == [assessment |-> HistoricalAssessment(run)]
<1>1. DescribeRetainedRun(events) = Joined(run, tail)  BY Zenon DEF DescribeRetainedRun
<1>2. any \in events /\ (last # {} => end \in events)  BY Zenon
<1>3. {"kind", "run", "selection", "lastAuditAt", "measurement"} \subseteq DOMAIN run  BY Zenon
<1>4. /\ run.kind = any.kind /\ run.run = any.run /\ run.selection = any.selection
      /\ run.lastAuditAt = LastAt(events)
      /\ run.measurement = (IF last = {} THEN Nil ELSE end.measurement)
  BY Zenon
<1> HIDE DEF run, tail, any, end, last
<1>5. LET d == Joined(run, tail)
      IN  /\ d.kind = run.kind /\ d.run = run.run /\ d.selection = run.selection
          /\ d.lastAuditAt = run.lastAuditAt /\ d.measurement = run.measurement
  <2>1. \A x \in DOMAIN run : Joined(run, tail)[x] = run[x]  BY Zenon DEF Joined
  <2>2. QED  BY <1>3, <2>1, Zenon
<1>6. LastAt(events) \in Moments  BY LastOfRows, Zenon DEF Written
<1>7. Written(any) /\ any.kind = kind /\ any.run = id  BY <1>2, Zenon
<1>8. last # {} => Written(end) /\ end.kind = kind  BY <1>2, Zenon
<1>9. run.measurement # Nil => Measures(kind, run.measurement)  BY <1>4, <1>8, Zenon DEF Written
<1>10. QED  BY <1>1, <1>4, <1>5, <1>6, <1>7, <1>9, Zenon DEF Retained, Written

(* The rows of a scope that were scanned, and the runs they belong to. *)
Mine(scanned, kind, scope) == {r \in scanned : r.kind = kind /\ r.selection.scope = scope}

(* A finite set has a finite image. *)
LEMMA ImageIsFinite ==
  ASSUME NEW S, IsFiniteSet(S), NEW T, NEW f \in Surjection(S, T)
  PROVE  IsFiniteSet(T)
BY FS_Surjection, Zenon

(* A page that was not cut has every run that was met, in full. *)
LEMMA PageInFull ==
  ASSUME NEW kind, NEW rows, NEW scanned, IsFiniteSet(scanned), NEW scope, NEW asOf,
         NEW page \in HistoryPages(kind, rows, scanned, scope, asOf), page # Nil, ~page.truncated
  PROVE  /\ page.runs = {DescribeRetainedRun(RowsOf(rows, kind, id, asOf)) :
                            id \in {r.run : r \in Mine(scanned, kind, scope)}}
         /\ page.scanTruncated <=> Cardinality(InWindow(rows, asOf)) > MaxHistoryScan
         /\ IsFiniteSet({r.run : r \in Mine(scanned, kind, scope)})
<1> DEFINE mine == Mine(scanned, kind, scope)
           ids == {r.run : r \in mine}
           MetAt(id) == LastAt({r \in mine : r.run = id})
           truncated == Cardinality(ids) > MaxHistoryRuns
           Events(id) == RowsOf(rows, kind, id, asOf)
           Page(picked) == [runs |-> {DescribeRetainedRun(Events(id)) : id \in picked},
                            truncated |-> truncated,
                            scanTruncated |-> ~truncated /\ Cardinality(InWindow(rows, asOf)) > MaxHistoryScan]
<1>1. PICK picked \in Newest(ids, MaxHistoryRuns, MetAt) : page = Page(picked)
  BY Zenon DEF HistoryPages, Mine
<1>2. /\ page.runs = {DescribeRetainedRun(Events(id)) : id \in picked}
      /\ page.truncated = truncated
      /\ page.scanTruncated = (~truncated /\ Cardinality(InWindow(rows, asOf)) > MaxHistoryScan)
  BY <1>1, Zenon
<1>3. IsFiniteSet(ids)
  <2>1. IsFiniteSet(mine)  BY FS_Subset, Zenon DEF Mine
  <2>2. [r \in mine |-> r.run] \in Surjection(mine, ids)  BY Zenon DEF Surjection
  <2>3. QED  BY <2>1, <2>2, ImageIsFinite, Zenon
<1>4. Cardinality(ids) <= MaxHistoryRuns
  <2>1. Cardinality(ids) \in Nat  BY <1>3, FS_CardinalityType, Zenon
  <2> HIDE DEF ids
  <2>2. ~(Cardinality(ids) > MaxHistoryRuns)  BY <1>2, Zenon
  <2>3. QED  BY <2>1, <2>2, DiagnosisAssumption
<1>5. picked = ids  BY <1>4, Zenon DEF Newest
<1>6. QED  BY <1>2, <1>3, <1>5, Zenon

(* What is scanned is in the window, and is all of it when the scan was    *)
(* not cut.                                                                *)
LEMMA ScannedRows ==
  ASSUME NEW all, IsFiniteSet(all), NEW scanned \in Newest(all, MaxHistoryScan, RowTime)
  PROVE  /\ scanned \subseteq all /\ IsFiniteSet(scanned)
         /\ ~(Cardinality(all) > MaxHistoryScan) => scanned = all
<1>1. Cardinality(all) \in Nat  BY FS_CardinalityType, Zenon
<1>2. ~(Cardinality(all) > MaxHistoryScan) => Cardinality(all) <= MaxHistoryScan
  BY <1>1, DiagnosisAssumption
<1>3. Cardinality(all) <= MaxHistoryScan => scanned = all  BY Zenon DEF Newest
<1>4. scanned \subseteq all  BY Zenon DEF Newest, kSubset
<1>5. QED  BY <1>2, <1>3, <1>4, FS_Subset, Zenon

(* A page that was not cut: its runs are the retained runs that some row   *)
(* in the window belongs to, and each of them ends with its last row.      *)
FullPage(page, rows, kind, scope, asOf) ==
    /\ IsFiniteSet(page.runs)
    /\ \A d \in page.runs :
          /\ Retained(d, kind)
          /\ \E s \in rows : s.kind = kind /\ s.run = d.run /\ s.at = d.lastAuditAt /\ s.at <= asOf
    /\ \A r \in InWindow(rows, asOf) : r.kind = kind /\ r.selection.scope = scope =>
          \E d \in page.runs : d.run = r.run /\ r.at <= d.lastAuditAt

LEMMA PagesAreFull ==
  ASSUME NEW kind \in Kinds, NEW rows, IsFiniteSet(rows), \A r \in rows : Written(r),
         NEW scope, NEW asOf, NEW scanned \in Newest(InWindow(rows, asOf), MaxHistoryScan, RowTime),
         NEW page \in HistoryPages(kind, rows, scanned, scope, asOf), page # Nil,
         ~page.truncated, ~page.scanTruncated
  PROVE  FullPage(page, rows, kind, scope, asOf)
<1> DEFINE ids == {r.run : r \in Mine(scanned, kind, scope)}
           Events(id) == RowsOf(rows, kind, id, asOf)
<1>1. InWindow(rows, asOf) \subseteq rows /\ IsFiniteSet(InWindow(rows, asOf))
  <2>1. InWindow(rows, asOf) \subseteq rows  BY Zenon DEF InWindow
  <2>2. QED  BY <2>1, FS_Subset, Zenon
<1>2. scanned \subseteq InWindow(rows, asOf) /\ IsFiniteSet(scanned)  BY <1>1, ScannedRows, Zenon
<1>3. /\ page.runs = {DescribeRetainedRun(Events(id)) : id \in ids}
      /\ page.scanTruncated <=> Cardinality(InWindow(rows, asOf)) > MaxHistoryScan
      /\ IsFiniteSet(ids)
  BY <1>2, PageInFull, Zenon
<1>4. scanned = InWindow(rows, asOf)  BY <1>1, <1>3, ScannedRows, Zenon
<1>5. \A id \in ids : \E r \in InWindow(rows, asOf) : r.run = id /\ r.kind = kind
  BY <1>4, Zenon DEF Mine
<1>6. \A r \in InWindow(rows, asOf) : r.kind = kind /\ r.selection.scope = scope => r.run \in ids
  BY <1>4, Zenon DEF Mine
<1> HIDE DEF ids
<1>7. ASSUME NEW id \in ids
      PROVE  /\ Retained(DescribeRetainedRun(Events(id)), kind)
             /\ DescribeRetainedRun(Events(id)).run = id
             /\ \A r \in Events(id) : r.at <= DescribeRetainedRun(Events(id)).lastAuditAt
             /\ \E s \in Events(id) : s.at = DescribeRetainedRun(Events(id)).lastAuditAt
  <2>1. Events(id) # {}  BY <1>5, Zenon DEF RowsOf, InWindow
  <2>2. \A e \in Events(id) : Written(e) /\ e.kind = kind /\ e.run = id  BY Zenon DEF RowsOf
  <2> HIDE DEF Events
  <2>3. /\ Retained(DescribeRetainedRun(Events(id)), kind)
        /\ DescribeRetainedRun(Events(id)).run = id
        /\ DescribeRetainedRun(Events(id)).lastAuditAt = LastAt(Events(id))
    BY <2>1, <2>2, DescribedRun, Zenon
  <2>4. \A e \in Events(id) : e.at \in Moments  BY <2>2, Zenon DEF Written
  <2>5. QED  BY <2>1, <2>3, <2>4, LastOfRows, Zenon
<1>8. IsFiniteSet(page.runs)
  <2>1. [id \in ids |-> DescribeRetainedRun(Events(id))] \in Surjection(ids, page.runs)
    BY <1>3, Zenon DEF Surjection
  <2>2. QED  BY <1>3, <2>1, ImageIsFinite, Zenon
<1>9. ASSUME NEW d \in page.runs
      PROVE  /\ Retained(d, kind)
             /\ \E s \in rows : s.kind = kind /\ s.run = d.run /\ s.at = d.lastAuditAt /\ s.at <= asOf
  <2>1. PICK id \in ids : d = DescribeRetainedRun(Events(id))  BY <1>3, Zenon
  <2>2. PICK s \in Events(id) : s.at = d.lastAuditAt  BY <1>7, <2>1, Zenon
  <2>3. s \in rows /\ s.kind = kind /\ s.run = id /\ s.at <= asOf  BY <2>2, Zenon DEF RowsOf
  <2>4. QED  BY <1>7, <2>1, <2>2, <2>3, Zenon
<1>10. ASSUME NEW r \in InWindow(rows, asOf), r.kind = kind, r.selection.scope = scope
       PROVE  \E d \in page.runs : d.run = r.run /\ r.at <= d.lastAuditAt
  <2>1. r.run \in ids /\ DescribeRetainedRun(Events(r.run)) \in page.runs  BY <1>3, <1>6, <1>10, Zenon
  <2>2. r \in Events(r.run)  BY <1>10, Zenon DEF RowsOf, InWindow
  <2>3. QED  BY <1>7, <2>1, <2>2, Zenon
<1>11. QED  BY <1>8, <1>9, <1>10, Zenon DEF FullPage

(* Of a full page one run is the latest, and it is the run of a row or     *)
(* has a later row.                                                        *)
LEMMA LatestOfPage ==
  ASSUME NEW page, NEW rows, NEW kind, NEW scope, NEW asOf \in Int, \A r \in rows : Written(r),
         FullPage(page, rows, kind, scope, asOf), ~(Cardinality(SelectLatest(page.runs)) > 1),
         NEW r \in InWindow(rows, asOf), r.kind = kind, r.selection.scope = scope
  PROVE  \E d \in SelectLatest(page.runs) :
            \/ d.run = r.run
            \/ \E s \in InWindow(rows, asOf) : s.kind = kind /\ s.run = d.run /\ s.at > r.at
<1> DEFINE T == {d.lastAuditAt : d \in page.runs}
<1>1. PICK mine \in page.runs : mine.run = r.run /\ r.at <= mine.lastAuditAt  BY Zenon DEF FullPage
<1>2. \A d \in page.runs : d.lastAuditAt \in Moments  BY Zenon DEF FullPage, Retained
<1>3. T \subseteq 0..MaxWall /\ T # {}  BY <1>1, <1>2, Zenon DEF Moments
<1>4. \A d \in page.runs : d.lastAuditAt \in T  BY Zenon
<1>5. \A t \in T : \E d \in page.runs : d.lastAuditAt = t  BY Zenon
<1> HIDE DEF T
<1>6. 0 \in Int /\ MaxWall \in Int  BY DiagnosisAssumption
<1>7. Last(T) \in T /\ \A t \in T : t <= Last(T)  BY <1>3, <1>6, Extremes, Zenon
<1>8. PICK top \in page.runs : top.lastAuditAt = Last(T)  BY <1>5, <1>7, Zenon
<1>9. \A d \in page.runs : d.lastAuditAt <= top.lastAuditAt  BY <1>4, <1>7, <1>8, Zenon
<1>10. top \in SelectLatest(page.runs)  BY <1>9, Zenon DEF SelectLatest
<1>11. PICK s \in rows : s.kind = kind /\ s.run = top.run /\ s.at = top.lastAuditAt /\ s.at <= asOf
  BY Zenon DEF FullPage
<1>12. r \in rows /\ asOf - HistoryWindow <= r.at /\ r.at <= asOf  BY Zenon DEF InWindow
<1>13. r.at \in Moments /\ s.at \in Moments /\ mine.lastAuditAt \in Moments  BY <1>2, <1>11, <1>12, Zenon DEF Written
<1>14. r.at \in Int /\ s.at \in Int /\ mine.lastAuditAt \in Int  BY <1>13 DEF Moments
<1>15. mine.lastAuditAt <= s.at  BY <1>9, <1>11, Zenon
<1>16. r.at <= s.at /\ asOf - HistoryWindow <= s.at
  <2>1. asOf - HistoryWindow \in Int  BY DiagnosisAssumption
  <2>2. \A a, b, c, w \in Int : w <= a /\ a <= b /\ b <= c => a <= c /\ w <= c  OBVIOUS
  <2>3. QED  BY <1>1, <1>12, <1>14, <1>15, <2>1, <2>2, Zenon
<1>17. s \in InWindow(rows, asOf)  BY <1>11, <1>16, Zenon DEF InWindow
<1>18. CASE s.at > r.at  BY <1>10, <1>11, <1>17, <1>18, Zenon
<1>19. CASE ~(s.at > r.at)
  <2>1. mine.lastAuditAt = s.at
    <3>1. \A a, b, c \in Int : a <= b /\ b <= c /\ ~(c > a) => b = c  OBVIOUS
    <3>2. QED  BY <1>1, <1>14, <1>15, <1>19, <3>1, Zenon
  <2>2. mine \in SelectLatest(page.runs)  BY <1>9, <1>11, <2>1, Zenon DEF SelectLatest
  <2>3. QED  BY <1>1, <2>2, Zenon
<1>20. QED  BY <1>18, <1>19, Zenon

(* The fields of a sample. *)
LEMMA SampleFields ==
  ASSUME NEW r
  PROVE  /\ AsSample(r).id = <<r.kind, r.run>> /\ AsSample(r).target = r.kind
         /\ AsSample(r).layer = r.kind /\ AsSample(r).family = r.selection.family
         /\ AsSample(r).completed = r.measurement.completed
         /\ r.kind = "gateway" => AsSample(r).outcome \in {"failed", "partial", "succeeded"}
         /\ r.kind # "gateway" =>
               \A f \in {"exchange", "reply"} \cap DOMAIN r.measurement : AsSample(r)[f] = r.measurement[f]
<1> DEFINE head == [id |-> <<r.kind, r.run>>, target |-> r.kind, layer |-> r.kind,
                    family |-> r.selection.family, iface |-> r.selection.iface,
                    started |-> r.measurement.started, completed |-> r.measurement.completed]
           probe == [attempts |-> 3, successes |-> r.measurement.replies, gap |-> "none",
                     outcome |-> IF r.measurement.replies = 0 THEN "failed"
                                 ELSE IF r.measurement.replies < 3 THEN "partial" ELSE "succeeded"]
           rest == [f \in DOMAIN r.measurement \ {"started", "completed", "complete"} |-> r.measurement[f]]
           tail == IF r.kind = "gateway" THEN probe ELSE rest
<1>1. AsSample(r) = Joined(head, tail)  BY Zenon DEF AsSample
<1>2. DOMAIN head = {"id", "target", "layer", "family", "iface", "started", "completed"}  BY Zenon
<1>3. /\ head.id = <<r.kind, r.run>> /\ head.target = r.kind /\ head.layer = r.kind
      /\ head.family = r.selection.family /\ head.completed = r.measurement.completed
  BY Zenon
<1>4. r.kind = "gateway" => "outcome" \in DOMAIN tail /\ tail.outcome \in {"failed", "partial", "succeeded"}
  BY Zenon
<1>5. ASSUME r.kind # "gateway", NEW f \in {"exchange", "reply"} \cap DOMAIN r.measurement
      PROVE  f \in DOMAIN tail /\ tail[f] = r.measurement[f] /\ f \notin DOMAIN head
  BY <1>5, Zenon
<1> HIDE DEF head, tail
<1>6. \A x \in DOMAIN head : Joined(head, tail)[x] = head[x]  BY Zenon DEF Joined
<1>7. \A x \in DOMAIN tail \ DOMAIN head : Joined(head, tail)[x] = tail[x]  BY Zenon DEF Joined
<1>8. /\ AsSample(r).id = head.id /\ AsSample(r).target = head.target /\ AsSample(r).layer = head.layer
      /\ AsSample(r).family = head.family /\ AsSample(r).completed = head.completed
  BY <1>1, <1>2, <1>6, Zenon
<1>9. r.kind = "gateway" => AsSample(r).outcome = tail.outcome  BY <1>1, <1>2, <1>4, <1>7, Zenon
<1>10. r.kind # "gateway" =>
          \A f \in {"exchange", "reply"} \cap DOMAIN r.measurement : AsSample(r)[f] = r.measurement[f]
  BY <1>1, <1>5, <1>7, Zenon
<1>11. QED  BY <1>3, <1>4, <1>8, <1>9, <1>10, Zenon

(* A sample that is alone for its target is the latest. *)
LEMMA AloneIsLatest ==
  ASSUME NEW m, m.completed \in Int, NEW family, m.family = family
  PROVE  m \in Latest(OfFamily({m}, family))
<1>1. m.completed <= m.completed  OBVIOUS
<1>2. QED  BY <1>1, Zenon DEF Latest, OfFamily

(* A recorded gateway sample is usable. *)
LEMMA GatewayCandidate ==
  ASSUME NEW m, m.outcome \in {"failed", "partial", "succeeded"}, NEW in, in.network = {m},
         m.family = in.family, m.completed \in Int, NEW w, ~Stale(m, w)
  PROVE  \E e \in Candidates(in, w) : e.id = m.id
<1> DEFINE e == Entry(m, m.layer, assessMeasurement(m, w), m.successes > 0, FALSE)
<1>1. m \in Latest(OfFamily(in.network, in.family))  BY AloneIsLatest, Zenon
<1>2. e \in EvidenceOf(in, w)  BY <1>1, Zenon DEF EvidenceOf, Assess
<1>3. e.id = m.id /\ e.state = assessMeasurement(m, w)  BY Zenon DEF Entry
<1>4. assessMeasurement(m, w) \in {"check-succeeded", "issue-observed"}  BY Zenon DEF assessMeasurement
<1> HIDE DEF e
<1>5. e \in Candidates(in, w)  BY <1>2, <1>3, <1>4, Zenon DEF Candidates
<1>6. QED  BY <1>3, <1>5, Zenon

(* A recorded HTTPS sample is usable. *)
LEMMA HTTPSCandidate ==
  ASSUME NEW m, m.exchange \notin {"incomplete", "not-measured"}, NEW in, in.https = {m},
         m.family = in.family, m.completed \in Int, NEW w, ~Stale(m, w)
  PROVE  \E e \in Candidates(in, w) : e.id = m.id
<1> DEFINE e == Entry(m, "external", assessHTTPSMeasurement(m, w), m.status # Nil, FALSE)
<1>1. m \in Latest(OfFamily(in.https, in.family))  BY AloneIsLatest, Zenon
<1>2. e \in EvidenceOf(in, w)  BY <1>1, Zenon DEF EvidenceOf, AssessHTTPS
<1>3. e.id = m.id /\ e.state = assessHTTPSMeasurement(m, w)  BY Zenon DEF Entry
<1>4. assessHTTPSMeasurement(m, w) \in {"check-succeeded", "issue-observed"}
  BY Zenon DEF assessHTTPSMeasurement
<1> HIDE DEF e
<1>5. e \in Candidates(in, w)  BY <1>2, <1>3, <1>4, Zenon DEF Candidates
<1>6. QED  BY <1>3, <1>5, Zenon

(* A reply that was understood has a result of its own. *)
LEMMA ResultIsComplete ==
  ASSUME NEW m, m.exchange \in {"response-received", "timeout", "transport-error"},
         validateResolverMeasurement(m),
         m.reply # Nil => m.reply.answer \in {"none", "present", "nodata", "referral", "unclassified"}
  PROVE  resolverResult(m) # "incomplete"
<1>1. CASE m.exchange # "response-received"  BY <1>1, Zenon DEF resolverResult
<1>2. CASE m.exchange = "response-received"
  <2>1. m.reply # Nil /\ ((m.reply.truncated \/ m.reply.rcode # 0) <=> m.reply.answer = "none")
    BY <1>2, Zenon DEF validateResolverMeasurement
  <2>2. CASE m.reply.truncated  BY <1>2, <2>2, Zenon DEF resolverResult
  <2>3. CASE ~m.reply.truncated /\ m.reply.rcode = 0
    <3>1. m.reply.answer \in {"present", "nodata", "referral", "unclassified"}  BY <2>1, <2>3, Zenon
    <3>2. AnswerResults[m.reply.answer] # "incomplete"  BY <3>1 DEF AnswerResults
    <3>3. QED  BY <1>2, <2>3, <3>2, Zenon DEF resolverResult
  <2>4. CASE ~m.reply.truncated /\ m.reply.rcode # 0
    <3>1. \A c \in DOMAIN ErrorResults : ErrorResults[c] # "incomplete"  BY DEF ErrorResults
    <3>2. QED  BY <1>2, <2>4, <3>1, Zenon DEF resolverResult
  <2>5. QED  BY <2>2, <2>3, <2>4, Zenon
<1>3. QED  BY <1>1, <1>2, Zenon

(* A recorded resolver sample is usable. *)
LEMMA ResolverCandidate ==
  ASSUME NEW m, m.exchange # "not-measured", resolverResult(m) # "incomplete", NEW in, in.resolvers = {m},
         m.family = in.family, m.completed \in Int, NEW w, ~Stale(m, w)
  PROVE  \E e \in Candidates(in, w) : e.id = m.id
<1> DEFINE e == Entry(m, "dns", assessResolverMeasurement(m, w), m.exchange = "response-received",
                      resolverResult(m) \in UnclearResults)
<1>1. m \in Latest(OfFamily(in.resolvers, in.family))  BY AloneIsLatest, Zenon
<1>2. e \in EvidenceOf(in, w)  BY <1>1, Zenon DEF EvidenceOf, AssessResolvers
<1>3. /\ e.id = m.id /\ e.state = assessResolverMeasurement(m, w)
      /\ e.unclear = (resolverResult(m) \in UnclearResults)
  BY Zenon DEF Entry
<1>4. \/ assessResolverMeasurement(m, w) \in {"check-succeeded", "issue-observed"}
      \/ assessResolverMeasurement(m, w) = "unknown" /\ resolverResult(m) \in UnclearResults
  BY Zenon DEF assessResolverMeasurement
<1> HIDE DEF e
<1>5. e \in Candidates(in, w)  BY <1>2, <1>3, <1>4, Zenon DEF Candidates
<1>6. QED  BY <1>3, <1>5, Zenon

(* A recorded sample that is alone in its layer and fresh is compared. *)
LEMMA RecordedIsCandidate ==
  ASSUME NEW kind \in Kinds, NEW d, Retained(d, kind), SampleStatus(d) = "recorded",
         NEW w, w.asOf \in Int, w.freshness = ComparisonTime,
         ~(w.asOf - d.measurement.completed >= ComparisonTime),
         NEW in, in.family = d.selection.family, validateCorroboration(in, w),
         kind = "gateway" => in.network = {AsSample(d)},
         kind = "resolver" => in.resolvers = {AsSample(d)},
         kind = "https" => in.https = {AsSample(d)}
  PROVE  \E e \in Candidates(in, w) : e.id = <<kind, d.run>>
<1> DEFINE m == AsSample(d)
<1>1. d.kind = kind /\ d.measurement # Nil /\ Measures(kind, d.measurement)
  BY Zenon DEF Retained, SampleStatus
<1>2. /\ kind = "gateway" => d.measurement.complete
      /\ kind = "resolver" => d.measurement.exchange \in {"response-received", "timeout", "transport-error"}
      /\ kind = "https" => d.measurement.exchange \notin {"incomplete", "not-measured"}
  BY <1>1, Zenon DEF SampleStatus, Kinds
<1>3. d.measurement.completed \in Int
  <2>1. d.measurement.completed \in Moments  BY <1>1, <1>2, Zenon DEF Measures
  <2>2. QED  BY <2>1 DEF Moments
<1>4. /\ m.id = <<kind, d.run>> /\ m.family = in.family /\ m.completed = d.measurement.completed
      /\ kind = "gateway" => m.outcome \in {"failed", "partial", "succeeded"}
      /\ kind # "gateway" => m.exchange = d.measurement.exchange
      /\ kind = "resolver" => m.reply = d.measurement.reply
  <2>1. kind # "gateway" => "exchange" \in DOMAIN d.measurement  BY <1>1, Zenon DEF Measures
  <2>2. kind = "resolver" => "reply" \in DOMAIN d.measurement  BY <1>1, Zenon DEF Measures
  <2>3. kind # "gateway" =>
           \A f \in {"exchange", "reply"} \cap DOMAIN d.measurement : m[f] = d.measurement[f]
    BY <1>1, SampleFields, Zenon
  <2>4. kind # "gateway" => m.exchange = d.measurement.exchange  BY <2>1, <2>3, Zenon
  <2>5. kind = "resolver" => m.reply = d.measurement.reply  BY <2>2, <2>3, Zenon
  <2>6. QED  BY <1>1, <2>4, <2>5, SampleFields, Zenon
<1>5. ~Stale(m, w)
  <2>1. \A a, c, f \in Int : ~(a - c >= f) => ~(c + f <= a)  OBVIOUS
  <2>2. ComparisonTime \in Int  BY DiagnosisAssumption
  <2>3. QED  BY <1>3, <1>4, <2>1, <2>2, Zenon DEF Stale
<1>6. kind = "resolver" => validateResolverMeasurement(m)
  BY Zenon DEF validateCorroboration, ValidateResolverSnapshot
<1> HIDE DEF m
<1>a. m.completed \in Int /\ m.family = in.family  BY <1>3, <1>4, Zenon
<1> SUFFICES \E e \in Candidates(in, w) : e.id = m.id  BY <1>4, Zenon
<1>7. CASE kind = "gateway"
  <2>1. in.network = {m}  BY <1>7, Zenon DEF m
  <2>2. m.outcome \in {"failed", "partial", "succeeded"}  BY <1>4, <1>7, Zenon
  <2>3. QED  BY <1>5, <1>a, <2>1, <2>2, GatewayCandidate
<1>8. CASE kind = "resolver"
  <2>1. in.resolvers = {m}  BY <1>8, Zenon DEF m
  <2>2. m.reply # Nil => m.reply.answer \in {"none", "present", "nodata", "referral", "unclassified"}
    BY <1>1, <1>4, <1>8, Zenon DEF Measures
  <2>3. m.exchange \in {"response-received", "timeout", "transport-error"}  BY <1>2, <1>4, <1>8, Zenon
  <2>4. resolverResult(m) # "incomplete"
    <3>1. validateResolverMeasurement(m)  BY <1>6, <1>8, Zenon
    <3>2. QED  BY <2>2, <2>3, <3>1, ResultIsComplete
  <2>5. m.exchange # "not-measured"  BY <2>3, Zenon
  <2>6. QED  BY <1>5, <1>a, <2>1, <2>4, <2>5, ResolverCandidate, Zenon
<1>9. CASE kind = "https"
  <2>1. in.https = {m}  BY <1>9, Zenon DEF m
  <2>2. m.exchange \notin {"incomplete", "not-measured"}  BY <1>2, <1>4, <1>9, Zenon
  <2>3. QED  BY <1>5, <1>a, <2>1, <2>2, HTTPSCandidate, Zenon
<1>10. QED  BY <1>7, <1>8, <1>9, Zenon DEF Kinds

(* What Corroborate answers. *)
LEMMA LimitedCorroboration ==
  ASSUME NEW in, NEW w, Corroborate(in, w) # Nil
  PROVE  /\ DOMAIN Corroborate(in, w) = {"conclusion", "confidence", "compared", "start", "end"}
         /\ Corroborate(in, w).confidence = "limited" =>
               /\ validateCorroboration(in, w)
               /\ Corroborate(in, w).compared = {e.id : e \in Candidates(in, w)}
<1> DEFINE found == Candidates(in, w)
           ends == {e.completed : e \in found}
           starts == {e.started : e \in found}
           all == [conclusion |-> Conclude(found), confidence |-> "limited",
                   compared |-> {e.id : e \in found}, start |-> Earliest(starts), end |-> Last(ends)]
<1>1. \/ \E code : Corroborate(in, w) = Nothing(code)
      \/ Corroborate(in, w) = all /\ validateCorroboration(in, w)
  BY Zenon DEF Corroborate
<1>2. \A code : /\ DOMAIN Nothing(code) = {"conclusion", "confidence", "compared", "start", "end"}
                /\ Nothing(code).confidence = "unknown"
  BY Zenon DEF Nothing
<1>3. /\ DOMAIN all = {"conclusion", "confidence", "compared", "start", "end"}
      /\ all.compared = {e.id : e \in found}
  BY Zenon
<1> HIDE DEF all
<1>4. QED  BY <1>1, <1>2, <1>3, Zenon

(* The latest runs of all layers, the time of the newest, and what is      *)
(* compared.                                                               *)
Chosen(pages) == {DiagnosisRun(r) : r \in UNION {SelectLatest(pages[k].runs) : k \in Kinds}}
AnchorOf(selected) == IF selected = {} THEN Nil ELSE Last({r.run.lastAuditAt : r \in selected})
Comparison(pages) ==
    Corroborate(CorroborationInput(Chosen(pages)), ComparisonWindow(Chosen(pages), AnchorOf(Chosen(pages))))

(* A diagnosis of limited confidence passed every check that comes before. *)
LEMMA LimitedDiagnosis ==
  ASSUME NEW readAt, NEW pages,
         LET d == diagnoseRetainedQuality([NotEnrolled(readAt) EXCEPT !.enrolled = TRUE], pages)
         IN  d # Nil /\ d.confidence = "limited"
  PROVE  /\ \A k \in Kinds : /\ ~(Cardinality(SelectLatest(pages[k].runs)) > 1)
                             /\ ~pages[k].truncated /\ ~pages[k].scanTruncated
         /\ qualityDiagnosisPrecondition(Chosen(pages), AnchorOf(Chosen(pages))) = ""
         /\ Comparison(pages) # Nil /\ Comparison(pages).confidence = "limited"
         /\ diagnoseRetainedQuality([NotEnrolled(readAt) EXCEPT !.enrolled = TRUE], pages).compared
               = Comparison(pages).compared
<1> DEFINE out == [NotEnrolled(readAt) EXCEPT !.enrolled = TRUE]
           tops == {SelectLatest(pages[k].runs) : k \in Kinds}
           selected == Chosen(pages)
           anchor == AnchorOf(selected)
           cut == \E k \in Kinds : pages[k].truncated
           scanCut == \E k \in Kinds : pages[k].scanTruncated
           bounded == [out EXCEPT !.selected = selected, !.assessmentAt = anchor,
                          !.truncated = cut, !.scanTruncated = scanCut]
           why == IF bounded.truncated \/ bounded.scanTruncated THEN "history-incomplete"
                  ELSE qualityDiagnosisPrecondition(selected, anchor)
           answer == IF \E top \in tops : Cardinality(top) > 1 THEN Nil
                     ELSE IF why # "" THEN Joined(bounded, Nothing(why))
                     ELSE IF Comparison(pages) = Nil THEN Nil ELSE Joined(bounded, Comparison(pages))
<1>1. diagnoseRetainedQuality(out, pages) = answer
  BY Zenon DEF diagnoseRetainedQuality, Chosen, AnchorOf, Comparison
<1>2. DOMAIN out = {"enrolled", "readAt", "truncated", "scanTruncated", "selected", "assessmentAt"}
  BY DEF NotEnrolled
<1> HIDE DEF out
<1>3. DOMAIN bounded = DOMAIN out /\ bounded.truncated = cut /\ bounded.scanTruncated = scanCut
  BY <1>2
<1> HIDE DEF bounded
<1>4. ASSUME NEW c, DOMAIN c = {"conclusion", "confidence", "compared", "start", "end"}
      PROVE  Joined(bounded, c).confidence = c.confidence /\ Joined(bounded, c).compared = c.compared
  <2>1. \A x \in DOMAIN c \ DOMAIN bounded : Joined(bounded, c)[x] = c[x]  BY Zenon DEF Joined
  <2>2. {"confidence", "compared"} \subseteq DOMAIN c \ DOMAIN bounded  BY <1>2, <1>3, <1>4, Zenon
  <2>3. QED  BY <2>1, <2>2, Zenon
<1>5. DOMAIN Nothing(why) = {"conclusion", "confidence", "compared", "start", "end"}
  BY Zenon DEF Nothing
<1>6. Nothing(why).confidence = "unknown"  BY Zenon DEF Nothing
<1>7. answer # Nil /\ answer.confidence = "limited"
  <2>1. diagnoseRetainedQuality(out, pages) # Nil /\ diagnoseRetainedQuality(out, pages).confidence = "limited"
    BY Zenon DEF out
  <2> HIDE DEF answer
  <2>2. QED  BY <1>1, <2>1, Zenon
<1>8. /\ ~\E top \in tops : Cardinality(top) > 1
      /\ why = "" /\ Comparison(pages) # Nil /\ answer = Joined(bounded, Comparison(pages))
  <2> HIDE DEF why, tops
  <2>1. Joined(bounded, Nothing(why)).confidence = "unknown"  BY <1>4, <1>5, <1>6, Zenon
  <2>2. QED  BY <1>7, <2>1, Zenon
<1>9. ~cut /\ ~scanCut /\ qualityDiagnosisPrecondition(selected, anchor) = ""  BY <1>3, <1>8, Zenon
<1>10. /\ Joined(bounded, Comparison(pages)).confidence = Comparison(pages).confidence
       /\ Joined(bounded, Comparison(pages)).compared = Comparison(pages).compared
  <2>1. DOMAIN Comparison(pages) = {"conclusion", "confidence", "compared", "start", "end"}
    BY <1>8, LimitedCorroboration, Zenon DEF Comparison
  <2>2. QED  BY <1>4, <2>1, Zenon
<1>11. answer.confidence = Comparison(pages).confidence /\ answer.compared = Comparison(pages).compared
  BY <1>8, <1>10, Zenon
<1>12. \A k \in Kinds : ~(Cardinality(SelectLatest(pages[k].runs)) > 1)  BY <1>8, Zenon
<1> HIDE DEF answer
<1>13. QED  BY <1>1, <1>7, <1>8, <1>9, <1>11, <1>12, Zenon DEF out

(* The precondition holds for all selected runs. *)
LEMMA AllAreUsable ==
  ASSUME NEW selected, NEW anchor, qualityDiagnosisPrecondition(selected, anchor) = ""
  PROVE  /\ \A r \in selected : r.status = "recorded" /\ ~(anchor - r.completed >= ComparisonTime)
         /\ \A r, s \in selected : Context(r) = Context(s)
BY Zenon DEF qualityDiagnosisPrecondition

(* Runs that are compared agree in interface and family. *)
LEMMA SameFamily ==
  ASSUME NEW a, NEW b, DOMAIN a = {"scope", "iface", "family"}, DOMAIN b = {"scope", "iface", "family"},
         [a EXCEPT !.scope = "any"] = [b EXCEPT !.scope = "any"]
  PROVE  a.family = b.family
<1>1. [a EXCEPT !.scope = "any"].family = a.family  OBVIOUS
<1>2. [b EXCEPT !.scope = "any"].family = b.family  OBVIOUS
<1>3. QED  BY <1>1, <1>2, Zenon

(* Every chosen run is compared. *)
LEMMA ChosenIsCompared ==
  ASSUME NEW pages,
         \A k \in Kinds : /\ IsFiniteSet(pages[k].runs) /\ \A d \in pages[k].runs : Retained(d, k)
                          /\ ~(Cardinality(SelectLatest(pages[k].runs)) > 1),
         qualityDiagnosisPrecondition(Chosen(pages), AnchorOf(Chosen(pages))) = "",
         Comparison(pages) # Nil, Comparison(pages).confidence = "limited",
         NEW kind \in Kinds, NEW d \in SelectLatest(pages[kind].runs)
  PROVE  <<kind, d.run>> \in Comparison(pages).compared
<1> DEFINE S == Chosen(pages)
           A == AnchorOf(S)
           in == CorroborationInput(S)
           w == ComparisonWindow(S, A)
<1>1. \A r : /\ DiagnosisRun(r).run = r /\ DiagnosisRun(r).status = SampleStatus(r)
             /\ r.measurement # Nil => DiagnosisRun(r).completed = r.measurement.completed
  BY Zenon DEF DiagnosisRun
<1>2. \A k \in Kinds : \A r \in SelectLatest(pages[k].runs) : Retained(r, k) /\ DiagnosisRun(r) \in S
  BY Zenon DEF Chosen, SelectLatest
<1>3. \A x \in S : \E k \in Kinds : \E r \in SelectLatest(pages[k].runs) : x = DiagnosisRun(r)
  BY Zenon DEF Chosen
<1> HIDE DEF S
<1>b. \A x \in S : \E k \in Kinds : /\ x.run \in SelectLatest(pages[k].runs)
                                   /\ Retained(x.run, k) /\ x = DiagnosisRun(x.run)
  <2> SUFFICES ASSUME NEW x \in S
               PROVE  \E k \in Kinds : /\ x.run \in SelectLatest(pages[k].runs)
                                       /\ Retained(x.run, k) /\ x = DiagnosisRun(x.run)
    BY Zenon
  <2>1. PICK k \in Kinds : \E r \in SelectLatest(pages[k].runs) : x = DiagnosisRun(r)  BY <1>3, Zenon
  <2>2. PICK r \in SelectLatest(pages[k].runs) : x = DiagnosisRun(r)  BY <2>1, Zenon
  <2>3. x.run = r  BY <1>1, <2>2, Zenon
  <2>4. QED  BY <1>2, <2>2, <2>3, Zenon
<1>4. /\ \A r \in S : r.status = "recorded" /\ ~(A - r.completed >= ComparisonTime)
      /\ \A r, s \in S : Context(r) = Context(s)
  BY AllAreUsable, Zenon DEF S
<1>5. A \in Int
  <2> DEFINE T == {r.run.lastAuditAt : r \in S}
  <2>1. \A x \in S : x.run.lastAuditAt \in Moments  BY <1>b, Zenon DEF Retained
  <2>2. T \subseteq 0..MaxWall /\ T # {} /\ S # {}  BY <1>2, <2>1, Zenon DEF Moments
  <2>4. A = Last(T)  BY <2>2, Zenon DEF AnchorOf
  <2> HIDE DEF T
  <2>5. Last(T) \in T  BY <2>2, Extremes, MomentsAreTimes, Zenon
  <2>6. QED  BY <2>2, <2>4, <2>5, MomentsAreTimes, Zenon
<1>6. ASSUME NEW x \in S, x.run.kind = kind PROVE x.run = d
  <2>1. PICK k \in Kinds : x.run \in SelectLatest(pages[k].runs) /\ Retained(x.run, k)  BY <1>b, Zenon
  <2>2. k = kind  BY <1>6, <2>1, Zenon DEF Retained
  <2>3. x.run \in SelectLatest(pages[kind].runs)  BY <2>1, <2>2, Zenon
  <2>5. IsFiniteSet(SelectLatest(pages[kind].runs))
    <3>1. SelectLatest(pages[kind].runs) \in SUBSET pages[kind].runs  BY Zenon DEF SelectLatest
    <3>2. QED  BY <3>1, FS_Subset, Zenon
  <2>6. QED  BY <2>3, <2>5, AtMostOne, Zenon
<1>7. {AsSample(r.run) : r \in {s \in S : s.run.kind = kind}} = {AsSample(d)}
  <2>1. DiagnosisRun(d) \in S /\ DiagnosisRun(d).run = d /\ d.kind = kind
    BY <1>1, <1>2, Zenon DEF Retained
  <2>2. QED  BY <1>6, <2>1, Zenon
<1>8. /\ kind = "gateway" => in.network = {AsSample(d)}
      /\ kind = "resolver" => in.resolvers = {AsSample(d)}
      /\ kind = "https" => in.https = {AsSample(d)}
  BY <1>7, Zenon DEF CorroborationInput
<1>9. in.family = d.selection.family
  <2> DEFINE first == CHOOSE r \in S : TRUE
  <2>1. DiagnosisRun(d) \in S /\ DiagnosisRun(d).run = d  BY <1>1, <1>2, Zenon
  <2>2. first \in S  BY <2>1, Zenon
  <2>3. in.family = first.run.selection.family  BY Zenon DEF CorroborationInput
  <2> HIDE DEF first
  <2>4. DOMAIN first.run.selection = {"scope", "iface", "family"}
    BY <1>b, <2>2, Zenon DEF Retained
  <2>5. DOMAIN d.selection = {"scope", "iface", "family"}  BY <1>2, Zenon DEF Retained
  <2>6. [first.run.selection EXCEPT !.scope = "any"] = [d.selection EXCEPT !.scope = "any"]
    BY <1>4, <2>1, <2>2, Zenon DEF Context
  <2>7. QED  BY <2>3, <2>4, <2>5, <2>6, SameFamily, Zenon
<1>10. w.asOf = A /\ w.freshness = ComparisonTime  BY Zenon DEF ComparisonWindow
<1>11. SampleStatus(d) = "recorded" /\ d.measurement # Nil /\ Retained(d, kind)
  <2>1. SampleStatus(d) = "recorded"  BY <1>1, <1>2, <1>4, Zenon
  <2>2. QED  BY <1>2, <2>1, Zenon DEF SampleStatus
<1>12. ~(A - d.measurement.completed >= ComparisonTime)  BY <1>1, <1>2, <1>4, <1>11, Zenon
<1>13. Comparison(pages) = Corroborate(in, w)  BY Zenon DEF Comparison, S
<1> HIDE DEF A, in, w
<1>14. validateCorroboration(in, w) /\ Comparison(pages).compared = {e.id : e \in Candidates(in, w)}
  BY <1>13, LimitedCorroboration, Zenon
<1>15. \E e \in Candidates(in, w) : e.id = <<kind, d.run>>
  BY <1>5, <1>8, <1>9, <1>10, <1>11, <1>12, <1>14, RecordedIsCandidate, Zenon
<1>16. QED  BY <1>14, <1>15, Zenon

(* The rows a history reads: at most MaxHistoryScan of the window. *)
Scans(rows, asOf) == Newest(InWindow(rows, asOf), MaxHistoryScan, RowTime)

(* A diagnosis that compares, from pages that were read of rows that were  *)
(* written, compares the newest run of every layer.                        *)
LEMMA NewestOfRows ==
  ASSUME NEW rows, IsFiniteSet(rows), \A r \in rows : Written(r), NEW scope, NEW asOf \in Int,
         NEW scanned \in Scans(rows, asOf), NEW pages,
         \A k \in Kinds : pages[k] # Nil /\ pages[k] \in HistoryPages(k, rows, scanned, scope, asOf),
         LET d == diagnoseRetainedQuality([NotEnrolled(asOf) EXCEPT !.enrolled = TRUE], pages)
         IN  d # Nil /\ d.confidence = "limited",
         NEW r \in InWindow(rows, asOf), r.selection.scope = scope
  PROVE  LET d == diagnoseRetainedQuality([NotEnrolled(asOf) EXCEPT !.enrolled = TRUE], pages)
         IN  \/ <<r.kind, r.run>> \in d.compared
             \/ \E s \in InWindow(rows, asOf) :
                   s.kind = r.kind /\ s.at > r.at /\ <<s.kind, s.run>> \in d.compared
<1>1. /\ \A k \in Kinds : /\ ~(Cardinality(SelectLatest(pages[k].runs)) > 1)
                          /\ ~pages[k].truncated /\ ~pages[k].scanTruncated
      /\ qualityDiagnosisPrecondition(Chosen(pages), AnchorOf(Chosen(pages))) = ""
      /\ Comparison(pages) # Nil /\ Comparison(pages).confidence = "limited"
      /\ diagnoseRetainedQuality([NotEnrolled(asOf) EXCEPT !.enrolled = TRUE], pages).compared
            = Comparison(pages).compared
  BY LimitedDiagnosis, Zenon
<1>2. \A k \in Kinds : FullPage(pages[k], rows, k, scope, asOf)  BY <1>1, PagesAreFull, Zenon DEF Scans
<1>3. \A k \in Kinds : /\ IsFiniteSet(pages[k].runs) /\ \A d \in pages[k].runs : Retained(d, k)
                       /\ ~(Cardinality(SelectLatest(pages[k].runs)) > 1)
  BY <1>1, <1>2, Zenon DEF FullPage
<1>4. r.kind \in Kinds  BY Zenon DEF InWindow, Written
<1>5. PICK d \in SelectLatest(pages[r.kind].runs) :
         \/ d.run = r.run
         \/ \E s \in InWindow(rows, asOf) : s.kind = r.kind /\ s.run = d.run /\ s.at > r.at
  <2>1. FullPage(pages[r.kind], rows, r.kind, scope, asOf) /\ ~(Cardinality(SelectLatest(pages[r.kind].runs)) > 1)
    BY <1>1, <1>2, <1>4, Zenon
  <2>2. QED  BY <2>1, LatestOfPage
<1>6. <<r.kind, d.run>> \in Comparison(pages).compared  BY <1>1, <1>3, <1>4, <1>5, ChosenIsCompared, Zenon
<1>7. QED  BY <1>1, <1>5, <1>6, Zenon

(* The rows stay as they were written while a read of them is in progress; *)
(* the pages of a diagnosis are those of one snapshot.                     *)
PagesRead ==
    \E scanned \in Scans(reader.rows, reader.readAt) :
       \A k \in Kinds :
          /\ reader.answer[k] # Nil
          /\ reader.answer[k] \in
                HistoryPages(k, reader.rows, scanned, reader.binding.scope, reader.readAt)

ReaderFields == {"stage", "request", "readAt", "binding", "rows", "answer"}

ReaderInv ==
    /\ reader.stage # "idle" =>
          DOMAIN reader = ReaderFields /\ reader.readAt \in Moments /\ reader.rows \subseteq trail
    /\ reader.stage = "read" /\ reader.request = "diagnosis" => PagesRead
    /\ NewestIsCompared

ControlsInv ==
    /\ DOMAIN running = Kinds
    /\ \A k \in Kinds : running[k] # Nil =>
          /\ DOMAIN running[k] = {"run", "selection", "admitted"}
          /\ DOMAIN running[k].selection = {"scope", "iface", "family"}
          /\ running[k].admitted \in Moments \cup {Nil}

TrailInv == wall \in Moments /\ IsFiniteSet(trail) /\ \A r \in trail : Written(r)

HistoryInv == TrailInv /\ ControlsInv /\ ReaderInv

(* The trail grows behind the reader's back. *)
LEMMA ReaderKeeps ==
  ASSUME ReaderInv, trail \subseteq trail', UNCHANGED reader
  PROVE  ReaderInv'
<1>1. PagesRead' <=> PagesRead  BY Zenon DEF PagesRead
<1>2. NewestIsCompared' <=> NewestIsCompared  BY Zenon DEF NewestIsCompared
<1>3. QED  BY <1>1, <1>2, Zenon DEF ReaderInv

(* A sample as RunFinished builds it. *)
LEMMA SampleMeasures ==
  ASSUME NEW kind \in Kinds, NEW shape \in Shapes[kind], NEW a \in Moments, NEW c \in Moments \cup {Nil}, NEW at,
         ValidTimes(kind, Joined(shape, [started |-> a, completed |-> c]), at)
  PROVE  Measures(kind, Joined(shape, [started |-> a, completed |-> c]))
<1> DEFINE times == [started |-> a, completed |-> c]
           m == Joined(shape, times)
<1>1. DOMAIN times = {"started", "completed"} /\ times.started = a /\ times.completed = c  BY Zenon
<1> HIDE DEF times
<1>2. /\ \A x \in DOMAIN shape : m[x] = shape[x]
      /\ \A x \in DOMAIN times \ DOMAIN shape : m[x] = times[x]
      /\ DOMAIN m = DOMAIN shape \cup DOMAIN times
  BY Zenon DEF Joined
<1> HIDE DEF m
<1>3. "started" \notin DOMAIN shape /\ "completed" \notin DOMAIN shape
  <2>1. kind \in {"gateway", "resolver", "https"}  BY Zenon DEF Kinds
  <2>2. CASE kind = "gateway"
    <3>1. DOMAIN shape = {"complete", "replies"}  BY <2>2, ShapesAssumption, Zenon
    <3>2. QED  BY <3>1
  <2>3. CASE kind = "resolver"
    <3>1. DOMAIN shape = {"complete", "exchange", "reply", "expect", "gap"}  BY <2>3, ShapesAssumption, Zenon
    <3>2. QED  BY <3>1
  <2>4. CASE kind = "https"
    <3>1. DOMAIN shape = {"complete", "exchange", "status", "expect", "gap"}  BY <2>4, ShapesAssumption, Zenon
    <3>2. QED  BY <3>1
  <2>5. QED  BY <2>1, <2>2, <2>3, <2>4, Zenon
<1>4. m.started = a /\ m.completed = c  BY <1>1, <1>2, <1>3, Zenon
<1>5. m.completed = Nil => kind = "gateway" /\ ~m.complete  BY Zenon DEF ValidTimes, m, times
<1>6. kind # "gateway" => "exchange" \in DOMAIN m  BY <1>2, ShapesAssumption, Zenon DEF Kinds
<1>7. ASSUME kind = "resolver"
      PROVE  /\ "reply" \in DOMAIN m
             /\ m.reply # Nil => m.reply.answer \in {"none", "present", "nodata", "referral", "unclassified"}
  <2>1. "reply" \in DOMAIN shape  BY <1>7, ShapesAssumption, Zenon
  <2>2. m.reply = shape.reply  BY <1>2, <2>1, Zenon
  <2>3. shape.reply # Nil => shape.reply.answer \in {"none", "present", "nodata", "referral", "unclassified"}
    BY <1>7, ShapesAssumption, Zenon
  <2>4. QED  BY <1>2, <2>1, <2>2, <2>3, Zenon
<1>8. Measures(kind, m)  BY <1>4, <1>5, <1>6, <1>7, Zenon DEF Measures
<1>9. QED  BY <1>8, Zenon DEF m, times

(* A row is written. *)
LEMMA TrailGrows ==
  ASSUME TrailInv, NEW row, Written(row), trail' = trail \cup {row}, UNCHANGED wall
  PROVE  TrailInv' /\ trail \subseteq trail'
<1>1. IsFiniteSet(trail \cup {row})  BY FS_AddElement, Zenon DEF TrailInv
<1>2. QED  BY <1>1, Zenon DEF TrailInv

(* A step of a run control keeps the invariant. *)
LEMMA ControlsStep ==
  ASSUME HistoryInv, NEW k \in Kinds,
         (\E family \in Families[k] : RunAuthorized(k, family)) \/ RunAdmitted(k) \/ RunFinished(k)
  PROVE  HistoryInv'
<1>0. TrailInv /\ ControlsInv /\ ReaderInv /\ UNCHANGED <<wall, reader>> /\ wall \in Moments
  BY Zenon DEF HistoryInv, TrailInv, RunAuthorized, RunAdmitted, RunFinished
<1>1. ASSUME NEW run, NEW selection, NEW state, NEW outcome, NEW m,
             DOMAIN selection = {"scope", "iface", "family"}, m # Nil => Measures(k, m),
             InsertRunAudit(Row(k, run, selection, state, outcome, m)), ControlsInv'
      PROVE  HistoryInv'
  <2> DEFINE row == Row(k, run, selection, state, outcome, m)
  <2>1. row.kind = k /\ row.at = wall /\ row.selection = selection /\ row.measurement = m  BY Zenon DEF Row
  <2>2. trail' = trail \cup {row}  BY <1>1, Zenon DEF InsertRunAudit
  <2> HIDE DEF row
  <2>3. Written(row)  BY <1>0, <1>1, <2>1, Zenon DEF Written
  <2>4. TrailInv' /\ trail \subseteq trail'  BY <1>0, <2>2, <2>3, TrailGrows, Zenon
  <2>5. ReaderInv'  BY <1>0, <2>4, ReaderKeeps, Zenon
  <2>6. QED  BY <1>1, <2>4, <2>5, Zenon DEF HistoryInv
<1>2. ASSUME NEW family \in Families[k], RunAuthorized(k, family) PROVE HistoryInv'
  <2> DEFINE selection == [scope |-> enrolled.scope, iface |-> enrolled.iface, family |-> family]
             new == [run |-> NewRun(k), selection |-> selection, admitted |-> Nil]
  <2>1. /\ InsertRunAudit(Row(k, NewRun(k), selection, "authorized", Nil, Nil))
        /\ running' = [running EXCEPT ![k] = new]
    BY <1>2, Zenon DEF RunAuthorized
  <2>2. DOMAIN selection = {"scope", "iface", "family"}  BY Zenon
  <2> HIDE DEF selection
  <2>3. /\ DOMAIN new = {"run", "selection", "admitted"} /\ new.selection = selection /\ new.admitted = Nil
    BY Zenon
  <2> HIDE DEF new
  <2>4. ControlsInv'  BY <1>0, <2>1, <2>2, <2>3, Zenon DEF ControlsInv
  <2>5. QED  BY <1>1, <2>1, <2>2, <2>4, Zenon
<1>3. CASE RunAdmitted(k)
  <2> DEFINE new == [running[k] EXCEPT !.admitted = wall]
  <2>1. /\ running[k] # Nil /\ running' = [running EXCEPT ![k] = new]
        /\ InsertRunAudit(Row(k, running[k].run, running[k].selection, "admitted", Nil, Nil))
    BY <1>3, Zenon DEF RunAdmitted
  <2>2. /\ DOMAIN running[k] = {"run", "selection", "admitted"}
        /\ DOMAIN running[k].selection = {"scope", "iface", "family"}
    BY <1>0, <2>1, Zenon DEF ControlsInv
  <2>3. /\ DOMAIN new = {"run", "selection", "admitted"} /\ new.selection = running[k].selection
        /\ new.admitted = wall
    BY <2>2
  <2> HIDE DEF new
  <2>4. ControlsInv'  BY <1>0, <2>1, <2>2, <2>3, Zenon DEF ControlsInv
  <2>5. QED  BY <1>1, <2>1, <2>2, <2>4, Zenon
<1>4. CASE RunFinished(k)
  <2>1. running[k] # Nil /\ running' = [running EXCEPT ![k] = Nil]  BY <1>4, Zenon DEF RunFinished
  <2>2. ControlsInv'  BY <1>0, <2>1, Zenon DEF ControlsInv
  <2>3. /\ DOMAIN running[k].selection = {"scope", "iface", "family"}
        /\ running[k].admitted \in Moments \cup {Nil}
    BY <1>0, <2>1, Zenon DEF ControlsInv
  <2>4. ASSUME NEW outcome, InsertRunAudit(FinalRow(k, outcome, Nil)) PROVE HistoryInv'
    BY <1>1, <2>2, <2>3, <2>4, Zenon DEF FinalRow
  <2>5. ASSUME running[k].admitted # Nil, NEW outcome, NEW shape \in Shapes[k],
               NEW completed \in (running[k].admitted..wall) \cup {Nil},
               InsertRunAudit(FinalRow(k, outcome,
                  Joined(shape, [started |-> running[k].admitted, completed |-> completed])))
        PROVE  HistoryInv'
    <3> DEFINE m == Joined(shape, [started |-> running[k].admitted, completed |-> completed])
    <3>1. running[k].admitted \in Moments  BY <2>3, <2>5, Zenon
    <3>2. completed \in Moments \cup {Nil}
      <4>1. \A a \in Moments : a..wall \subseteq Moments  BY <1>0, DiagnosisAssumption DEF Moments
      <4>2. QED  BY <3>1, <4>1, Zenon
    <3> HIDE DEF m
    <3>3. InsertRunAudit(Row(k, running[k].run, running[k].selection, "finished", outcome, m))
      BY <2>5, Zenon DEF FinalRow, m
    <3>4. m # Nil => Measures(k, m)
      <4> SUFFICES ASSUME m # Nil PROVE Measures(k, m)  BY Zenon
      <4> DEFINE row == Row(k, running[k].run, running[k].selection, "finished", outcome, m)
      <4>1. row.kind = k /\ row.at = wall /\ row.measurement = m  BY Zenon DEF Row
      <4>2. ValidEvent(row)  BY <3>3, Zenon DEF InsertRunAudit
      <4> HIDE DEF row
      <4>3. ValidTimes(k, m, wall)  BY <4>1, <4>2, Zenon DEF ValidEvent
      <4>4. QED  BY <3>1, <3>2, <4>3, SampleMeasures, Zenon DEF m
    <3>5. QED  BY <1>1, <2>2, <2>3, <3>3, <3>4, Zenon
  <2>6. QED  BY <1>4, <2>4, <2>5, Zenon DEF RunFinished
<1>5. QED  BY <1>2, <1>3, <1>4, Zenon

(* A read that begins has read no rows yet. *)
LEMMA BeginStep ==
  ASSUME HistoryInv, NEW request, BeginRead(request)
  PROVE  HistoryInv'
<1> DEFINE begun == [stage |-> IF enrolled = Nil THEN "answered" ELSE "bound", request |-> request,
                     readAt |-> wall, binding |-> enrolled, rows |-> {},
                     answer |-> IF request = "diagnosis" THEN Joined(NotEnrolled(wall), Nothing("not-enrolled"))
                                ELSE [runs |-> {}, truncated |-> FALSE, scanTruncated |-> FALSE]]
<1>1. reader' = begun /\ UNCHANGED <<wall, trail, running>>  BY Zenon DEF BeginRead
<1>2. TrailInv' /\ ControlsInv' /\ wall \in Moments  BY <1>1, Zenon DEF HistoryInv, TrailInv, ControlsInv
<1>3. begun.readAt = wall /\ begun.rows = {} /\ begun.stage # "read"  BY Zenon
<1>4. DOMAIN begun = ReaderFields  BY Zenon DEF ReaderFields
<1> HIDE DEF begun
<1>5. InWindow(reader'.rows, reader'.readAt) = {}  BY <1>1, <1>3, Zenon DEF InWindow
<1>6. NewestIsCompared'  BY <1>5, Zenon DEF NewestIsCompared
<1>7. ReaderInv'  BY <1>1, <1>2, <1>3, <1>4, <1>6, Zenon DEF ReaderInv
<1>8. QED  BY <1>2, <1>7, Zenon DEF HistoryInv

(* A read that moves to another stage with its answer unchanged. *)
LEMMA StageOnly ==
  ASSUME HistoryInv, NEW stage, reader' = [reader EXCEPT !.stage = stage],
         reader.stage # "idle", stage # "read", stage \in {"answered", "shown"} => reader.stage = "answered",
         UNCHANGED <<wall, trail, running>>
  PROVE  HistoryInv'
<1>1. TrailInv' /\ ControlsInv' /\ ReaderInv  BY Zenon DEF HistoryInv, TrailInv, ControlsInv
<1>2. DOMAIN reader = ReaderFields  BY <1>1, Zenon DEF ReaderInv
<1>3. /\ DOMAIN reader' = ReaderFields /\ reader'.stage = stage
      /\ \A f \in ReaderFields \ {"stage"} : reader'[f] = reader[f]
  BY <1>2, Zenon DEF ReaderFields
<1>4. /\ reader'.request = reader.request /\ reader'.readAt = reader.readAt /\ reader'.rows = reader.rows
      /\ reader'.binding = reader.binding /\ reader'.answer = reader.answer
  BY <1>3 DEF ReaderFields
<1>5. NewestIsCompared'  BY <1>1, <1>3, <1>4, Zenon DEF ReaderInv, NewestIsCompared
<1>6. ReaderInv'  BY <1>1, <1>3, <1>4, <1>5, Zenon DEF ReaderInv
<1>7. QED  BY <1>1, <1>6, Zenon DEF HistoryInv

(* The three pages of a diagnosis are read from one snapshot of the rows. *)
LEMMA ReadStep ==
  ASSUME HistoryInv, ReadSnapshot
  PROVE  HistoryInv'
<1>0. /\ TrailInv' /\ ControlsInv' /\ ReaderInv /\ reader.stage = "bound" /\ UNCHANGED <<wall, trail, running>>
  BY Zenon DEF HistoryInv, TrailInv, ControlsInv, ReadSnapshot
<1>1. DOMAIN reader = ReaderFields /\ reader.readAt \in Moments  BY <1>0, Zenon DEF ReaderInv
<1>2. ASSUME reader' = [reader EXCEPT !.stage = "refused"] PROVE HistoryInv'  BY <1>0, <1>2, StageOnly, Zenon
<1>3. ASSUME NEW scanned \in Newest(InWindow(trail, reader.readAt), MaxHistoryScan, RowTime),
             NEW gateway \in ReadPages("gateway", scanned), NEW resolver \in ReadPages("resolver", scanned),
             NEW https \in ReadPages("https", scanned),
             LET pages == [gateway |-> gateway, resolver |-> resolver, https |-> https]
                 wanted == IF reader.request = "diagnosis" THEN Kinds ELSE {reader.request}
             IN  reader' = [reader EXCEPT
                    !.stage = IF \E k \in wanted : pages[k] = Nil THEN "failed" ELSE "read",
                    !.rows = trail,
                    !.answer = IF reader.request = "diagnosis" THEN pages ELSE pages[reader.request]]
      PROVE  HistoryInv'
  <2> DEFINE pages == [gateway |-> gateway, resolver |-> resolver, https |-> https]
             wanted == IF reader.request = "diagnosis" THEN Kinds ELSE {reader.request}
             stage == IF \E k \in wanted : pages[k] = Nil THEN "failed" ELSE "read"
             answer == IF reader.request = "diagnosis" THEN pages ELSE pages[reader.request]
  <2>1. \A k \in Kinds : pages[k] \in HistoryPages(k, trail, scanned, reader.binding.scope, reader.readAt)
    <3>1. pages.gateway = gateway /\ pages.resolver = resolver /\ pages.https = https  BY <1>3, Zenon
    <3>2. /\ gateway \in HistoryPages("gateway", trail, scanned, reader.binding.scope, reader.readAt)
          /\ resolver \in HistoryPages("resolver", trail, scanned, reader.binding.scope, reader.readAt)
          /\ https \in HistoryPages("https", trail, scanned, reader.binding.scope, reader.readAt)
      <4>1. /\ ReadPages("gateway", scanned) = ReadGatewayHistory(trail, scanned, reader.binding.scope, reader.readAt)
            /\ ReadPages("resolver", scanned) = ReadResolverHistory(trail, scanned, reader.binding.scope, reader.readAt)
            /\ ReadPages("https", scanned) = ReadHTTPSHistory(trail, scanned, reader.binding.scope, reader.readAt)
        BY DEF ReadPages
      <4>2. QED  BY <4>1, Zenon DEF ReadGatewayHistory, ReadResolverHistory, ReadHTTPSHistory
    <3>3. QED  BY <3>1, <3>2, Zenon DEF Kinds
  <2>2. stage \in {"failed", "read"} /\ (stage = "read" => \A k \in wanted : pages[k] # Nil)  BY Zenon
  <2>3. reader' = [reader EXCEPT !.stage = stage, !.rows = trail, !.answer = answer]  BY <1>3, Zenon
  <2>4. reader.request = "diagnosis" => answer = pages /\ wanted = Kinds  BY <1>3, Zenon
  <2> HIDE DEF stage, answer, pages, wanted
  <2>5. /\ DOMAIN reader' = ReaderFields /\ reader'.stage = stage /\ reader'.rows = trail
        /\ reader'.answer = answer /\ reader'.request = reader.request /\ reader'.readAt = reader.readAt
        /\ reader'.binding = reader.binding
    BY <1>1, <2>3 DEF ReaderFields
  <2>6. ASSUME reader'.stage = "read", reader'.request = "diagnosis" PROVE PagesRead'
    <3>1. reader'.answer = pages /\ \A k \in Kinds : pages[k] # Nil  BY <2>2, <2>4, <2>5, <2>6, Zenon
    <3>2. QED  BY <1>3, <2>1, <2>5, <3>1, Zenon DEF PagesRead, Scans
  <2>7. NewestIsCompared'  BY <2>2, <2>5, Zenon DEF NewestIsCompared
  <2>8. ReaderInv'  BY <1>0, <1>1, <2>5, <2>6, <2>7, Zenon DEF ReaderInv
  <2>9. QED  BY <1>0, <2>8, Zenon DEF HistoryInv
<1>4. ASSUME ~(enrolled = Nil \/ enrolled.scope # reader.binding.scope) PROVE HistoryInv'
  <2>1. PICK scanned \in Newest(InWindow(trail, reader.readAt), MaxHistoryScan, RowTime) :
         \E gateway \in ReadPages("gateway", scanned), resolver \in ReadPages("resolver", scanned),
            https \in ReadPages("https", scanned) :
            LET pages == [gateway |-> gateway, resolver |-> resolver, https |-> https]
                wanted == IF reader.request = "diagnosis" THEN Kinds ELSE {reader.request}
            IN  reader' = [reader EXCEPT
                   !.stage = IF \E k \in wanted : pages[k] = Nil THEN "failed" ELSE "read",
                   !.rows = trail,
                   !.answer = IF reader.request = "diagnosis" THEN pages ELSE pages[reader.request]]
    BY <1>4, Zenon DEF ReadSnapshot
  <2>2. QED  BY <1>3, <2>1, Zenon
<1>5. QED  BY <1>2, <1>4, Zenon DEF ReadSnapshot

(* What is answered compares the newest runs of the rows that were read. *)
LEMMA AnswerStep ==
  ASSUME HistoryInv, AnswerRead
  PROVE  HistoryInv'
<1> DEFINE out == [NotEnrolled(reader.readAt) EXCEPT !.enrolled = TRUE]
           answer == IF reader.request = "diagnosis" THEN diagnoseRetainedQuality(out, reader.answer)
                     ELSE reader.answer
<1>0. /\ TrailInv /\ TrailInv' /\ ControlsInv' /\ ReaderInv /\ reader.stage = "read"
      /\ UNCHANGED <<wall, trail, running>>
  BY Zenon DEF HistoryInv, TrailInv, ControlsInv, AnswerRead
<1>1. DOMAIN reader = ReaderFields /\ reader.readAt \in Moments /\ reader.rows \subseteq trail
  BY <1>0, Zenon DEF ReaderInv
<1>2. ASSUME NEW stage, stage \in {"refused", "failed"}, reader' = [reader EXCEPT !.stage = stage]
      PROVE  HistoryInv'
  BY <1>0, <1>2, StageOnly, Zenon
<1>3. ASSUME answer # Nil, reader' = [reader EXCEPT !.stage = "answered", !.answer = answer]
      PROVE  HistoryInv'
  <2>1. reader.request = "diagnosis" => answer = diagnoseRetainedQuality(out, reader.answer)  BY Zenon
  <2> HIDE DEF answer
  <2>2. /\ DOMAIN reader' = ReaderFields /\ reader'.stage = "answered" /\ reader'.rows = reader.rows
        /\ reader'.answer = answer /\ reader'.request = reader.request /\ reader'.readAt = reader.readAt
        /\ reader'.binding = reader.binding
    BY <1>1, <1>3 DEF ReaderFields
  <2>3. NewestIsCompared'
    <3> SUFFICES ASSUME reader.request = "diagnosis", answer.confidence = "limited",
                        NEW r \in InWindow(reader.rows, reader.readAt),
                        r.selection.scope = reader.binding.scope
                 PROVE  \/ <<r.kind, r.run>> \in answer.compared
                        \/ \E s \in InWindow(reader.rows, reader.readAt) :
                              s.kind = r.kind /\ s.at > r.at /\ <<s.kind, s.run>> \in answer.compared
      BY <2>2, Zenon DEF NewestIsCompared
    <3>1. PagesRead  BY <1>0, Zenon DEF ReaderInv
    <3>2. PICK scanned \in Scans(reader.rows, reader.readAt) :
             \A k \in Kinds :
                /\ reader.answer[k] # Nil
                /\ reader.answer[k] \in
                      HistoryPages(k, reader.rows, scanned, reader.binding.scope, reader.readAt)
      BY <3>1, Zenon DEF PagesRead
    <3>3. IsFiniteSet(reader.rows) /\ \A s \in reader.rows : Written(s)
      BY <1>0, <1>1, FS_Subset, Zenon DEF TrailInv
    <3>4. reader.readAt \in Int  BY <1>1 DEF Moments
    <3>5. answer = diagnoseRetainedQuality(out, reader.answer)  BY <2>1
    <3> DEFINE d == diagnoseRetainedQuality(out, reader.answer)
               scope == reader.binding.scope
               rows == reader.rows
               asOf == reader.readAt
               pages == reader.answer
    <3>9. scanned \in Scans(rows, asOf) /\ r \in InWindow(rows, asOf) /\ r.selection.scope = scope
      BY <3>2
    <3>10. \A k \in Kinds : pages[k] # Nil /\ pages[k] \in HistoryPages(k, rows, scanned, scope, asOf)
      BY <3>2
    <3>11. IsFiniteSet(rows) /\ (\A s \in rows : Written(s)) /\ asOf \in Int
      BY <3>3, <3>4
    <3>6. d # Nil /\ d.confidence = "limited"  BY <1>3, <3>5, Zenon
    <3>7. \/ <<r.kind, r.run>> \in d.compared
          \/ \E s \in InWindow(reader.rows, reader.readAt) :
                s.kind = r.kind /\ s.at > r.at /\ <<s.kind, s.run>> \in d.compared
      <4>1. /\ diagnoseRetainedQuality([NotEnrolled(asOf) EXCEPT !.enrolled = TRUE], pages) = d
        BY Zenon
      <4> HIDE DEF rows, asOf, scope, pages, d
      <4>2. \/ <<r.kind, r.run>> \in d.compared
            \/ \E s \in InWindow(rows, asOf) :
                  s.kind = r.kind /\ s.at > r.at /\ <<s.kind, s.run>> \in d.compared
        BY <3>9, <3>10, <3>11, <3>6, <4>1, NewestOfRows, Zenon
      <4>3. QED  BY <4>2, Zenon DEF rows, asOf
    <3>8. QED  BY <3>5, <3>7, Zenon
  <2>4. ReaderInv'  BY <1>0, <1>1, <2>2, <2>3, Zenon DEF ReaderInv
  <2>5. QED  BY <1>0, <2>4, Zenon DEF HistoryInv
<1>4. QED  BY <1>2, <1>3, Zenon DEF AnswerRead

(* The web changes no answer. *)
LEMMA ShowStep ==
  ASSUME HistoryInv, WebShows
  PROVE  HistoryInv'
<1>1. reader.stage = "answered" /\ UNCHANGED <<wall, trail, running>>  BY Zenon DEF WebShows
<1>2. PICK stage \in {"shown", "rejected"} : reader' = [reader EXCEPT !.stage = stage]  BY Zenon DEF WebShows
<1>3. QED  BY <1>1, <1>2, StageOnly, Zenon

(* The invariant holds of the empty trail. *)
LEMMA HistoryBegins ==
  ASSUME HistoryInit
  PROVE  HistoryInv
<1>1. wall = 0 /\ trail = {} /\ running = Quiet /\ reader = Idle /\ reader.stage = "idle"
  BY Zenon DEF HistoryInit, Idle
<1>2. 0 \in Moments  BY DiagnosisAssumption DEF Moments
<1>3. TrailInv  BY <1>1, <1>2, FS_EmptySet, Zenon DEF TrailInv
<1>4. ControlsInv  BY <1>1, Zenon DEF ControlsInv, Quiet
<1>5. ReaderInv  BY <1>1, Zenon DEF ReaderInv, NewestIsCompared
<1>6. QED  BY <1>3, <1>4, <1>5, Zenon DEF HistoryInv

(* The trail holds well-formed rows, a run in progress has the fields its  *)
(* rows are made of, and a read in progress has the pages of one snapshot  *)
(* of the trail: the invariant NewestIsCompared needs.                     *)
THEOREM HistoryInvariant == HistorySpec => []HistoryInv
<1>1. HistoryInit => HistoryInv  BY HistoryBegins
<1>2. HistoryInv /\ [HistoryNext]_historyVars => HistoryInv'
  <2> SUFFICES ASSUME HistoryInv, [HistoryNext]_historyVars PROVE HistoryInv'  BY Zenon
  <2>1. ASSUME NEW k \in Kinds,
               (\E family \in Families[k] : RunAuthorized(k, family)) \/ RunAdmitted(k) \/ RunFinished(k)
        PROVE  HistoryInv'
    BY <2>1, ControlsStep, Zenon
  <2>2. ASSUME UNCHANGED <<trail, reader>>, wall' \in Moments, running' \in {running, Quiet} PROVE HistoryInv'
    <3>1. TrailInv'  BY <2>2, Zenon DEF HistoryInv, TrailInv
    <3>2. ControlsInv'  BY <2>2, Zenon DEF HistoryInv, ControlsInv, Quiet
    <3>3. ReaderInv'  BY <2>2, ReaderKeeps, Zenon DEF HistoryInv
    <3>4. QED  BY <3>1, <3>2, <3>3, Zenon DEF HistoryInv
  <2>3. wall \in Moments  BY Zenon DEF HistoryInv, TrailInv
  <2>4. CASE WallTicks
    <3>1. wall' \in Moments  BY <2>3, <2>4, DiagnosisAssumption DEF WallTicks, Moments
    <3>2. QED  BY <2>2, <2>4, <3>1, Zenon DEF WallTicks
  <2>5. CASE ControllerRestarts
    <3>1. wall' \in Moments  BY <2>3, <2>5, DiagnosisAssumption DEF ControllerRestarts, Moments
    <3>2. QED  BY <2>2, <2>5, <3>1, Zenon DEF ControllerRestarts
  <2>6. CASE BindingChanges  BY <2>2, <2>3, <2>6, Zenon DEF BindingChanges
  <2>7. ASSUME NEW request, Serves(request) PROVE HistoryInv'
    BY <2>7, BeginStep, ReadStep, AnswerStep, Zenon DEF Serves
  <2>8. ASSUME NEW request, Shows(request) PROVE HistoryInv'  BY <2>8, ShowStep, Zenon DEF Shows
  <2>9. CASE UNCHANGED historyVars  BY <2>2, <2>3, <2>9, Zenon DEF historyVars
  <2>10. QED
    BY <2>1, <2>4, <2>5, <2>6, <2>7, <2>8, <2>9, Zenon DEF HistoryNext, GatewayHistory, ResolverHistory,
       HTTPSHistory, ServesDiagnosis, handleGatewayHistory, handleResolverHistory, handleHTTPSHistory,
       handleQualityDiagnosis
<1>3. QED  BY <1>1, <1>2, PTL DEF HistorySpec

(* A comparison rests on the newest run of every layer: the newest audit   *)
(* row of a kind in the enrolled scope belongs to a run that is compared.  *)
(* diagnoseRetainedQuality never passes over a newer run that is           *)
(* unfinished, unmeasured or incomplete, with rows written and the         *)
(* enrollment changed between any two steps of the read, and with the      *)
(* clock set back when the controller restarts.                            *)
THEOREM NewestCompared == HistorySpec => []NewestIsCompared
<1>1. HistoryInv => NewestIsCompared  BY Zenon DEF HistoryInv, ReaderInv
<1>2. QED  BY <1>1, HistoryInvariant, PTL
===============================================================================
