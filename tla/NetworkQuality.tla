----------------------------- MODULE NetworkQuality -----------------------------
(***************************************************************************)
(* The pure assessments of package networkquality: what one snapshot of    *)
(* link, ICMP, DNS and HTTPS samples says at one moment, and what          *)
(* Corroborate concludes from samples of different layers.                 *)
(* A sample is a record with the fields id, target, layer, family, iface,  *)
(* started, completed and gap, and                                         *)
(*   outcome, attempts, successes     (layers link, gateway, external);    *)
(*   exchange, reply, expect          (layer dns);                         *)
(*   exchange, status, expect         (layer https).                       *)
(* Request and TLS stages, latencies and all wording are left out: nothing *)
(* that is compared depends on them.  A window is                          *)
(* [start, asOf, freshness, skew].                                         *)
(***************************************************************************)
EXTENDS Integers, FiniteSets, Sequences

CONSTANTS Nil,           \* a Go nil
          MaxWindow, MaxCheckTime,
          SampleSpace,   \* the samples a collection of this model may hold
          MaxSamples,    \* bound of the model
          SampleWindow   \* the window in which the collection is assessed

ASSUME QualityAssumption ==
    /\ MaxWindow \in Nat /\ MaxCheckTime \in Nat /\ MaxSamples \in Nat
    /\ \A t \in {SampleWindow.start, SampleWindow.asOf, SampleWindow.freshness, SampleWindow.skew} : t \in Int
    /\ SampleWindow.start <= SampleWindow.asOf
    /\ \A m \in SampleSpace : /\ m.layer \in {"link", "gateway", "dns", "https"}
                              /\ m.started \in Int /\ m.completed \in Int
    /\ \A m, n \in SampleSpace :   \* a target is of one layer and one address family
          m.target = n.target => m.layer = n.layer /\ m.family = n.family

RuntimeGaps == {"sleep", "offline", "network-changed"}
UnavailableGaps == {"permission", "unsupported", "source-unavailable"}
NotRunGaps == {"disabled", "not-configured"} \cup RuntimeGaps

CountsOutcome(m) ==
    IF m.successes = m.attempts THEN "succeeded"
    ELSE IF m.successes = 0 THEN "failed" ELSE "partial"

validateMeasurement(m) ==
    \/ /\ \/ m.outcome = "unavailable" /\ m.gap \in UnavailableGaps
          \/ m.outcome = "not-run" /\ m.gap \in NotRunGaps
       /\ m.attempts = 0 /\ m.successes = 0
    \/ /\ m.outcome \in {"succeeded", "partial", "failed"}
       /\ m.gap = "none" /\ m.completed - m.started <= MaxCheckTime
       /\ IF m.layer = "link"
             THEN m.outcome # "partial" /\ m.attempts = 0 /\ m.successes = 0
             ELSE /\ m.attempts >= 1 /\ m.successes \in 0..m.attempts
                  /\ m.outcome = CountsOutcome(m)

validateResolverMeasurement(m) ==
    \/ /\ m.exchange = "not-measured" /\ m.reply = Nil
       /\ m.gap \in UnavailableGaps \cup NotRunGaps
    \/ /\ m.gap = "none" /\ m.completed - m.started <= MaxCheckTime
       /\ \/ /\ m.exchange = "response-received" /\ m.reply # Nil
             /\ (m.reply.truncated \/ m.reply.rcode # 0) <=> m.reply.answer = "none"
          \/ m.exchange = "timeout" /\ m.reply = Nil /\ m.completed > m.started
          \/ m.exchange \in {"transport-error", "incomplete"} /\ m.reply = Nil

validateHTTPSMeasurement(m) ==
    \/ /\ m.exchange = "not-measured" /\ m.status = Nil
       /\ m.gap \in UnavailableGaps \cup NotRunGaps
    \/ /\ m.gap = "none" /\ m.completed - m.started <= MaxCheckTime
       /\ \/ m.exchange = "response-received" /\ m.status # Nil
          \/ m.exchange = "timeout" /\ m.status = Nil /\ m.completed > m.started
          \/ /\ m.exchange \in {"connect-error", "tls-error", "transport-error",
                                "protocol-error", "incomplete"}
             /\ m.status = Nil

(* What the three snapshot validations have in common: samples of the      *)
(* observing interface, inside the window, distinguishable by identity and *)
(* by the time at which they ended.                                        *)
ValidContext(ms, iface, w) ==
    /\ w.start <= w.asOf /\ w.asOf - w.start <= MaxWindow
    /\ \A m \in ms : /\ m.iface = iface /\ w.start <= m.started
                     /\ m.started <= m.completed /\ m.completed <= w.asOf
    /\ \A m, n \in ms : \/ m = n
                        \/ /\ m.id # n.id
                           /\ m.target # n.target \/ m.completed # n.completed

ValidateSnapshot(ms, iface, w) ==
    ValidContext(ms, iface, w) /\ \A m \in ms : validateMeasurement(m)
ValidateResolverSnapshot(ms, iface, w) ==
    ValidContext(ms, iface, w) /\ \A m \in ms : validateResolverMeasurement(m)
ValidateHTTPSSnapshot(ms, iface, w) ==
    ValidContext(ms, iface, w) /\ \A m \in ms : validateHTTPSMeasurement(m)
-------------------------------------------------------------------------------
(* Freshness is half-open: at the end of it a sample is history.           *)
Stale(m, w) == m.completed + w.freshness <= w.asOf

assessMeasurement(m, w) ==
    IF Stale(m, w) THEN "stale"
    ELSE IF m.outcome \in {"unavailable", "not-run"} THEN "not-measured"
    ELSE IF m.outcome = "succeeded" THEN "check-succeeded" ELSE "issue-observed"

ErrorResults == [c \in {1, 2, 3, 4, 5} |->
    <<"format-error", "server-failure", "nxdomain", "not-implemented", "refused">>[c]]
AnswerResults == [present |-> "answer", nodata |-> "no-data", referral |-> "referral",
                  unclassified |-> "unclassified-response"]

resolverResult(m) ==
    IF m.exchange # "response-received" THEN m.exchange
    ELSE IF m.reply.truncated THEN "truncated"
    ELSE IF m.reply.rcode = 0 THEN AnswerResults[m.reply.answer]
    ELSE IF m.reply.rcode \in DOMAIN ErrorResults THEN ErrorResults[m.reply.rcode]
    ELSE "other-response-error"

FinalResults == {"answer", "nxdomain", "no-data"}
UnclearResults == {"unclassified-response", "truncated", "referral"}

assessResolverMeasurement(m, w) ==
    IF Stale(m, w) THEN "stale"
    ELSE IF m.exchange = "not-measured" THEN "not-measured"
    ELSE IF resolverResult(m) \in UnclearResults \cup {"incomplete"} THEN "unknown"
    ELSE IF resolverResult(m) \in FinalResults /\ resolverResult(m) = m.expect
            THEN "check-succeeded" ELSE "issue-observed"

httpsResult(m) ==
    IF m.exchange # "response-received" THEN m.exchange
    ELSE IF m.status \in {301, 302, 303, 307, 308} THEN "redirect-response"
    ELSE "status-response"

HTTPSMatched(m) ==
    IF m.exchange = "response-received" THEN m.status = m.expect ELSE Nil

assessHTTPSMeasurement(m, w) ==
    IF Stale(m, w) THEN "stale"
    ELSE IF m.exchange = "not-measured" THEN "not-measured"
    ELSE IF m.exchange = "incomplete" THEN "unknown"
    ELSE IF HTTPSMatched(m) = TRUE THEN "check-succeeded" ELSE "issue-observed"

(* The latest sample of every target, by the time it ended; only then does *)
(* anybody ask whether it is fresh.                                        *)
Latest(ms) == {m \in ms : \A n \in ms : n.target = m.target => n.completed <= m.completed}

Entry(m, layer, state, replied, unclear) ==
    [id |-> m.id, layer |-> layer, started |-> m.started, completed |-> m.completed,
     state |-> state, replied |-> replied, unclear |-> unclear]

Assess(ms, w) ==
    {Entry(m, m.layer, assessMeasurement(m, w), m.successes > 0, FALSE) : m \in Latest(ms)}
AssessResolvers(ms, w) ==
    {Entry(m, "dns", assessResolverMeasurement(m, w), m.exchange = "response-received",
           resolverResult(m) \in UnclearResults) : m \in Latest(ms)}
AssessHTTPS(ms, w) ==
    {Entry(m, "external", assessHTTPSMeasurement(m, w), m.status # Nil, FALSE) : m \in Latest(ms)}
-------------------------------------------------------------------------------
(* The input of Corroborate: [network, resolvers, https, iface, family].   *)
AllSamples(in) == in.network \cup in.resolvers \cup in.https

validateCorroboration(in, w) ==
    /\ ValidateSnapshot(in.network, in.iface, w)
    /\ ValidateResolverSnapshot(in.resolvers, in.iface, w)
    /\ ValidateHTTPSSnapshot(in.https, in.iface, w)
    /\ \A m, n \in AllSamples(in) : m.id = n.id => m = n

(* Mutant: only the sample that speaks for its target can be a gap. *)
GapOfLatest(in) ==
    {m.completed : m \in {n \in Latest(AllSamples(in)) : n.gap \in RuntimeGaps}}

(* When a sleep, an offline time or a change of network was last recorded, *)
(* by any sample of the window, of any family.                             *)
Discontinuities(in) ==
    {m.completed : m \in {n \in AllSamples(in) : n.gap \in RuntimeGaps}}

OfFamily(ms, family) == {m \in ms : m.layer = "link" \/ m.family = family}

EvidenceOf(in, w) ==
    Assess(OfFamily(in.network, in.family), w)
       \cup AssessResolvers(OfFamily(in.resolvers, in.family), w)
       \cup AssessHTTPS(OfFamily(in.https, in.family), w)

Candidates(in, w) ==
    {e \in EvidenceOf(in, w) :
        \/ e.state \in {"check-succeeded", "issue-observed"}
        \/ e.state = "unknown" /\ e.unclear}

(* The first rule that applies names the association that was observed.    *)
Conclude(compared) ==
    LET Of(layer)      == {e \in compared : e.layer = layer}
        Missed(layer)  == \E e \in Of(layer) : e.state # "check-succeeded"
        Replied(layer) == \E e \in Of(layer) : e.replied
        dnsIssue       == \E e \in Of("dns") : e.state = "issue-observed"
        failed         == {e.layer : e \in {f \in compared : f.state = "issue-observed"}}
        rules == <<
          <<Missed("link") /\ \E e \in compared : e.replied, "mixed-link-evidence">>,
          <<Missed("link") /\ Cardinality(failed) > 1, "local-link-issue-with-other-failures">>,
          <<dnsIssue /\ (Replied("gateway") \/ Replied("external")), "dns-query-issue-with-responses">>,
          <<Missed("gateway") /\ (Replied("dns") \/ Replied("external")), "icmp-misses-with-responses">>,
          <<Missed("external") /\ (Replied("dns") \/ Replied("gateway")),
              "external-check-issue-with-responses">>,
          <<Cardinality(failed) > 1, "problems-across-selected-layers">>,
          <<\A e \in compared : e.state = "check-succeeded", "selected-checks-matched">>,
          <<TRUE, "mixed-or-limited-evidence">> >>
        first == CHOOSE i \in 1..Len(rules) : rules[i][1] /\ \A j \in 1..(i-1) : ~rules[j][1]
    IN  rules[first][2]

Nothing(code) == [conclusion |-> code, confidence |-> "unknown", compared |-> {}, start |-> Nil, end |-> Nil]

Earliest(times) == CHOOSE t \in times : \A u \in times : t <= u
Last(times) == CHOOSE t \in times : \A u \in times : u <= t

(* Nil when the input is refused.                                          *)
Corroborate(in, w) ==
    LET found == Candidates(in, w)
        ends  == {e.completed : e \in found}
        starts == {e.started : e \in found}
    IN  IF ~validateCorroboration(in, w) THEN Nil
        ELSE IF Cardinality({e.layer : e \in found}) < 2 THEN Nothing("insufficient-evidence")
        ELSE IF \E e \in found, gap \in Discontinuities(in) : e.started <= gap
             THEN Nothing("collection-discontinuity")
        ELSE IF Last(ends) - Earliest(ends) > w.skew THEN Nothing("observations-too-far-apart")
        ELSE [conclusion |-> Conclude(found), confidence |-> "limited",
              compared |-> {e.id : e \in found}, start |-> Earliest(starts), end |-> Last(ends)]
-------------------------------------------------------------------------------
(* A collection of samples that grows in any order, as collectors deliver  *)
(* them.                                                                   *)
VARIABLE samples

SamplesInit == samples = {}

Collect(m) ==
    /\ Cardinality(samples) < MaxSamples
    /\ \A n \in samples : n.id # m.id
    /\ samples' = samples \cup {m}

SamplesNext == \E m \in SampleSpace : Collect(m)

SamplesSpec == SamplesInit /\ [][SamplesNext]_samples

Collected(family) ==
    [network |-> {m \in samples : m.layer \in {"link", "gateway"}},
     resolvers |-> {m \in samples : m.layer = "dns"},
     https |-> {m \in samples : m.layer = "https"},
     iface |-> "if1", family |-> family]

(* Corroborate never looks back for a convenient success: a sample that it *)
(* compares is the newest of its target and still fresh, nothing recorded  *)
(* after it began says that the device slept, was offline or changed       *)
(* network, in whatever layer or address family that was recorded and      *)
(* however the target fared since, and all compared samples ended within   *)
(* the skew.                                                               *)
ComparedIsCurrent ==
    \A family \in {"ipv4", "ipv6"} :
       LET c == Corroborate(Collected(family), SampleWindow)
           used == {m \in samples : c # Nil /\ m.id \in c.compared}
       IN  \A m \in used :
              /\ SampleWindow.asOf - m.completed < SampleWindow.freshness
              /\ m.layer # "link" => m.family = family
              /\ \A n \in samples :
                    /\ n.target = m.target => n.completed <= m.completed
                    /\ n.gap \in RuntimeGaps => n.completed < m.started
              /\ \A n \in used : n.completed - m.completed <= SampleWindow.skew
===============================================================================
