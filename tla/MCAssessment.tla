------------------------------ MODULE MCAssessment ------------------------------
(***************************************************************************)
(* The instances of QualityDiagnosis, NetworkQuality, CheckSenders and     *)
(* IngestionLatency for TLC.  They share no state: focus says which one a  *)
(* behaviour runs, the others stay in their initial states.                *)
(***************************************************************************)
EXTENDS QualityDiagnosis, IngestionLatency, CheckSenders, TLC

VARIABLE focus
allVars == <<focus, historyVars, samples, vars, senderVars>>

Networks == {[scope |-> "s1", iface |-> "if1"], [scope |-> "s2", iface |-> "if1"]}
SelectionFamilies == [gateway |-> {"ipv4"}, resolver |-> {"ipv4"}, https |-> {"ipv4", "ipv6"}]

Reply(truncated, rcode, answer) == [truncated |-> truncated, rcode |-> rcode, answer |-> answer]
Query(exchange, reply, gap) ==
    [complete |-> exchange \in {"response-received", "timeout"}, exchange |-> exchange,
     reply |-> reply, expect |-> "answer", gap |-> gap]
Request(exchange, status, gap) ==
    [complete |-> exchange \in {"response-received", "timeout"}, exchange |-> exchange,
     status |-> status, expect |-> 200, gap |-> gap]

Measured ==
    [gateway  |-> {[complete |-> TRUE, replies |-> 3], [complete |-> TRUE, replies |-> 0],
                   [complete |-> FALSE, replies |-> 1]},
     resolver |-> {Query("response-received", Reply(FALSE, 0, "present"), "none"),
                   Query("response-received", Reply(TRUE, 0, "none"), "none"),
                   Query("timeout", Nil, "none"), Query("not-measured", Nil, "sleep")},
     https    |-> {Request("response-received", 200, "none"), Request("response-received", 302, "none"),
                   Request("tls-error", Nil, "none"), Request("incomplete", Nil, "none")}]

(* Samples of five targets: links, gateways, resolvers and two HTTPS hosts.*)
Sampled(layer, family, s, c, result) ==
    [id |-> <<layer, family, s, c, result.gap>>, target |-> <<layer, family>>, layer |-> layer, family |-> family,
     iface |-> "if1", started |-> s, completed |-> c] @@ result
Probed(outcome, gap, attempts, successes) ==
    [outcome |-> outcome, gap |-> gap, attempts |-> attempts, successes |-> successes]
Spans == {<<1, 1>>, <<2, 2>>, <<2, 3>>, <<3, 4>>, <<4, 5>>}
Space ==
    UNION {
      {Sampled("link", "none", t[1], t[2], r) : r \in
          {Probed("failed", "none", 0, 0), Probed("not-run", "network-changed", 0, 0)}} \cup
      {Sampled("gateway", "ipv4", t[1], t[2], r) : r \in
          {Probed("partial", "none", 3, 2), Probed("not-run", "sleep", 0, 0),
           Probed("unavailable", "permission", 0, 0)}} \cup
      {Sampled("dns", "ipv4", t[1], t[2], r) : r \in
          {Query("response-received", Reply(FALSE, 3, "none"), "none"),
           Query("not-measured", Nil, "sleep"), Query("timeout", Nil, "none")}} \cup
      {Sampled("https", family, t[1], t[2], r) : family \in {"ipv4", "ipv6"}, r \in
          {Request("response-received", 200, "none"), Request("not-measured", Nil, "offline")}}
      : t \in Spans}
Window == [start |-> 1, asOf |-> 5, freshness |-> 4, skew |-> 2]

(* While a read is in progress only the enrollment changes: a row written  *)
(* before the snapshot commutes with the beginning of the read, which      *)
(* looks at the clock and the binding only, and a later row is invisible.  *)
Undisturbed == reader.stage \in {"bound", "read", "answered"} => trail' = trail /\ wall' = wall /\ running' = running

New == trail' \ trail

(* An authorized run is admitted, ended or abandoned before time passes.   *)
Prompt == wall' > wall => \A k \in Kinds : running[k] # Nil => running[k].admitted # Nil

(* "single": one run, every read of it, restarts and changes of the        *)
(* enrollment.  "pair": any two runs and a diagnosis.  "layers": a sample  *)
(* of each kind and a diagnosis.  "cut": several runs of one kind.         *)
Asked(requests) == reader'.stage # "idle" => reader'.request \in requests

(* Nothing leaves the window of these short histories, so a diagnosis that *)
(* is read later than the newest row finds what one read with it finds.    *)
ReadAtOnce == reader'.stage # "idle" => wall \in {r.at : r \in trail}
InPlay ==
    /\ focus = "single" =>
          /\ Cardinality({<<r.kind, r.run>> : r \in trail'}) <= 1
          /\ Asked({"diagnosis"} \cup {r.kind : r \in trail})
    /\ focus = "pair" =>
          /\ Cardinality({<<r.kind, r.run>> : r \in trail'}) <= 2
          /\ \A r \in New : r.measurement = Nil => r.outcome \in {Nil, "failed"}
          /\ Asked({"diagnosis"}) /\ ReadAtOnce /\ faults' = faults /\ wall' <= 2
    /\ focus = "layers" =>
          /\ \A r \in New : /\ r.run = 1 /\ r.selection.family = "ipv4"
                            /\ r.outcome \in {Nil, "completed"} \cup
                                  IF r.kind = "https" THEN {"failed"} ELSE {}
                            /\ r.state = "finished" => r.measurement # Nil
          /\ reader'.stage # "idle" => {r.kind : r \in trail} = Kinds
          /\ Asked({"diagnosis"}) /\ ReadAtOnce /\ faults' = faults /\ wall' <= 2
    /\ focus = "cut" =>
          /\ \A r \in New : r.kind = "gateway" /\ r.outcome \in {Nil, "completed"}
          /\ faults'.bindings = faults.bindings

ReceiptSymmetry == Permutations(Receipts)

History == focus \in {"single", "pair", "layers", "cut"}
NoSender == send.kind = "gateway" /\ send.expires = 24
AllInit ==
    /\ HistoryInit /\ enrolled.scope = "s1" /\ SamplesInit /\ Init /\ SenderInit
    /\ focus \in {"single", "pair", "layers", "cut", "samples", "latency", "senders"}
    /\ focus # "senders" => NoSender
AllNext ==
    /\ UNCHANGED focus
    /\ \/ /\ History /\ reader.stage \in {"idle", "bound", "read", "answered"}
          /\ HistoryNext /\ Undisturbed /\ Prompt /\ InPlay
          /\ UNCHANGED <<samples, vars, senderVars>>
       \/ focus = "samples" /\ SamplesNext /\ UNCHANGED <<historyVars, vars, senderVars>>
       \/ focus = "latency" /\ Next /\ UNCHANGED <<historyVars, samples, senderVars>>
       \/ focus = "senders" /\ SenderNext /\ UNCHANGED <<historyVars, samples, vars>>
AllSpec == AllInit /\ [][AllNext]_allVars
===============================================================================
