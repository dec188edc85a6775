------------------------- MODULE CheckSenders_proofs -------------------------
(*****************************************************************************)
(* Proofs about CheckSenders, for every length of a second, every budget of  *)
(* reads and datagrams, every duration of a call and every expiry of an      *)
(* approval: what a sender returns is a sample that its run control          *)
(* accepts.                                                                  *)
(* SenderInv: while nobody sets the wall clock, the locals of a sender       *)
(* bound what it has counted and the time that took (GatewayInv,             *)
(* ResolverInv, HTTPSInv). Each sender has one lemma per stage, about a      *)
(* step during which the wall clock was not set (Calmly).                    *)
(*****************************************************************************)
EXTENDS CheckSenders, TLAPS

-------------------------------------------------------------------------------
(* The senders *)

SenderStages == {"lookup", "open", "verify", "send", "receive", "pace", "confirm",
                 "handshake", "request", "header", "attribute", "leave", "returned"}
SendRecords == [kind : Senders, pc : SenderStages, err : BOOLEAN, conn : BOOLEAN, seq : Int,
                expires : Nat, limit : Nat, sentAt : Int, lastSend : Int, reads : Int,
                received : Int, rtt : Int, arrived : Int]

SenderTyped ==
    /\ clk \in [mono : Int, wall : Int, last : Int] /\ canceled \in BOOLEAN
    /\ send \in SendRecords
    /\ send.limit <= send.expires /\ send.limit <= TotalTimeout[send.kind]

(* n seconds, for the few n that occur. *)
Seconds(n) == IF n = 3 THEN 3 * Second ELSE IF n = 2 THEN 2 * Second ELSE IF n = 1 THEN Second ELSE 0

(* Gateway: how many requests were handed over, and the time they took.    *)
GatewaySamples == [sends : Nat, accepted : Nat, replies : Nat, timeouts : Nat, started : {0},
                   completed : Nat \cup {Absent}, complete : BOOLEAN, mean : Nat \cup {Absent}]

Counting(s, r, t) ==
    /\ s \in GatewaySamples /\ ~r.err /\ t < r.limit /\ r.seq \in 1..3
    /\ s.accepted = s.sends /\ s.completed = Absent /\ ~s.complete /\ s.mean = Absent
    /\ s.replies + s.timeouts = r.seq - 1 /\ s.sends = IF r.pc = "receive" THEN r.seq ELSE r.seq - 1
    /\ 0 <= r.lastSend /\ r.lastSend <= t /\ (s.sends > 1 => r.lastSend >= Seconds(s.sends - 1))
    /\ 0 <= r.rtt /\ r.rtt + s.replies <= Seconds(s.replies)
    /\ r.pc \in {"verify", "pace"} => r.rtt <= t /\ t >= Seconds(s.timeouts)
    /\ r.pc \in {"send", "receive"} =>
          r.sentAt <= t /\ r.rtt <= r.sentAt /\ r.sentAt >= Seconds(s.timeouts) /\ r.sentAt >= Seconds(r.seq - 1)

PartialGateway(s, t) ==
    /\ s \in GatewaySamples /\ s.completed = Absent /\ ~s.complete /\ s.mean = Absent
    /\ s.sends <= 3 /\ s.accepted <= s.sends /\ s.sends - s.accepted <= 1
    /\ s.replies + s.timeouts <= s.accepted /\ s.accepted - (s.replies + s.timeouts) <= 1
    /\ s.sends > s.accepted => s.replies + s.timeouts = s.accepted
    /\ t >= 0 /\ (s.sends > 1 => t >= Seconds(s.sends - 1)) /\ t >= Seconds(s.timeouts)

FullGateway(s, limit, t) ==
    /\ s \in GatewaySamples /\ s.complete /\ s.sends = 3 /\ s.accepted = 3 /\ s.replies + s.timeouts = 3
    /\ s.completed \in Nat /\ s.completed <= t /\ s.completed < limit
    /\ s.completed >= 2 * Second /\ s.completed >= Seconds(s.timeouts)
    /\ IF s.replies = 0 THEN s.mean = Absent
       ELSE s.mean \in Nat /\ s.mean < Second /\ s.mean <= s.completed

GatewayInv ==
    /\ send.pc \in {"lookup", "open", "verify", "send", "receive", "pace", "leave", "returned"}
    /\ send.pc \in {"lookup", "open"} =>
          /\ sample = Zero /\ ~send.err /\ ~send.conn /\ send.seq = 1 /\ send.lastSend = 0 /\ send.rtt = 0
    /\ send.pc \in {"verify", "send", "receive", "pace"} => Counting(sample, send, clk.mono)
    /\ send.pc = "leave" =>
          IF send.err THEN (sample = Zero /\ ~send.conn) \/ PartialGateway(sample, clk.mono)
          ELSE FullGateway(sample, send.limit, clk.mono)
    /\ send.pc = "open" \/ sample # Zero => 0 < send.limit

(* Resolver: what is known of the one query. *)
ResolverSamples == [started : Nat, completed : Nat \cup {Absent},
                    exchange : {"incomplete", "transport-error", "timeout", "response-received"},
                    request : {"not-sent", "uncertain", "accepted"}, time : Nat \cup {Absent}]

Unanswered(s, t) ==
    s \in ResolverSamples /\ s.completed = Absent /\ s.time = Absent /\ s.started <= t

Answered(s, t) ==
    /\ s \in ResolverSamples /\ s.request = "accepted" /\ s.started <= t
    /\ \/ s.exchange = "timeout" /\ s.completed = Absent /\ s.time = Absent /\ t - s.started >= 2 * Second
       \/ /\ s.exchange = "response-received" /\ s.completed \in Nat
          /\ s.started <= s.completed /\ s.completed <= t
          /\ s.time = s.completed - s.started /\ s.time < 2 * Second

ResolverInv ==
    /\ send.pc \in {"lookup", "open", "verify", "send", "receive", "confirm", "leave", "returned"}
    /\ send.pc \in {"lookup", "open", "verify", "send", "receive", "confirm"} =>
          ~send.err /\ Unanswered(sample, clk.mono) /\ sample.exchange = "incomplete"
    /\ send.pc \in {"lookup", "open", "verify", "send", "receive"} => send.arrived = Absent
    /\ send.pc \in {"send", "receive", "confirm"} => send.sentAt = sample.started
    /\ send.pc \in {"receive", "confirm"} => sample.request = "accepted"
    /\ send.pc = "confirm" =>
          IF send.arrived = Absent THEN clk.mono - sample.started >= 2 * Second
          ELSE sample.started <= send.arrived /\ send.arrived <= clk.mono
    /\ send.pc = "leave" =>
          IF send.err THEN \/ sample = Zero
                           \/ Unanswered(sample, clk.mono) /\ sample.exchange \in {"incomplete", "transport-error"}
          ELSE Answered(sample, clk.mono)

(* HTTPS: a response was received while the exchange still had time. *)
HTTPSSamples == [started : Nat, completed : Nat \cup {Absent},
                 exchange : {"incomplete", "connect-error", "tls-error", "transport-error", "protocol-error",
                             "timeout", "response-received"},
                 request : {"not-sent", "uncertain", "accepted"}, stage : {"connect", "tls", "request"},
                 received : Nat \cup {Absent}]

Exchanging(s, r, t) ==
    /\ s \in HTTPSSamples /\ s.started <= t
    /\ s.exchange = "response-received" => s.received < r.limit

HTTPSInv ==
    /\ send.pc \in {"lookup", "open", "handshake", "request", "header", "attribute", "leave", "returned"}
    /\ send.pc \in {"lookup", "open"} => sample = Zero /\ ~send.err
    /\ send.pc \in {"handshake", "request", "header", "attribute"} => Exchanging(sample, send, clk.mono) /\ ~send.err
    /\ send.pc \in {"handshake", "request", "header"} => sample.exchange = "incomplete"
    /\ send.pc = "attribute" => sample.exchange = "response-received"
    /\ send.pc = "leave" =>
          IF send.err THEN sample = Zero \/ Exchanging(sample, send, clk.mono)
          ELSE Exchanging(sample, send, clk.mono) /\ sample.exchange = "response-received"

(* Unless the wall clock was set, both clocks agree. *)
SenderInv ==
    /\ SenderTyped
    /\ ~Stepped => /\ clk.mono >= 0 /\ clk.last = clk.mono
                   /\ send.kind = "gateway" => GatewayInv
                   /\ send.kind = "resolver" => ResolverInv
                   /\ send.kind = "https" => HTTPSInv
    /\ MeasuredIsAccepted

-------------------------------------------------------------------------------
LEMMA NotZero ==
  ASSUME NEW s, s \in GatewaySamples \/ s \in ResolverSamples \/ s \in HTTPSSamples
  PROVE  s # Zero
<1>1. "started" \in DOMAIN s  BY Zenon DEF GatewaySamples, ResolverSamples, HTTPSSamples
<1>2. DOMAIN Zero = {"empty"}  BY Zenon DEF Zero
<1>3. QED  BY <1>1, <1>2

LEMMA Timings ==
  /\ Second \in Nat /\ Second >= 1 /\ MaxCall \in Nat /\ MinInterval = Second /\ AttemptTimeout = Second
  /\ ExchangeTimeout = 2 * Second /\ MaxAttempts = 3 /\ Absent = -1
  /\ TotalTimeout["gateway"] = 5 * Second /\ TotalTimeout["resolver"] = 5 * Second
  /\ TotalTimeout["https"] = 8 * Second /\ \A k \in Senders : TotalTimeout[k] \in Nat
BY SenderAssumption DEF MinInterval, AttemptTimeout, ExchangeTimeout, MaxAttempts, Absent, TotalTimeout, Senders

(* What a call, or none, does to the clocks and to the caller's context. *)
Elapses ==
    /\ clk' \in [mono : Int, wall : Int, last : Int] /\ canceled' \in BOOLEAN
    /\ ~Stepped' => /\ ~Stepped /\ clk.mono <= clk'.mono
                    /\ clk.last = clk.mono => clk'.last = clk'.mono

LEMMA Spending ==
  ASSUME SenderTyped, NEW ticks, ticks \subseteq Nat, Spends(ticks)
  PROVE  Elapses
<1>1. PICK d \in ticks, step \in {-1, 0, 1} :
         /\ step # 0 => ~Stepped
         /\ clk' = [mono |-> clk.mono + d, wall |-> clk.wall + d + step,
                    last |-> IF clk.wall + d + step < clk.last THEN clk.last ELSE clk.wall + d + step]
  BY Zenon DEF Spends
<1>2. d \in Nat /\ clk.mono \in Int /\ clk.wall \in Int /\ clk.last \in Int /\ canceled' \in BOOLEAN
  BY Zenon DEF SenderTyped, Spends
<1>3. /\ clk'.mono = clk.mono + d /\ clk'.wall = clk.wall + d + step
      /\ clk'.last = IF clk.wall + d + step < clk.last THEN clk.last ELSE clk.wall + d + step
      /\ clk' \in [mono : Int, wall : Int, last : Int]
  BY <1>1, <1>2
<1>4. QED  BY <1>1, <1>2, <1>3 DEF Elapses, Stepped

LEMMA Calling ==
  ASSUME SenderTyped, Calls
  PROVE  Elapses
BY Spending, Timings DEF Calls

(* Every step takes time, or none, and changes only the locals. *)
LocalsMove ==
    /\ send' \in SendRecords /\ send'.kind = send.kind /\ send'.expires = send.expires
    /\ send'.limit = send.limit

LEMMA Leaving == ASSUME SenderTyped, NEW s, Leaves(s) PROVE LocalsMove
BY Zenon DEF SenderTyped, Leaves, LocalsMove, SendRecords, SenderStages

LEMMA Going == ASSUME SenderTyped, NEW pc \in SenderStages, Goes(pc) PROVE LocalsMove
BY Zenon DEF SenderTyped, Goes, LocalsMove, SendRecords

LEMMA Typing ==
  ASSUME SenderTyped, Elapses, LocalsMove
  PROVE  SenderTyped'
BY Zenon DEF SenderTyped, Elapses, LocalsMove

(* Locals that differ in what is counted and timed. *)
LocalsOf(r) ==
    r \in SendRecords /\ r.kind = send.kind /\ r.expires = send.expires /\ r.limit = send.limit

LEMMA Ending == ASSUME SenderTyped, NEW r, LocalsOf(r), NEW s, EndsAttempt(r, s) PROVE LocalsMove
<1>1. send' \in {[r EXCEPT !.pc = "leave"], [r EXCEPT !.pc = "leave", !.err = TRUE],
                 [r EXCEPT !.pc = "pace", !.seq = @ + 1]}
  BY Zenon DEF EndsAttempt
<1>2. CASE send' = [r EXCEPT !.pc = "leave"]  BY <1>2, Zenon DEF LocalsOf, LocalsMove, SendRecords, SenderStages
<1>3. CASE send' = [r EXCEPT !.pc = "leave", !.err = TRUE]
  <2>1. send' \in SendRecords  BY <1>3, Zenon DEF LocalsOf, SendRecords, SenderStages
  <2>2. QED  BY <1>3, <2>1, Zenon DEF LocalsOf, LocalsMove, SendRecords
<1>4. CASE send' = [r EXCEPT !.pc = "pace", !.seq = @ + 1]
  <2>1. r.seq + 1 \in Int /\ send' = [r EXCEPT !.pc = "pace", !.seq = r.seq + 1]
    BY <1>4 DEF LocalsOf, SendRecords
  <2>2. send' \in SendRecords  BY <2>1, Zenon DEF LocalsOf, SendRecords, SenderStages
  <2>3. QED  BY <2>1, <2>2, Zenon DEF LocalsOf, LocalsMove, SendRecords
<1>5. QED  BY <1>1, <1>2, <1>3, <1>4, Zenon

LEMMA Counted ==
  ASSUME SenderTyped
  PROVE  /\ LocalsOf(send) /\ LocalsOf([send EXCEPT !.reads = @ + 1])
         /\ LocalsOf([[send EXCEPT !.reads = @ + 1] EXCEPT !.received = @ + 1])
         /\ \A t \in Int : LocalsOf([[[send EXCEPT !.reads = @ + 1] EXCEPT !.received = @ + 1] EXCEPT !.rtt = @ + t])
<1>1. LocalsOf(send)  BY Zenon DEF SenderTyped, LocalsOf
<1>2. \A r : LocalsOf(r) => LocalsOf([r EXCEPT !.reads = @ + 1])  BY DEF LocalsOf, SendRecords
<1>3. \A r : LocalsOf(r) => LocalsOf([r EXCEPT !.received = @ + 1])  BY DEF LocalsOf, SendRecords
<1>4. \A r : \A t \in Int : LocalsOf(r) => LocalsOf([r EXCEPT !.rtt = @ + t])  BY DEF LocalsOf, SendRecords
<1>5. QED  BY <1>1, <1>2, <1>3, <1>4, Zenon

LEMMA Becoming == ASSUME NEW r, LocalsOf(r), send' = r PROVE LocalsMove
BY Zenon DEF LocalsOf, LocalsMove

LEMMA ReceiveMoves == ASSUME SenderTyped, GatewayReceive PROVE Elapses /\ LocalsMove
<1> DEFINE read == [send EXCEPT !.reads = @ + 1]
           got == [read EXCEPT !.received = @ + 1]
           wait == clk'.mono - send.sentAt
<1>1. UNCHANGED <<clk, canceled>> => Elapses  BY DEF SenderTyped, Elapses, Stepped
<1>2. Elapses  BY <1>1, Calling, Zenon DEF GatewayReceive
<1>3. wait \in Int  BY <1>2 DEF Elapses, SenderTyped, SendRecords
<1>4. LocalsOf(send) /\ LocalsOf(read) /\ LocalsOf(got) /\ LocalsOf([got EXCEPT !.rtt = @ + wait])
  BY <1>3, Counted, Zenon
<1>5. \/ TimesOut(send) \/ Leaves(sample) \/ send' = read \/ TimesOut(got) \/ send' = got
      \/ EndsAttempt([got EXCEPT !.rtt = @ + wait], [sample EXCEPT !.replies = @ + 1])
  BY Zenon DEF GatewayReceive
<1> HIDE DEF read, got, wait
<1>6. LocalsMove  BY <1>4, <1>5, Ending, Leaving, Becoming, Zenon DEF TimesOut
<1>7. QED  BY <1>2, <1>6, Zenon

LEMMA GatewayMoves ==
  ASSUME SenderTyped, GatewaySend \/ GatewayPace PROVE Elapses /\ LocalsMove
<1>1. CASE GatewaySend
  <2>1. Elapses  BY <1>1, Calling, Zenon DEF GatewaySend
  <2>2. CASE \E s : Leaves(s)  BY <2>1, <2>2, Leaving, Zenon
  <2>3. CASE send' = [send EXCEPT !.pc = "receive", !.lastSend = clk'.mono]
    BY <2>1, <2>3, Zenon DEF SenderTyped, Elapses, LocalsMove, SendRecords, SenderStages
  <2>4. QED  BY <1>1, <2>2, <2>3, Zenon DEF GatewaySend
<1>2. CASE GatewayPace
  <2> DEFINE rest == send.lastSend + MinInterval - clk.mono
             least == IF rest > 0 THEN rest ELSE 0
  <2>1. least..(least + MaxCall) \subseteq Nat  BY Timings DEF SenderTyped, SendRecords
  <2>2. \/ Spends(least..(least + MaxCall)) /\ Goes("verify")
        \/ Calls /\ Leaves(sample)
    BY <1>2, Zenon DEF GatewayPace
  <2> HIDE DEF least
  <2>3. "verify" \in SenderStages  BY Zenon DEF SenderStages
  <2>4. QED  BY <2>1, <2>2, <2>3, Spending, Calling, Going, Leaving, Zenon
<1>3. QED  BY <1>1, <1>2, Zenon

LEMMA ResolverMoves ==
  ASSUME SenderTyped, ResolverSend \/ ResolverReceive \/ ResolverConfirm PROVE Elapses /\ LocalsMove
<1>0. "receive" \in SenderStages /\ "confirm" \in SenderStages /\ "leave" \in SenderStages  BY Zenon DEF SenderStages
<1>1. CASE ResolverSend
  <2>1. Elapses  BY <1>1, Calling, Zenon DEF ResolverSend
  <2>2. (\E s : Leaves(s)) \/ Goes("receive")  BY <1>1, Zenon DEF ResolverSend
  <2>3. QED  BY <1>0, <2>1, <2>2, Leaving, Going, Zenon
<1>2. CASE ResolverReceive
  <2> DEFINE read == [send EXCEPT !.reads = @ + 1]
             got == [read EXCEPT !.received = @ + 1]
  <2>1. UNCHANGED <<clk, canceled>> => Elapses  BY DEF SenderTyped, Elapses, Stepped
  <2>2. Elapses  BY <1>2, <2>1, Calling, Zenon DEF ResolverReceive
  <2>3. LocalsOf(read) /\ LocalsOf(got)  BY Counted, Zenon
  <2>4. \/ (\E s : Leaves(s)) \/ Goes("confirm") \/ send' \in {read, got}
        \/ send' = [got EXCEPT !.pc = "confirm", !.arrived = clk'.wall]
    BY <1>2, Zenon DEF ResolverReceive
  <2> HIDE DEF read, got
  <2>5. CASE send' = [got EXCEPT !.pc = "confirm", !.arrived = clk'.wall]
    BY <1>0, <2>2, <2>3, <2>5, Zenon DEF Elapses, LocalsOf, LocalsMove, SendRecords
  <2>6. QED  BY <1>0, <2>2, <2>3, <2>4, <2>5, Leaving, Going, Becoming, Zenon
<1>3. CASE ResolverConfirm
  <2>1. Elapses  BY <1>3, Calling, Zenon DEF ResolverConfirm
  <2>2. (\E s : Leaves(s)) \/ Goes("leave")  BY <1>3, Zenon DEF ResolverConfirm
  <2>3. QED  BY <1>0, <2>1, <2>2, Leaving, Going, Zenon
<1>4. QED  BY <1>1, <1>2, <1>3, Zenon

LEMMA HTTPSMoves ==
  ASSUME SenderTyped, Connect \/ Handshake \/ WriteRequest \/ ReadHeader \/ Attribute
  PROVE  Elapses /\ LocalsMove
<1>1. /\ 0..(ConnectTimeout + MaxCall) \subseteq Nat /\ 0..(TLSHandshakeTimeout + MaxCall) \subseteq Nat
      /\ 0..ResponseHeaderTimeout \subseteq Nat
  BY Timings DEF ConnectTimeout, TLSHandshakeTimeout, ResponseHeaderTimeout
<1>2. Elapses  BY <1>1, Spending, Calling, Zenon DEF Connect, Handshake, WriteRequest, ReadHeader, Attribute
<1>3. \/ \E s : Leaves(s)
      \/ \E pc \in {"handshake", "request", "header", "attribute", "leave"} : Goes(pc)
      \/ UNCHANGED send
  BY Zenon DEF Connect, Handshake, WriteRequest, ReadHeader, Attribute, Breaks
<1>4. {"handshake", "request", "header", "attribute", "leave"} \subseteq SenderStages  BY Zenon DEF SenderStages
<1>5. UNCHANGED send => LocalsMove  BY Zenon DEF SenderTyped, LocalsMove
<1>6. QED  BY <1>2, <1>3, <1>4, <1>5, Leaving, Going, Zenon

LEMMA OtherMoves ==
  ASSUME SenderTyped, CheckRoute \/ Open \/ Verify \/ Return PROVE Elapses /\ LocalsMove
<1>0. "open" \in SenderStages  BY Zenon DEF SenderStages
<1>1. Elapses  BY Calling, Zenon DEF CheckRoute, Open, Verify, Return
<1>2. \/ \E s : Leaves(s)
      \/ Goes("open")
      \/ send' = [send EXCEPT !.pc = "leave", !.err = TRUE, !.conn = TRUE]
      \/ send' = [send EXCEPT !.pc = "verify", !.conn = TRUE]
      \/ send' = [send EXCEPT !.pc = "send", !.sentAt = clk'.mono]
      \/ \E err \in BOOLEAN : send' = [send EXCEPT !.pc = "returned", !.err = err]
  <2>1. CASE CheckRoute \/ Open \/ Verify  BY <2>1, Zenon DEF CheckRoute, Open, Verify
  <2>2. CASE Return
    <3>1. PICK fails \in BOOLEAN :
             send' = [send EXCEPT !.pc = "returned", !.err = @ \/ fails \/ Withheld(Closed(sample))]
      BY <2>2, Zenon DEF Return
    <3>2. send.err \in BOOLEAN /\ (send.err \/ fails \/ Withheld(Closed(sample))) \in BOOLEAN
      BY Zenon DEF SenderTyped, SendRecords
    <3>3. send' = [send EXCEPT !.pc = "returned", !.err = send.err \/ fails \/ Withheld(Closed(sample))]
      BY <3>1, Zenon
    <3>4. QED  BY <3>2, <3>3, Zenon
  <2>3. QED  BY <2>1, <2>2, Zenon
<1>3. ASSUME NEW err \in BOOLEAN, send' = [send EXCEPT !.pc = "returned", !.err = err] PROVE LocalsMove
  BY <1>3, Zenon DEF SenderTyped, LocalsMove, SendRecords, SenderStages
<1>4. CASE send' = [send EXCEPT !.pc = "send", !.sentAt = clk'.mono]
  BY <1>1, <1>4, Zenon DEF SenderTyped, Elapses, LocalsMove, SendRecords, SenderStages
<1>5. CASE send' = [send EXCEPT !.pc = "leave", !.err = TRUE, !.conn = TRUE]
  <2>1. send' \in SendRecords  BY <1>5, Zenon DEF SenderTyped, SendRecords, SenderStages
  <2>2. QED  BY <1>1, <1>5, <2>1, Zenon DEF SenderTyped, LocalsMove, SendRecords
<1>6. CASE send' = [send EXCEPT !.pc = "verify", !.conn = TRUE]
  <2>1. send' \in SendRecords  BY <1>6, Zenon DEF SenderTyped, SendRecords, SenderStages
  <2>2. QED  BY <1>1, <1>6, <2>1, Zenon DEF SenderTyped, LocalsMove, SendRecords
<1>7. QED  BY <1>0, <1>1, <1>2, <1>3, <1>4, <1>5, <1>6, Leaving, Going, Zenon

LEMMA SenderMoves == ASSUME SenderTyped, SenderNext PROVE Elapses /\ LocalsMove
BY ReceiveMoves, GatewayMoves, ResolverMoves, HTTPSMoves, OtherMoves, Zenon DEF SenderNext

-------------------------------------------------------------------------------
(* A step during which nobody set the wall clock. *)
Calmly ==
    /\ SenderTyped /\ SenderTyped' /\ LocalsMove /\ ~Stepped /\ ~Stepped'
    /\ 0 <= clk.mono /\ clk.mono <= clk'.mono /\ clk.last = clk.mono /\ clk'.last = clk'.mono

LEMMA CalmFacts ==
  ASSUME Calmly
  PROVE  /\ clk.mono \in Nat /\ clk'.mono \in Nat /\ clk.mono <= clk'.mono
         /\ clk.wall = clk.mono /\ clk'.wall = clk'.mono /\ clk'.last = clk'.mono
         /\ send \in SendRecords /\ send' \in SendRecords
         /\ send'.kind = send.kind /\ send'.limit = send.limit /\ send'.expires = send.expires
         /\ send.limit \in Nat /\ send.limit <= send.expires /\ send.limit <= TotalTimeout[send.kind]
<1>1. clk \in [mono : Int, wall : Int, last : Int] /\ clk' \in [mono : Int, wall : Int, last : Int]
  BY Zenon DEF Calmly, SenderTyped
<1>2. clk.wall = clk.mono /\ clk'.wall = clk'.mono  BY Zenon DEF Calmly, Stepped
<1>3. send \in SendRecords /\ send.limit <= send.expires /\ send.limit <= TotalTimeout[send.kind]
  BY Zenon DEF Calmly, SenderTyped
<1>4. QED  BY <1>1, <1>2, <1>3 DEF Calmly, LocalsMove, SendRecords

LEMMA ClockHolds ==
  ASSUME Calmly, ~ClockFails
  PROVE  clk'.mono < send.limit
BY CalmFacts DEF ClockFails, Late

LEMMA SecondsAre ==
  /\ Seconds(0) = 0 /\ Seconds(1) = Second /\ Seconds(2) = 2 * Second /\ Seconds(3) = 3 * Second
  /\ \A n \in 0..3 : Seconds(n) \in Nat /\ Seconds(n) = n * Second
BY Timings DEF Seconds

LEMMA Means ==
  ASSUME NEW x \in Nat, NEW k \in 1..3, x + k <= Seconds(k)
  PROVE  x \div k \in Nat /\ x \div k < Second /\ x \div k <= x
<1>1. CASE k = 1  BY <1>1, Timings, SecondsAre
<1>2. CASE k = 2  BY <1>2, Timings, SecondsAre
<1>3. CASE k = 3  BY <1>3, Timings, SecondsAre
<1>4. QED  BY <1>1, <1>2, <1>3

-------------------------------------------------------------------------------
(* The gateway check *)

GatewayAfter(r, s, u) ==
    /\ r.pc \in {"lookup", "open", "verify", "send", "receive", "pace", "leave", "returned"}
    /\ r.pc \in {"lookup", "open"} =>
          /\ s = Zero /\ ~r.err /\ ~r.conn /\ r.seq = 1 /\ r.lastSend = 0 /\ r.rtt = 0
    /\ r.pc \in {"verify", "send", "receive", "pace"} => Counting(s, r, u)
    /\ r.pc = "leave" => IF r.err THEN (s = Zero /\ ~r.conn) \/ PartialGateway(s, u)
                         ELSE FullGateway(s, r.limit, u)
    /\ r.pc = "open" \/ s # Zero => 0 < r.limit

LEMMA GatewayNow == GatewayInv <=> GatewayAfter(send, sample, clk.mono)
BY Zenon DEF GatewayInv, GatewayAfter

LEMMA GatewayThen == GatewayInv' <=> GatewayAfter(send', sample', clk'.mono)
BY Zenon DEF GatewayInv, GatewayAfter, Counting, PartialGateway, FullGateway, GatewaySamples, Seconds, Zero, Absent

LEMMA CountingIsPartial ==
  ASSUME NEW r \in SendRecords, NEW s, NEW t \in Nat, NEW u \in Nat, t <= u, Counting(s, r, t),
         r.pc \in {"verify", "send", "receive", "pace"}
  PROVE  PartialGateway(s, u) /\ 0 < r.limit
<1>1. s \in GatewaySamples /\ r.seq \in 1..3 /\ r.lastSend \in Int /\ r.sentAt \in Int
  BY Zenon DEF Counting, SendRecords
<1>2. /\ s.sends \in Nat /\ s.accepted \in Nat /\ s.replies \in Nat /\ s.timeouts \in Nat
      /\ s.replies + s.timeouts = r.seq - 1 /\ s.sends \in {r.seq, r.seq - 1} /\ s.accepted = s.sends
  BY <1>1, Zenon DEF Counting, GatewaySamples
<1>3. Seconds(s.timeouts) \in Nat /\ (s.sends > 1 => Seconds(s.sends - 1) \in Nat)
  <2>1. s.timeouts \in 0..3 /\ (s.sends > 1 => s.sends - 1 \in 0..3)  BY <1>1, <1>2
  <2>2. QED  BY <2>1, SecondsAre, Zenon
<1>4. t >= Seconds(s.timeouts)  BY <1>1, <1>3 DEF Counting
<1>5. s.sends > 1 => t >= Seconds(s.sends - 1)  BY <1>1, <1>3 DEF Counting
<1>6. 0 < r.limit  BY DEF Counting, SendRecords
<1>7. QED  BY <1>1, <1>2, <1>3, <1>4, <1>5, <1>6 DEF Counting, PartialGateway

LEMMA GatewayLeaves ==
  ASSUME Calmly, NEW s, Leaves(s),
         (s = Zero /\ ~send.conn) \/ (PartialGateway(s, clk'.mono) /\ 0 < send.limit)
  PROVE  GatewayInv'
<1>1. sample' = s /\ send'.pc = "leave" /\ send'.err /\ send'.conn = send.conn /\ send'.limit = send.limit
  BY CalmFacts, Zenon DEF Leaves, SendRecords
<1>2. GatewayAfter(send', sample', clk'.mono)  BY <1>1, Zenon DEF GatewayAfter
<1>3. QED  BY <1>2, GatewayThen, Zenon

LEMMA FreshGateway ==
  /\ Started("gateway", 0) \in GatewaySamples
  /\ \A f \in {"sends", "accepted", "replies", "timeouts"} : Started("gateway", 0)[f] = 0
  /\ Started("gateway", 0).completed = Absent /\ ~Started("gateway", 0).complete
  /\ Started("gateway", 0).mean = Absent
BY DEF Started, GatewaySamples

LEMMA GatewayRoute ==
  ASSUME Calmly, send.kind = "gateway", GatewayInv, CheckRoute \/ Open
  PROVE  GatewayInv'
<1>1. /\ send.pc \in {"lookup", "open"} /\ sample = Zero /\ ~send.err /\ ~send.conn /\ send.seq = 1
      /\ send.lastSend = 0 /\ send.rtt = 0
  BY Zenon DEF GatewayInv, CheckRoute, Open
<1> DEFINE new == Started("gateway", 0)
<1>2. /\ new \in GatewaySamples /\ new.sends = 0 /\ new.accepted = 0 /\ new.replies = 0 /\ new.timeouts = 0
      /\ new.completed = Absent /\ ~new.complete /\ new.mean = Absent
  BY FreshGateway, Zenon
<1> HIDE DEF new
<1>3. CASE \E s \in {Zero, sample} : Leaves(s)  BY <1>1, <1>3, GatewayLeaves, Zenon
<1>4. CASE Passes /\ Goes("open") /\ UNCHANGED sample
  <2>0. 0 < send'.limit
    <3>1. ~ClockFails  BY <1>4, Zenon DEF Passes
    <3>2. QED  BY <3>1, ClockHolds, CalmFacts
  <2>1. /\ send'.pc = "open" /\ send'.err = send.err /\ send'.conn = send.conn /\ send'.seq = send.seq
        /\ send'.lastSend = send.lastSend /\ send'.rtt = send.rtt
    BY <1>4, CalmFacts, Zenon DEF Goes, SendRecords
  <2>2. GatewayAfter(send', sample', clk'.mono)  BY <1>1, <1>4, <2>0, <2>1, Zenon DEF GatewayAfter
  <2>3. QED  BY <2>2, GatewayThen, Zenon
<1>8. Open => 0 < send'.limit  BY CalmFacts, Zenon DEF Open, GatewayInv
<1>5. CASE /\ Open /\ send' = [send EXCEPT !.pc = "leave", !.err = TRUE, !.conn = TRUE]
           /\ sample' = new
  <2>1. send'.pc = "leave" /\ send'.err  BY <1>5, CalmFacts, Zenon DEF SendRecords
  <2>2. PartialGateway(new, clk'.mono)  BY <1>2, CalmFacts, SecondsAre DEF PartialGateway
  <2>3. GatewayAfter(send', sample', clk'.mono)  BY <1>5, <1>8, <2>1, <2>2, Zenon DEF GatewayAfter
  <2>4. QED  BY <2>3, GatewayThen
<1>6. CASE /\ ~ClockFails /\ send' = [send EXCEPT !.pc = "verify", !.conn = TRUE]
           /\ sample' = new
  <2>1. /\ send'.pc = "verify" /\ send'.err = send.err /\ send'.seq = 1 /\ send'.lastSend = 0 /\ send'.rtt = 0
    BY <1>1, <1>6, CalmFacts, Zenon DEF SendRecords
  <2>2. clk'.mono < send'.limit  BY <1>6, ClockHolds, CalmFacts, Zenon
  <2>3. Counting(new, send', clk'.mono)
    BY <1>1, <1>2, <2>1, <2>2, CalmFacts, SecondsAre DEF Counting
  <2>4. GatewayAfter(send', sample', clk'.mono)  BY <1>6, <2>1, <2>2, <2>3, CalmFacts DEF GatewayAfter
  <2>5. QED  BY <2>4, GatewayThen
<1>7. QED  BY <1>1, <1>3, <1>4, <1>5, <1>6, Zenon DEF CheckRoute, Open, new

(* What the fields of a counting sender say, for any number of attempts. *)
LEMMA CountingFacts ==
  ASSUME NEW r \in SendRecords, NEW s, NEW t \in Nat, Counting(s, r, t)
  PROVE  /\ s \in GatewaySamples /\ ~r.err /\ t < r.limit /\ r.seq \in 1..3 /\ r.limit \in Nat
         /\ s.sends \in 0..3 /\ s.accepted = s.sends /\ s.replies \in 0..2 /\ s.timeouts \in 0..2
         /\ s.completed = Absent /\ ~s.complete /\ s.mean = Absent
         /\ s.replies + s.timeouts = r.seq - 1 /\ s.sends = (IF r.pc = "receive" THEN r.seq ELSE r.seq - 1)
         /\ r.lastSend \in Nat /\ r.lastSend <= t /\ r.rtt \in Nat /\ r.sentAt \in Int
BY DEF Counting, GatewaySamples, SendRecords

LEMMA GatewayVerifies ==
  ASSUME Calmly, send.kind = "gateway", GatewayInv, Verify
  PROVE  GatewayInv'
<1> DEFINE t == clk.mono
           u == clk'.mono
<1>0. t \in Nat /\ u \in Nat /\ t <= u /\ send \in SendRecords /\ send' \in SendRecords  BY CalmFacts, Zenon
<1>1. send.pc = "verify" /\ Counting(sample, send, t)  BY Zenon DEF Verify, GatewayInv
<1>2. CASE Leaves(sample)
  <2>1. PartialGateway(sample, u) /\ 0 < send.limit  BY <1>0, <1>1, CountingIsPartial, Zenon
  <2>2. QED  BY <1>2, <2>1, GatewayLeaves, Zenon
<1>3. CASE /\ ~ClockFails /\ ~(send.seq > 1 /\ u - send.lastSend < MinInterval)
           /\ send' = [send EXCEPT !.pc = "send", !.sentAt = u] /\ sample' = sample
  <2>1. /\ send'.pc = "send" /\ send'.sentAt = u /\ send'.err = send.err /\ send'.seq = send.seq
        /\ send'.lastSend = send.lastSend /\ send'.rtt = send.rtt /\ send'.limit = send.limit
    BY <1>0, <1>3, Zenon DEF SendRecords
  <2>2. u < send.limit  BY <1>3, ClockHolds, Zenon
  <2>3. /\ sample.sends = send.seq - 1 /\ send.seq \in 1..3 /\ send.lastSend \in Nat /\ send.rtt <= t
        /\ sample.sends > 1 => send.lastSend >= Seconds(sample.sends - 1)
        /\ t >= Seconds(sample.timeouts) /\ Seconds(sample.timeouts) \in Nat /\ send.rtt \in Nat
    BY <1>0, <1>1, CountingFacts, SecondsAre DEF Counting
  <2>4. u >= Seconds(send.seq - 1)
    <3>1. CASE send.seq = 1  BY <1>0, <3>1, SecondsAre
    <3>2. CASE send.seq = 2  BY <1>0, <1>3, <2>3, <3>2, SecondsAre, Timings
    <3>3. CASE send.seq = 3  BY <1>0, <1>3, <2>3, <3>3, SecondsAre, Timings
    <3>4. QED  BY <2>3, <3>1, <3>2, <3>3
  <2>5. send'.lastSend <= u /\ send'.rtt <= u /\ u >= Seconds(sample.timeouts)  BY <1>0, <2>1, <2>3, <1>1, CountingFacts
  <2> HIDE DEF t, u
  <2>6. Counting(sample', send', u)  BY <1>0, <1>1, <1>3, <2>1, <2>2, <2>4, <2>5 DEF Counting
  <2>7. GatewayAfter(send', sample', u)  BY <1>0, <2>1, <2>2, <2>6, CalmFacts DEF GatewayAfter
  <2>8. QED  BY <2>7, GatewayThen, Zenon DEF u
<1>4. QED  BY <1>2, <1>3, Zenon DEF Verify

LEMMA GatewaySends ==
  ASSUME Calmly, send.kind = "gateway", GatewayInv, GatewaySend
  PROVE  GatewayInv'
<1> DEFINE t == clk.mono
           u == clk'.mono
           called == [sample EXCEPT !.sends = @ + 1]
           taken == [called EXCEPT !.accepted = @ + 1]
<1>0. t \in Nat /\ u \in Nat /\ t <= u /\ send \in SendRecords /\ send' \in SendRecords  BY CalmFacts
<1>1. send.pc = "send" /\ Counting(sample, send, t)  BY Zenon DEF GatewaySend, At, GatewayInv
<1>2. /\ sample \in GatewaySamples /\ send.seq \in 1..3 /\ sample.sends = send.seq - 1
      /\ sample.accepted = sample.sends /\ sample.replies \in 0..2 /\ sample.timeouts \in 0..2
      /\ sample.replies + sample.timeouts = send.seq - 1
      /\ sample.completed = Absent /\ ~sample.complete /\ sample.mean = Absent
  BY <1>0, <1>1, CountingFacts, Zenon
<1>3. /\ called \in GatewaySamples /\ called.sends = send.seq /\ called.accepted = send.seq - 1
      /\ called.replies = sample.replies /\ called.timeouts = sample.timeouts
      /\ called.completed = Absent /\ ~called.complete /\ called.mean = Absent
  BY <1>2 DEF GatewaySamples
<1> HIDE DEF called
<1>4. /\ taken \in GatewaySamples /\ taken.sends = send.seq /\ taken.accepted = send.seq
      /\ taken.replies = sample.replies /\ taken.timeouts = sample.timeouts
      /\ taken.completed = Absent /\ ~taken.complete /\ taken.mean = Absent
  <2>1. send.seq \in Nat /\ taken = [called EXCEPT !.accepted = send.seq]
    <3>1. called.accepted + 1 = send.seq /\ send.seq \in Nat  BY <1>2, <1>3
    <3>2. QED  BY <3>1, Zenon
  <2> HIDE DEF taken
  <2>2. QED  BY <1>3, <2>1, Zenon DEF GatewaySamples
<1>5. Leaves(called) \/ Leaves(taken) \/
      (~ClockFails /\ sample' = taken /\ send' = [send EXCEPT !.pc = "receive", !.lastSend = u])
  BY Zenon DEF GatewaySend, called
<1> HIDE DEF taken
<1>6. /\ send.sentAt \in Int /\ send.sentAt <= t /\ Seconds(send.seq - 1) \in Nat
      /\ send.sentAt >= Seconds(send.seq - 1)
      /\ Seconds(sample.timeouts) \in Nat /\ send.sentAt >= Seconds(sample.timeouts)
      /\ send.rtt <= send.sentAt /\ send.rtt \in Nat /\ send.rtt + sample.replies <= Seconds(sample.replies)
  BY <1>0, <1>1, <1>2, CountingFacts, SecondsAre DEF Counting
<1>7. u >= Seconds(send.seq - 1) /\ u >= Seconds(sample.timeouts)  BY <1>0, <1>6
<1> HIDE DEF t, u
<1>8. CASE Leaves(called)
  <2>1. PartialGateway(called, u)  BY <1>0, <1>2, <1>3, <1>7 DEF PartialGateway
  <2>2. QED  BY <1>1, <1>8, <2>1, <1>0, GatewayLeaves, CountingIsPartial, Zenon DEF u
<1>9. CASE Leaves(taken)
  <2>1. PartialGateway(taken, u)  BY <1>0, <1>2, <1>4, <1>7 DEF PartialGateway
  <2>2. QED  BY <1>1, <1>9, <2>1, <1>0, GatewayLeaves, CountingIsPartial DEF u
<1>10. CASE ~ClockFails /\ sample' = taken /\ send' = [send EXCEPT !.pc = "receive", !.lastSend = u]
  <2>1. /\ send'.pc = "receive" /\ send'.lastSend = u /\ send'.err = send.err /\ send'.seq = send.seq
        /\ send'.sentAt = send.sentAt /\ send'.rtt = send.rtt /\ send'.limit = send.limit
    BY <1>0, <1>10, Zenon DEF SendRecords
  <2>2. u < send.limit  BY <1>10, ClockHolds, Zenon DEF u
  <2>3. ~send.err  BY <1>1, Zenon DEF Counting
  <2>4. Counting(taken, send', u)
    BY <1>0, <1>2, <1>4, <1>6, <1>7, <2>1, <2>2, <2>3 DEF Counting
  <2>5. GatewayAfter(send', sample', u)  BY <1>0, <1>10, <2>1, <2>2, <2>4, CalmFacts DEF GatewayAfter
  <2>6. QED  BY <2>5, GatewayThen DEF u
<1>11. QED  BY <1>5, <1>8, <1>9, <1>10, Zenon

(* An attempt was answered or has timed out. *)
Ended(r, s, u) ==
    /\ s \in GatewaySamples /\ ~r.err /\ u < r.limit /\ r.seq \in 1..3
    /\ s.sends = r.seq /\ s.accepted = r.seq /\ s.replies + s.timeouts = r.seq
    /\ s.completed = Absent /\ ~s.complete /\ s.mean = Absent
    /\ 0 <= r.lastSend /\ r.lastSend <= u /\ (s.sends > 1 => r.lastSend >= Seconds(s.sends - 1))
    /\ 0 <= r.rtt /\ r.rtt <= u /\ r.rtt + s.replies <= Seconds(s.replies) /\ u >= Seconds(s.timeouts)

LEMMA AttemptEnds ==
  ASSUME Calmly, NEW r, LocalsOf(r), NEW s, Ended(r, s, clk'.mono), EndsAttempt(r, s)
  PROVE  GatewayInv'
<1> DEFINE u == clk'.mono
<1>0. u \in Nat /\ clk'.wall = u /\ r \in SendRecords /\ send' \in SendRecords /\ r.limit = send.limit
  BY CalmFacts, Zenon DEF LocalsOf
<1>1. /\ s \in GatewaySamples /\ r.seq \in 1..3 /\ r.limit \in Nat /\ r.lastSend \in Nat /\ r.rtt \in Nat
      /\ s.replies \in 0..3 /\ s.timeouts \in 0..3 /\ s.sends \in 1..3 /\ s.accepted \in 1..3
  BY <1>0 DEF Ended, GatewaySamples, SendRecords
<1>2. Seconds(s.timeouts) \in Nat /\ (s.sends > 1 => Seconds(s.sends - 1) \in Nat)  BY <1>1, SecondsAre
<1>2a. 0 < send'.limit  BY <1>0, <1>1, CalmFacts DEF Ended
<1> DEFINE mean == IF s.replies = 0 THEN Absent ELSE r.rtt \div s.replies
<1>3. CASE r.seq = MaxAttempts
  <2>1. /\ send' = [r EXCEPT !.pc = "leave"]
        /\ sample' = [s EXCEPT !.complete = TRUE, !.completed = u, !.mean = mean]
    BY <1>0, <1>3, Zenon DEF EndsAttempt
  <2>2. s.replies # 0 => mean \in Nat /\ mean < Second /\ mean <= u
    <3>1. SUFFICES ASSUME s.replies # 0 PROVE r.rtt \div s.replies \in Nat /\ r.rtt \div s.replies < Second
                                              /\ r.rtt \div s.replies <= u
      BY Zenon
    <3>2. s.replies \in 1..3 /\ r.rtt + s.replies <= Seconds(s.replies) /\ r.rtt <= u  BY <1>1, <3>1 DEF Ended
    <3>3. r.rtt \div s.replies \in Nat /\ r.rtt \div s.replies < Second /\ r.rtt \div s.replies <= r.rtt
      BY <1>1, <3>2, Means, Zenon
    <3>4. QED  BY <1>0, <1>1, <3>2, <3>3
  <2>3. s.replies = 0 => mean = Absent  BY Zenon
  <2>4. mean \in Nat \cup {Absent}  BY <2>2, <2>3, Zenon
  <2> HIDE DEF mean, u
  <2>5. /\ sample' \in GatewaySamples /\ sample'.complete /\ sample'.completed = u /\ sample'.mean = mean
        /\ sample'.sends = s.sends /\ sample'.accepted = s.accepted
        /\ sample'.replies = s.replies /\ sample'.timeouts = s.timeouts
    BY <1>0, <1>1, <2>1, <2>4, Zenon DEF GatewaySamples
  <2>6. r.seq = 3 /\ s.sends = 3 /\ s.accepted = 3 /\ s.replies + s.timeouts = 3  BY <1>3, Timings, Zenon DEF Ended
  <2>7. u >= 2 * Second /\ u >= Seconds(s.timeouts) /\ u < r.limit
    BY <1>0, <1>1, <2>6, SecondsAre, Timings DEF Ended, u
  <2>8. FullGateway(sample', r.limit, u)  BY <1>0, <2>2, <2>3, <2>5, <2>6, <2>7 DEF FullGateway
  <2>9. send'.pc = "leave" /\ send'.limit = r.limit /\ ~send'.err  BY <1>0, <2>1, Zenon DEF SendRecords, Ended
  <2>10. GatewayAfter(send', sample', u)  BY <1>2a, <2>8, <2>9, Zenon DEF GatewayAfter
  <2>11. QED  BY <2>10, GatewayThen, Zenon DEF u
<1>4. CASE r.seq # MaxAttempts /\ Exhausted(r)
  <2>1. sample' = s /\ send' = [r EXCEPT !.pc = "leave", !.err = TRUE]  BY <1>4, Zenon DEF EndsAttempt
  <2>2. send'.pc = "leave" /\ send'.err  BY <1>0, <2>1, Zenon DEF SendRecords
  <2>3. u >= Seconds(s.timeouts) /\ (s.sends > 1 => u >= Seconds(s.sends - 1))  BY <1>0, <1>1, <1>2 DEF Ended
  <2> HIDE DEF u
  <2>4. PartialGateway(s, u)  BY <1>0, <1>1, <2>3 DEF Ended, PartialGateway, u
  <2>5. GatewayAfter(send', sample', u)  BY <1>2a, <2>1, <2>2, <2>4, Zenon DEF GatewayAfter
  <2>6. QED  BY <2>5, GatewayThen DEF u
<1>5. CASE r.seq # MaxAttempts /\ ~Exhausted(r)
  <2>1. sample' = s /\ send' = [r EXCEPT !.pc = "pace", !.seq = r.seq + 1]  BY <1>5, Zenon DEF EndsAttempt
  <2>2. /\ send'.pc = "pace" /\ send'.seq = r.seq + 1 /\ send'.err = r.err /\ send'.limit = r.limit
        /\ send'.lastSend = r.lastSend /\ send'.rtt = r.rtt
    BY <1>0, <1>1, <2>1, Zenon DEF SendRecords
  <2>3. r.seq + 1 \in 1..3  BY <1>1, <1>5, Timings
  <2> HIDE DEF u
  <2>4. Counting(s, send', u)  BY <1>0, <1>1, <2>2, <2>3 DEF Ended, Counting, u
  <2>5. GatewayAfter(send', sample', u)  BY <1>2a, <2>1, <2>2, <2>4, Zenon DEF GatewayAfter
  <2>6. QED  BY <2>5, GatewayThen DEF u
<1>6. QED  BY <1>3, <1>4, <1>5, Zenon

LEMMA TimedOut ==
  ASSUME Calmly, NEW r, LocalsOf(r), r.pc = "receive", NEW t \in Nat, t <= clk'.mono, Counting(sample, r, t),
         clk'.mono < r.limit, clk'.mono >= r.sentAt + Second, TimesOut(r)
  PROVE  GatewayInv'
<1> DEFINE u == clk'.mono
           s == [sample EXCEPT !.timeouts = @ + 1]
<1>0. u \in Nat /\ r \in SendRecords  BY CalmFacts, Zenon DEF LocalsOf
<1>1. /\ sample \in GatewaySamples /\ ~r.err /\ r.seq \in 1..3 /\ r.limit \in Nat
      /\ sample.sends = r.seq /\ sample.accepted = r.seq /\ sample.replies \in 0..2 /\ sample.timeouts \in 0..2
      /\ sample.completed = Absent /\ ~sample.complete /\ sample.mean = Absent
      /\ sample.replies + sample.timeouts = r.seq - 1
      /\ r.lastSend \in Nat /\ r.lastSend <= t /\ r.rtt \in Nat /\ r.sentAt \in Int
  BY <1>0, CountingFacts, Zenon
<1>2. /\ s \in GatewaySamples /\ s.sends = r.seq /\ s.accepted = r.seq /\ s.replies = sample.replies
      /\ s.timeouts = sample.timeouts + 1 /\ s.completed = Absent /\ ~s.complete /\ s.mean = Absent
  <2>1. sample.timeouts + 1 \in Nat /\ s = [sample EXCEPT !.timeouts = sample.timeouts + 1]  BY <1>1
  <2> HIDE DEF s
  <2>2. QED  BY <1>1, <2>1, Zenon DEF GatewaySamples
<1>3. /\ r.rtt <= r.sentAt /\ r.sentAt >= Seconds(sample.timeouts)
      /\ r.rtt + sample.replies <= Seconds(sample.replies)
      /\ sample.sends > 1 => r.lastSend >= Seconds(sample.sends - 1)
  BY Zenon DEF Counting
<1>4. u >= Seconds(sample.timeouts + 1)
  <2>1. Seconds(sample.timeouts + 1) = Seconds(sample.timeouts) + Second /\ Seconds(sample.timeouts) \in Nat
    BY <1>1, SecondsAre, Timings
  <2>2. QED  BY <1>0, <1>1, <1>3, <2>1, Timings
<1>5. r.lastSend <= u /\ r.rtt <= u  BY <1>0, <1>1, <1>3, Timings
<1>6. EndsAttempt(r, s)  BY Zenon DEF TimesOut
<1> HIDE DEF s, u
<1>7. Ended(r, s, u)  BY <1>0, <1>1, <1>2, <1>3, <1>4, <1>5 DEF Ended, u
<1>8. QED  BY <1>6, <1>7, AttemptEnds, Zenon DEF u

LEMMA GatewayReceives ==
  ASSUME Calmly, send.kind = "gateway", GatewayInv, GatewayReceive
  PROVE  GatewayInv'
<1> DEFINE t == clk.mono
           u == clk'.mono
           read == [send EXCEPT !.reads = @ + 1]
           got == [read EXCEPT !.received = @ + 1]
           wait == u - send.sentAt
           timed == [got EXCEPT !.rtt = @ + wait]
           heard == [sample EXCEPT !.replies = @ + 1]
<1>0. t \in Nat /\ u \in Nat /\ t <= u /\ send \in SendRecords /\ send' \in SendRecords  BY CalmFacts
<1>1. send.pc = "receive" /\ Counting(sample, send, t)  BY Zenon DEF GatewayReceive, At, GatewayInv
<1>2. /\ sample \in GatewaySamples /\ ~send.err /\ send.seq \in 1..3 /\ send.limit \in Nat /\ t < send.limit
      /\ sample.sends = send.seq /\ sample.accepted = send.seq /\ sample.replies \in 0..2
      /\ sample.timeouts \in 0..2 /\ sample.completed = Absent /\ ~sample.complete /\ sample.mean = Absent
      /\ sample.replies + sample.timeouts = send.seq - 1
      /\ send.lastSend \in Nat /\ send.lastSend <= t /\ send.rtt \in Nat /\ send.sentAt \in Int
  BY <1>0, <1>1, CountingFacts, Zenon
<1>3. wait \in Int  BY <1>0, <1>2
<1>4. SenderTyped  BY Zenon DEF Calmly
<1>5. LocalsOf(send) /\ LocalsOf(read) /\ LocalsOf(got) /\ LocalsOf(timed)  BY <1>3, <1>4, Counted, Zenon
<1>6. ASSUME NEW r \in {read, got}
      PROVE  /\ r.pc = "receive" /\ r.err = send.err /\ r.seq = send.seq /\ r.limit = send.limit
             /\ r.lastSend = send.lastSend /\ r.rtt = send.rtt /\ r.sentAt = send.sentAt
  BY <1>0, <1>1, Zenon DEF SendRecords
<1>7. /\ timed.pc = "receive" /\ timed.err = send.err /\ timed.seq = send.seq /\ timed.limit = send.limit
      /\ timed.lastSend = send.lastSend /\ timed.rtt = send.rtt + wait /\ timed.sentAt = send.sentAt
  <2>1. got \in SendRecords  BY <1>5, Zenon DEF LocalsOf
  <2> HIDE DEF got, wait
  <2>2. QED  BY <1>6, <2>1, Zenon DEF SendRecords
<1>8. /\ heard \in GatewaySamples /\ heard.sends = send.seq /\ heard.accepted = send.seq
      /\ heard.replies = sample.replies + 1 /\ heard.timeouts = sample.timeouts
      /\ heard.completed = Absent /\ ~heard.complete /\ heard.mean = Absent
  <2>1. sample.replies + 1 \in Nat /\ heard = [sample EXCEPT !.replies = sample.replies + 1]  BY <1>2
  <2> HIDE DEF heard
  <2>2. QED  BY <1>2, <2>1, Zenon DEF GatewaySamples
<1>9. \/ /\ u = t /\ t >= send.sentAt + Second /\ TimesOut(send)
      \/ Leaves(sample)
      \/ ~ClockFails /\ send' \in {read, got} /\ sample' = sample
      \/ ~ClockFails /\ u >= send.sentAt + Second /\ TimesOut(got)
      \/ ~ClockFails /\ ~(u >= send.sentAt + Second) /\ EndsAttempt(timed, heard)
  BY Timings, Zenon DEF GatewayReceive, ArrivesLate
<1> HIDE DEF read, got, timed, heard
<1>10. /\ send.rtt <= send.sentAt /\ send.sentAt <= t /\ send.sentAt >= Seconds(sample.timeouts)
       /\ send.rtt + sample.replies <= Seconds(sample.replies)
       /\ sample.sends > 1 => send.lastSend >= Seconds(sample.sends - 1)
  BY <1>1, Zenon DEF Counting
<1>11. CASE u = t /\ t >= send.sentAt + Second /\ TimesOut(send)
  BY <1>0, <1>1, <1>2, <1>5, <1>11, TimedOut, Zenon
<1>12. CASE Leaves(sample)
  <2>1. PartialGateway(sample, u) /\ 0 < send.limit  BY <1>0, <1>1, CountingIsPartial, Zenon
  <2>2. QED  BY <1>12, <2>1, GatewayLeaves
<1>13. ASSUME NEW r \in {read, got}, ~ClockFails
       PROVE  u < r.limit /\ Counting(sample, r, u) /\ Counting(sample, r, t)
  <2>1. u < send.limit  BY <1>13, ClockHolds, Zenon
  <2>2. send.lastSend <= u /\ send.sentAt <= u  BY <1>0, <1>2, <1>10
  <2>3. /\ r.pc = "receive" /\ r.err = send.err /\ r.seq = send.seq /\ r.limit = send.limit
        /\ r.lastSend = send.lastSend /\ r.rtt = send.rtt /\ r.sentAt = send.sentAt
    BY <1>6, Zenon
  <2> HIDE DEF t, u
  <2>4. Counting(sample, r, t)  BY <1>1, <2>3, Zenon DEF Counting
  <2>5. QED  BY <1>1, <2>1, <2>2, <2>3, <2>4, Zenon DEF Counting
<1>14. CASE ~ClockFails /\ send' \in {read, got} /\ sample' = sample
  <2>1. Counting(sample', send', u) /\ send'.pc = "receive"  BY <1>6, <1>13, <1>14, Zenon
  <2>2. 0 < send'.limit  BY <1>0, <1>2, CalmFacts
  <2>3. GatewayAfter(send', sample', u)  BY <2>1, <2>2, Zenon DEF GatewayAfter
  <2>4. QED  BY <2>3, GatewayThen
<1>15. CASE ~ClockFails /\ u >= send.sentAt + Second /\ TimesOut(got)
  BY <1>0, <1>5, <1>6, <1>13, <1>15, TimedOut, Zenon
<1>16. CASE ~ClockFails /\ ~(u >= send.sentAt + Second) /\ EndsAttempt(timed, heard)
  <2>1. u < send.limit  BY <1>16, ClockHolds, Zenon
  <2>2. send.lastSend <= u /\ Seconds(sample.timeouts) \in Nat /\ u >= Seconds(sample.timeouts)
    BY <1>0, <1>2, <1>10, SecondsAre
  <2>3. wait \in Nat /\ wait + 1 <= Second  BY <1>0, <1>2, <1>10, <1>16, Timings
  <2>4. send.rtt + wait <= u  BY <1>0, <1>2, <1>10
  <2>5. send.rtt + wait + (sample.replies + 1) <= Seconds(sample.replies + 1)
    <3>1. Seconds(sample.replies + 1) = Seconds(sample.replies) + Second /\ Seconds(sample.replies) \in Nat
      BY <1>2, SecondsAre, Timings
    <3> HIDE DEF wait
    <3>2. QED  BY <1>2, <1>10, <2>3, <3>1, Timings
  <2> HIDE DEF wait, u
  <2>6. Ended(timed, heard, u)
    BY <1>2, <1>7, <1>8, <1>10, <2>1, <2>2, <2>3, <2>4, <2>5 DEF Ended
  <2>7. QED  BY <1>5, <1>16, <2>6, AttemptEnds, Zenon DEF u
<1>17. QED  BY <1>9, <1>11, <1>12, <1>14, <1>15, <1>16, Zenon

LEMMA GatewayPaces ==
  ASSUME Calmly, send.kind = "gateway", GatewayInv, GatewayPace
  PROVE  GatewayInv'
<1> DEFINE t == clk.mono
           u == clk'.mono
<1>0. t \in Nat /\ u \in Nat /\ t <= u /\ send \in SendRecords /\ send' \in SendRecords  BY CalmFacts
<1>1. send.pc = "pace" /\ Counting(sample, send, t)  BY Zenon DEF GatewayPace, At, GatewayInv
<1>2. Leaves(sample) \/ (~ClockFails /\ Goes("verify") /\ sample' = sample)  BY Zenon DEF GatewayPace
<1>3. CASE Leaves(sample)
  <2>1. PartialGateway(sample, u) /\ 0 < send.limit  BY <1>0, <1>1, CountingIsPartial, Zenon
  <2>2. QED  BY <1>3, <2>1, GatewayLeaves
<1>4. CASE ~ClockFails /\ Goes("verify") /\ sample' = sample
  <2>1. /\ send'.pc = "verify" /\ send'.err = send.err /\ send'.seq = send.seq /\ send'.limit = send.limit
        /\ send'.lastSend = send.lastSend /\ send'.rtt = send.rtt
    BY <1>0, <1>4, Zenon DEF Goes, SendRecords
  <2>2. u < send.limit  BY <1>4, ClockHolds, Zenon
  <2>3. /\ send.lastSend \in Nat /\ send.lastSend <= t /\ send.rtt \in Nat /\ send.rtt <= t
        /\ Seconds(sample.timeouts) \in Nat /\ t >= Seconds(sample.timeouts)
    BY <1>0, <1>1, CountingFacts, SecondsAre DEF Counting
  <2>4. send.lastSend <= u /\ send.rtt <= u /\ u >= Seconds(sample.timeouts)  BY <1>0, <2>3
  <2> HIDE DEF t, u
  <2>5. Counting(sample', send', u)  BY <1>1, <1>4, <2>1, <2>2, <2>4, Zenon DEF Counting
  <2>6. GatewayAfter(send', sample', u)  BY <1>0, <2>1, <2>2, <2>5, CalmFacts DEF GatewayAfter
  <2>7. QED  BY <2>6, GatewayThen DEF u
<1>5. QED  BY <1>2, <1>3, <1>4, Zenon

(* A sample of a gateway check that left the loop is accepted. *)
LEMMA PartialIsValid ==
  ASSUME NEW s, NEW t \in Nat, NEW u \in Nat, t <= u, PartialGateway(s, t)
  PROVE  validateGateway(s, u) /\ s.started = 0
<1>1. /\ s.sends \in 0..3 /\ s.accepted \in Nat /\ s.replies \in Nat /\ s.timeouts \in 0..3 /\ s.started = 0
      /\ s.completed = Absent /\ ~s.complete /\ s.mean = Absent /\ s.complete \in BOOLEAN
  BY DEF PartialGateway, GatewaySamples
<1>2. s.sends > 1 => (s.sends - 1) * Second = Seconds(s.sends - 1)
  <2>1. s.sends > 1 => s.sends - 1 \in 0..3  BY <1>1
  <2>2. QED  BY <2>1, SecondsAre, Zenon
<1>3. s.timeouts * Second = Seconds(s.timeouts) /\ Seconds(s.timeouts) \in Nat  BY <1>1, SecondsAre, Zenon
<1>4. s.sends > 1 => Seconds(s.sends - 1) \in Nat
  <2>1. s.sends > 1 => s.sends - 1 \in 0..3  BY <1>1
  <2>2. QED  BY <2>1, SecondsAre, Zenon
<1>5. /\ u - s.started >= IF s.sends > 1 THEN (s.sends - 1) * Second ELSE 0
      /\ u - s.started >= s.timeouts * Second
  <2>1. s.sends > 1 => t >= Seconds(s.sends - 1)  BY Zenon DEF PartialGateway
  <2>2. t >= Seconds(s.timeouts)  BY Zenon DEF PartialGateway
  <2>3. QED  BY <1>1, <1>2, <1>3, <1>4, <2>1, <2>2
<1>6. /\ s.accepted <= s.sends /\ s.sends - s.accepted <= 1 /\ s.replies + s.timeouts <= s.accepted
      /\ s.accepted - (s.replies + s.timeouts) <= 1
      /\ s.sends > s.accepted => s.replies + s.timeouts = s.accepted
  BY Zenon DEF PartialGateway
<1>7. QED  BY <1>1, <1>5, <1>6 DEF validateGateway

LEMMA FullIsValid ==
  ASSUME NEW s, NEW limit \in Nat, limit <= 5 * Second, NEW t \in Nat, NEW u \in Nat, t <= u,
         FullGateway(s, limit, t)
  PROVE  /\ s.started = 0 /\ s.completed \in Nat /\ s.completed < limit /\ s.complete
         /\ validateGateway(s, u)
         /\ validateGateway([s EXCEPT !.complete = FALSE, !.mean = Absent], u)
<1>1. /\ s \in GatewaySamples /\ s.sends = 3 /\ s.accepted = 3 /\ s.replies \in 0..3 /\ s.timeouts \in 0..3
      /\ s.started = 0 /\ s.replies + s.timeouts = 3 /\ s.complete = TRUE
      /\ s.completed \in Nat /\ s.completed <= t /\ s.completed < limit /\ s.completed # Absent
  BY Timings DEF FullGateway, GatewaySamples
<1>2. /\ s.completed - s.started < 5 * Second
      /\ s.completed - s.started >= 2 * Second /\ 2 * Second = (s.sends - 1) * Second
      /\ s.completed - s.started >= s.timeouts * Second
  <2>1. s.timeouts * Second = Seconds(s.timeouts)  BY <1>1, SecondsAre, Zenon
  <2>2. s.completed >= 2 * Second /\ s.completed >= Seconds(s.timeouts)  BY Zenon DEF FullGateway
  <2>3. QED  BY <1>1, <2>1, <2>2, Timings
<1>3. IF s.replies = 0 THEN s.mean = Absent
      ELSE s.mean \in Nat /\ s.mean # Absent /\ s.mean < Second /\ s.mean <= s.completed - s.started
  BY <1>1, Timings DEF FullGateway
<1>4. validateGateway(s, u)  BY <1>1, <1>2, <1>3 DEF validateGateway
<1> DEFINE n == [s EXCEPT !.complete = FALSE, !.mean = Absent]
<1>5. /\ n.sends = s.sends /\ n.accepted = s.accepted /\ n.replies = s.replies /\ n.timeouts = s.timeouts
      /\ n.started = s.started /\ n.completed = s.completed /\ n.complete = FALSE /\ n.mean = Absent
  BY <1>1, Zenon DEF GatewaySamples
<1> HIDE DEF n
<1>6. validateGateway(n, u)  BY <1>1, <1>2, <1>5 DEF validateGateway
<1>7. QED  BY <1>1, <1>4, <1>6, Zenon DEF n

(* The run control accepts what is returned. *)
Accepted == validateSample(sample, send.err, clk.wall)

LEMMA NothingAccepted ==
  ASSUME sample' = Zero, send'.err
  PROVE  Accepted'
BY Zenon DEF Accepted, validateSample, Zero

LEMMA GatewayAccepted ==
  ASSUME send'.kind = "gateway", NEW s, NEW w, sample' = s, clk'.wall = w, s # Zero,
         s.started = 0, 0 < send'.expires,
         s.completed # Absent => s.completed < send'.expires,
         (s.complete = TRUE /\ send'.err = FALSE) \/ (s.complete = FALSE /\ send'.err = TRUE),
         validateGateway(s, w)
  PROVE  Accepted'
<1>1. validateGateway(sample', clk'.wall)  BY Zenon
<1>2. sample' # Zero /\ sample'.complete = ~send'.err  BY Zenon
<1>3. sample'.started >= 0 /\ sample'.started < send'.expires  OBVIOUS
<1>4. sample'.completed # Absent => sample'.completed < send'.expires  BY Zenon
<1>5. QED  BY <1>1, <1>2, <1>3, <1>4, Zenon DEF Accepted, validateSample, Complete, validateGateway, Zero, Absent

LEMMA GatewayReturns ==
  ASSUME Calmly, send.kind = "gateway", GatewayInv, Return
  PROVE  GatewayInv' /\ Accepted'
<1> DEFINE t == clk.mono
           u == clk'.mono
<1>0. /\ t \in Nat /\ u \in Nat /\ t <= u /\ send \in SendRecords /\ send' \in SendRecords /\ clk'.wall = u
      /\ send'.kind = "gateway" /\ send.limit \in Nat /\ send.limit <= send.expires /\ send.expires \in Nat
      /\ send.limit <= 5 * Second /\ send'.expires = send.expires
  BY CalmFacts, Timings, Zenon DEF SendRecords
<1>1. Closed(sample) = sample /\ ~Withheld(sample)  BY Zenon DEF Closed, Withheld
<1>2. PICK fails \in BOOLEAN :
         /\ fails => send.conn
         /\ send' = [send EXCEPT !.pc = "returned", !.err = send.err \/ fails]
         /\ sample' = IF fails THEN [sample EXCEPT !.complete = FALSE, !.mean = Absent] ELSE sample
  <2>1. PICK fails \in IF send.conn THEN BOOLEAN ELSE {FALSE} :
           /\ send' = [send EXCEPT !.pc = "returned", !.err = @ \/ fails \/ Withheld(Closed(sample))]
           /\ sample' = IF Withheld(Closed(sample)) THEN Zero
                        ELSE IF fails /\ send.kind = "gateway"
                        THEN [Closed(sample) EXCEPT !.complete = FALSE, !.mean = Absent] ELSE Closed(sample)
    BY Zenon DEF Return
  <2>2. fails \in BOOLEAN /\ (fails => send.conn)  BY <2>1, Zenon
  <2>3. (send.err \/ fails \/ Withheld(Closed(sample))) = (send.err \/ fails)  BY <1>1, Zenon
  <2>4. QED  BY <1>1, <2>1, <2>2, <2>3, Zenon
<1>3. send'.pc = "returned" /\ send'.err = (send.err \/ fails)  BY <1>0, <1>2, Zenon DEF SendRecords
<1>4. send.pc = "leave"  BY Zenon DEF Return
<1>5. sample # Zero => 0 < send.limit  BY Zenon DEF GatewayInv
<1>6. CASE sample = Zero
  <2>1. send.err /\ ~fails
    <3>1. ~FullGateway(sample, send.limit, t) /\ ~PartialGateway(sample, t)
      BY <1>6, NotZero, Zenon DEF FullGateway, PartialGateway
    <3>2. QED  BY <1>2, <1>4, <3>1, Zenon DEF GatewayInv
  <2>2. sample' = Zero /\ send'.err  BY <1>2, <1>3, <1>6, <2>1, Zenon
  <2>3. GatewayAfter(send', sample', u)  BY <1>3, <2>2, Zenon DEF GatewayAfter
  <2>4. QED  BY <2>2, <2>3, NothingAccepted, GatewayThen, Zenon
<1>7. CASE PartialGateway(sample, t) /\ send.err /\ sample # Zero
  <2>1. sample \in GatewaySamples /\ sample.completed = Absent /\ sample.mean = Absent /\ sample.complete = FALSE
    BY <1>7, Zenon DEF PartialGateway, GatewaySamples
  <2>2. [sample EXCEPT !.complete = FALSE, !.mean = Absent] = sample  BY <2>1, Zenon DEF GatewaySamples
  <2>3. sample' = sample /\ send'.err = TRUE  BY <1>2, <1>3, <1>7, <2>2, Zenon
  <2>4. validateGateway(sample, u) /\ sample.started = 0  BY <1>0, <1>7, PartialIsValid, Zenon
  <2>5. 0 < send'.expires  BY <1>0, <1>5, <1>7
  <2>8. Accepted'  BY <1>0, <1>7, <2>1, <2>3, <2>4, <2>5, GatewayAccepted, Zenon
  <2>6. GatewayAfter(send', sample', u)  BY <1>0, <1>3, <1>5, <2>3, CalmFacts, Zenon DEF GatewayAfter
  <2>9. QED  BY <2>6, <2>8, GatewayThen, Zenon
<1>8. CASE FullGateway(sample, send.limit, t) /\ ~send.err
  <2> DEFINE dropped == [sample EXCEPT !.complete = FALSE, !.mean = Absent]
  <2>1. /\ sample.started = 0 /\ sample.completed \in Nat /\ sample.completed < send.limit /\ sample.complete
        /\ validateGateway(sample, u) /\ validateGateway(dropped, u)
    BY <1>0, <1>8, FullIsValid, Zenon
  <2>2. sample \in GatewaySamples /\ sample # Zero  BY <1>8, NotZero, Zenon DEF FullGateway
  <2>3. /\ dropped \in GatewaySamples /\ dropped.complete = FALSE /\ dropped.started = 0
        /\ dropped.completed = sample.completed
    BY <2>1, <2>2, Zenon DEF GatewaySamples
  <2>4. dropped # Zero  BY <2>3, NotZero, Zenon
  <2> HIDE DEF dropped
  <2>5. sample' = IF fails THEN dropped ELSE sample  BY <1>2, Zenon DEF dropped
  <2>6. sample.complete = TRUE  BY <2>1, <2>2, Zenon DEF GatewaySamples
  <2>7. 0 < send'.expires /\ sample.completed < send'.expires  BY <1>0, <1>5, <2>1, <2>2
  <2>8. Accepted'
    <3>1. CASE fails
      <4>1. sample' = dropped /\ send'.err = TRUE  BY <1>3, <2>5, <3>1, Zenon
      <4>2. QED  BY <1>0, <2>1, <2>3, <2>4, <2>7, <4>1, GatewayAccepted, Zenon
    <3>2. CASE ~fails
      <4>1. sample' = sample /\ send'.err = FALSE  BY <1>3, <1>8, <2>5, <3>2, Zenon
      <4>2. QED  BY <1>0, <2>1, <2>2, <2>6, <2>7, <4>1, GatewayAccepted, Zenon
    <3>3. QED  BY <3>1, <3>2, Zenon
  <2>9. GatewayAfter(send', sample', u)  BY <1>0, <1>3, <1>5, <2>2, CalmFacts, Zenon DEF GatewayAfter
  <2>10. QED  BY <2>8, <2>9, GatewayThen, Zenon
<1>9. QED  BY <1>4, <1>6, <1>7, <1>8, Zenon DEF GatewayInv

-------------------------------------------------------------------------------
(* The resolver check *)

ResolverAfter(r, s, u) ==
    /\ r.pc \in {"lookup", "open", "verify", "send", "receive", "confirm", "leave", "returned"}
    /\ r.pc \in {"lookup", "open", "verify", "send", "receive", "confirm"} =>
          ~r.err /\ Unanswered(s, u) /\ s.exchange = "incomplete"
    /\ r.pc \in {"lookup", "open", "verify", "send", "receive"} => r.arrived = Absent
    /\ r.pc \in {"send", "receive", "confirm"} => r.sentAt = s.started
    /\ r.pc \in {"receive", "confirm"} => s.request = "accepted"
    /\ r.pc = "confirm" =>
          IF r.arrived = Absent THEN u - s.started >= 2 * Second
          ELSE s.started <= r.arrived /\ r.arrived <= u
    /\ r.pc = "leave" =>
          IF r.err THEN \/ s = Zero
                        \/ Unanswered(s, u) /\ s.exchange \in {"incomplete", "transport-error"}
          ELSE Answered(s, u)

LEMMA ResolverThen == ResolverInv' <=> ResolverAfter(send', sample', clk'.mono)
BY Zenon DEF ResolverInv, ResolverAfter, Unanswered, Answered, ResolverSamples, Zero, Absent

LEMMA StillUnanswered ==
  ASSUME NEW s, NEW t \in Nat, NEW u \in Nat, t <= u, Unanswered(s, t)
  PROVE  Unanswered(s, u) /\ s.started \in Nat
BY DEF Unanswered, ResolverSamples

LEMMA RequestEdits ==
  ASSUME NEW s, NEW u, Unanswered(s, u), NEW request \in {"not-sent", "uncertain", "accepted"}
  PROVE  /\ Unanswered([s EXCEPT !.request = request], u)
         /\ [s EXCEPT !.request = request].request = request
         /\ [s EXCEPT !.request = request].exchange = s.exchange
         /\ [s EXCEPT !.request = request].started = s.started
BY Zenon DEF Unanswered, ResolverSamples

LEMMA ExchangeEdits ==
  ASSUME NEW s, NEW u, Unanswered(s, u),
         NEW exchange \in {"incomplete", "transport-error", "timeout", "response-received"}
  PROVE  /\ Unanswered([s EXCEPT !.exchange = exchange], u)
         /\ [s EXCEPT !.exchange = exchange].exchange = exchange
         /\ [s EXCEPT !.exchange = exchange].request = s.request
         /\ [s EXCEPT !.exchange = exchange].started = s.started
BY Zenon DEF Unanswered, ResolverSamples

LEMMA ResolverLeaves ==
  ASSUME Calmly, NEW s, Leaves(s),
         s = Zero \/ (Unanswered(s, clk'.mono) /\ s.exchange \in {"incomplete", "transport-error"})
  PROVE  ResolverInv'
<1>1. sample' = s /\ send'.pc = "leave" /\ send'.err  BY CalmFacts, Zenon DEF Leaves, SendRecords
<1>2. ResolverAfter(send', sample', clk'.mono)  BY <1>1, Zenon DEF ResolverAfter
<1>3. QED  BY <1>2, ResolverThen, Zenon

(* What every stage before the answer starts from. *)
LEMMA AskingFacts ==
  ASSUME Calmly, send.kind = "resolver", ResolverInv,
         send.pc \in {"lookup", "open", "verify", "send", "receive", "confirm"}
  PROVE  /\ ~send.err /\ Unanswered(sample, clk'.mono) /\ sample.exchange = "incomplete"
         /\ send.pc # "confirm" => send.arrived = Absent
         /\ send.pc \in {"send", "receive", "confirm"} => send.sentAt = sample.started
         /\ send.pc \in {"receive", "confirm"} => sample.request = "accepted"
         /\ clk.mono \in Nat /\ clk'.mono \in Nat /\ sample.started \in Nat /\ clk.mono <= clk'.mono
         /\ send \in SendRecords /\ clk'.wall = clk'.mono
BY CalmFacts, StillUnanswered, Zenon DEF ResolverInv

LEMMA ResolverOpens ==
  ASSUME Calmly, send.kind = "resolver", ResolverInv, CheckRoute \/ Open
  PROVE  ResolverInv'
<1>1. send.pc \in {"lookup", "open"}  BY Zenon DEF CheckRoute, Open
<1>2. /\ ~send.err /\ Unanswered(sample, clk'.mono) /\ sample.exchange = "incomplete"
      /\ send.arrived = Absent /\ send \in SendRecords
  BY <1>1, AskingFacts, Zenon
<1>3. CASE \E s \in {Zero, sample} : Leaves(s)
  <2>1. PICK s \in {Zero, sample} : Leaves(s)  BY <1>3, Zenon
  <2>2. QED  BY <1>2, <2>1, ResolverLeaves, Zenon
<1>4. ASSUME UNCHANGED sample, send'.pc \in {"open", "verify"}, send'.err = send.err, send'.arrived = send.arrived
      PROVE  ResolverInv'
  <2>1. ResolverAfter(send', sample', clk'.mono)  BY <1>2, <1>4, Zenon DEF ResolverAfter
  <2>2. QED  BY <2>1, ResolverThen, Zenon
<1>5. CASE Goes("open") /\ UNCHANGED sample
  <2>1. send'.pc = "open" /\ send'.err = send.err /\ send'.arrived = send.arrived
    BY <1>2, <1>5, Zenon DEF Goes, SendRecords
  <2>2. QED  BY <1>4, <1>5, <2>1, Zenon
<1>6. CASE send' = [send EXCEPT !.pc = "verify", !.conn = TRUE] /\ UNCHANGED sample
  <2>1. send'.pc = "verify" /\ send'.err = send.err /\ send'.arrived = send.arrived
    BY <1>2, <1>6, Zenon DEF SendRecords
  <2>2. QED  BY <1>4, <1>6, <2>1, Zenon
<1>7. CASE send' = [send EXCEPT !.pc = "leave", !.err = TRUE, !.conn = TRUE] /\ UNCHANGED sample
  <2>1. send'.pc = "leave" /\ send'.err  BY <1>2, <1>7, Zenon DEF SendRecords
  <2>2. ResolverAfter(send', sample', clk'.mono)  BY <1>2, <1>7, <2>1, Zenon DEF ResolverAfter
  <2>3. QED  BY <2>2, ResolverThen
<1>8. QED  BY <1>3, <1>5, <1>6, <1>7, Zenon DEF CheckRoute, Open

LEMMA ResolverVerifies ==
  ASSUME Calmly, send.kind = "resolver", ResolverInv, Verify
  PROVE  ResolverInv'
<1> DEFINE u == clk'.mono
           s == [sample EXCEPT !.started = clk'.wall]
<1>0. send.pc = "verify"  BY Zenon DEF Verify
<1>1. /\ ~send.err /\ Unanswered(sample, u) /\ sample.exchange = "incomplete"
      /\ send.arrived = Absent /\ send \in SendRecords /\ u \in Nat /\ clk'.wall = u
  BY <1>0, AskingFacts, Zenon
<1>2. Unanswered(s, u) /\ s.started = u /\ s.exchange = "incomplete"  BY <1>1 DEF Unanswered, ResolverSamples
<1>3. CASE Leaves(sample)  BY <1>1, <1>3, ResolverLeaves, Zenon
<1>4. CASE send' = [send EXCEPT !.pc = "send", !.sentAt = clk'.mono] /\ sample' = s
  <2>1. send'.pc = "send" /\ send'.sentAt = u /\ send'.err = send.err /\ send'.arrived = send.arrived
    BY <1>1, <1>4, Zenon DEF SendRecords
  <2> HIDE DEF s
  <2>2. ResolverAfter(send', sample', u)  BY <1>1, <1>2, <1>4, <2>1, Zenon DEF ResolverAfter
  <2>3. QED  BY <2>2, ResolverThen, Zenon
<1>5. QED  BY <1>3, <1>4, Zenon DEF Verify

LEMMA ResolverSends ==
  ASSUME Calmly, send.kind = "resolver", ResolverInv, ResolverSend
  PROVE  ResolverInv'
<1> DEFINE u == clk'.mono
<1>0. send.pc = "send"  BY Zenon DEF ResolverSend, At
<1>1. /\ ~send.err /\ Unanswered(sample, u) /\ sample.exchange = "incomplete"
      /\ send.arrived = Absent /\ send \in SendRecords /\ send.sentAt = sample.started
  BY <1>0, AskingFacts, Zenon
<1>2. PICK request \in {"not-sent", "uncertain", "accepted"} :
         \/ Leaves([sample EXCEPT !.request = request])
         \/ Leaves([[sample EXCEPT !.request = request] EXCEPT !.exchange = "transport-error"])
         \/ request = "accepted" /\ Goes("receive") /\ sample' = [sample EXCEPT !.request = request]
  BY Zenon DEF ResolverSend
<1> DEFINE s == [sample EXCEPT !.request = request]
<1>3. Unanswered(s, u) /\ s.request = request /\ s.exchange = "incomplete" /\ s.started = sample.started
  BY <1>1, RequestEdits
<1>4. \/ Leaves(s) \/ Leaves([s EXCEPT !.exchange = "transport-error"])
      \/ request = "accepted" /\ Goes("receive") /\ sample' = s
  BY <1>2, Zenon
<1> HIDE DEF s
<1>5. CASE Leaves(s)  BY <1>3, <1>5, ResolverLeaves, Zenon
<1>6. CASE Leaves([s EXCEPT !.exchange = "transport-error"])
  <2>1. Unanswered([s EXCEPT !.exchange = "transport-error"], u)
        /\ [s EXCEPT !.exchange = "transport-error"].exchange = "transport-error"
    BY <1>3, ExchangeEdits, Zenon
  <2>2. QED  BY <1>6, <2>1, ResolverLeaves, Zenon
<1>7. CASE request = "accepted" /\ Goes("receive") /\ sample' = s
  <2>1. send'.pc = "receive" /\ send'.err = send.err /\ send'.arrived = send.arrived /\ send'.sentAt = send.sentAt
    BY <1>1, <1>7, Zenon DEF Goes, SendRecords
  <2>2. ResolverAfter(send', sample', u)  BY <1>1, <1>3, <1>7, <2>1, Zenon DEF ResolverAfter
  <2>3. QED  BY <2>2, ResolverThen, Zenon
<1>8. QED  BY <1>4, <1>5, <1>6, <1>7, Zenon

LEMMA ResolverReceives ==
  ASSUME Calmly, send.kind = "resolver", ResolverInv, ResolverReceive
  PROVE  ResolverInv'
<1> DEFINE u == clk'.mono
           read == [send EXCEPT !.reads = @ + 1]
           got == [read EXCEPT !.received = @ + 1]
<1>0. send.pc = "receive"  BY Zenon DEF ResolverReceive, At
<1>1. /\ ~send.err /\ Unanswered(sample, u) /\ sample.exchange = "incomplete" /\ send.arrived = Absent
      /\ send \in SendRecords /\ send.sentAt = sample.started /\ sample.request = "accepted"
      /\ u \in Nat /\ clk.mono \in Nat /\ clk.mono <= u /\ clk'.wall = u /\ sample.started \in Nat
  BY <1>0, AskingFacts, Zenon
<1>2. \A r \in {read, got} : /\ r.pc = "receive" /\ r.err = send.err /\ r.arrived = Absent
                             /\ r.sentAt = sample.started /\ r \in SendRecords
  <2>1. read \in SendRecords /\ read.pc = "receive" /\ read.err = send.err /\ read.arrived = Absent
        /\ read.sentAt = sample.started
    BY <1>0, <1>1 DEF SendRecords
  <2> HIDE DEF read
  <2>2. got \in SendRecords /\ got.pc = "receive" /\ got.err = send.err /\ got.arrived = Absent
        /\ got.sentAt = sample.started
    BY <2>1 DEF SendRecords
  <2>3. QED  BY <2>1, <2>2, Zenon
<1>3. \/ Leaves(sample) \/ Leaves([sample EXCEPT !.exchange = "transport-error"])
      \/ clk.mono >= send.sentAt + ExchangeTimeout /\ Goes("confirm") /\ UNCHANGED sample
      \/ send' \in {read, got} /\ UNCHANGED sample
      \/ send' = [got EXCEPT !.pc = "confirm", !.arrived = clk'.wall] /\ UNCHANGED sample
  BY Zenon DEF ResolverReceive
<1> HIDE DEF read, got
<1>4. CASE Leaves(sample)  BY <1>1, <1>4, ResolverLeaves, Zenon
<1>5. CASE Leaves([sample EXCEPT !.exchange = "transport-error"])
  <2>1. Unanswered([sample EXCEPT !.exchange = "transport-error"], u)
        /\ [sample EXCEPT !.exchange = "transport-error"].exchange = "transport-error"
    BY <1>1, ExchangeEdits, Zenon
  <2>2. QED  BY <1>5, <2>1, ResolverLeaves, Zenon
<1>6. CASE clk.mono >= send.sentAt + ExchangeTimeout /\ Goes("confirm") /\ UNCHANGED sample
  <2>1. send'.pc = "confirm" /\ send'.err = send.err /\ send'.arrived = Absent /\ send'.sentAt = send.sentAt
    BY <1>1, <1>6, Zenon DEF Goes, SendRecords
  <2>2. u - sample.started >= 2 * Second  BY <1>1, <1>6, Timings
  <2>3. ResolverAfter(send', sample', u)  BY <1>1, <1>6, <2>1, <2>2, Zenon DEF ResolverAfter
  <2>4. QED  BY <2>3, ResolverThen
<1>7. CASE send' \in {read, got} /\ UNCHANGED sample
  <2>1. send'.pc = "receive" /\ send'.err = send.err /\ send'.arrived = Absent /\ send'.sentAt = sample.started
    BY <1>2, <1>7, Zenon
  <2>2. ResolverAfter(send', sample', u)  BY <1>1, <1>7, <2>1, Zenon DEF ResolverAfter
  <2>3. QED  BY <2>2, ResolverThen
<1>8. CASE send' = [got EXCEPT !.pc = "confirm", !.arrived = clk'.wall] /\ UNCHANGED sample
  <2>1. send'.pc = "confirm" /\ send'.err = send.err /\ send'.arrived = u /\ send'.sentAt = sample.started
    BY <1>1, <1>2, <1>8, Zenon DEF SendRecords
  <2>2. sample.started <= u /\ u # Absent  BY <1>1, Timings DEF Unanswered
  <2>3. ResolverAfter(send', sample', u)  BY <1>1, <1>8, <2>1, <2>2 DEF ResolverAfter
  <2>4. QED  BY <2>3, ResolverThen
<1>9. QED  BY <1>3, <1>4, <1>5, <1>6, <1>7, <1>8, Zenon

LEMMA ResolverConfirms ==
  ASSUME Calmly, send.kind = "resolver", ResolverInv, ResolverConfirm
  PROVE  ResolverInv'
<1> DEFINE u == clk'.mono
           a == send.arrived
           took == a - sample.started
           timedOut == [sample EXCEPT !.exchange = "timeout"]
           replied == [sample EXCEPT !.exchange = "response-received", !.time = took, !.completed = a]
<1>0. send.pc = "confirm"  BY Zenon DEF ResolverConfirm, At
<1>1. /\ ~send.err /\ Unanswered(sample, u) /\ sample.exchange = "incomplete"
      /\ send \in SendRecords /\ send.sentAt = sample.started /\ sample.request = "accepted"
      /\ u \in Nat /\ clk.mono \in Nat /\ clk.mono <= u /\ clk'.wall = u /\ sample.started \in Nat
      /\ send.arrived \in Int
  BY <1>0, AskingFacts, Zenon DEF SendRecords
<1>2. IF a = Absent THEN clk.mono - sample.started >= 2 * Second
      ELSE sample.started <= a /\ a <= clk.mono
  BY <1>0, Zenon DEF ResolverInv
<1>3. \/ Leaves(sample)
      \/ a = Absent /\ Goes("leave") /\ sample' = timedOut
      \/ a # Absent /\ ~(took < 0 \/ took >= ExchangeTimeout) /\ Goes("leave") /\ sample' = replied
  BY Zenon DEF ResolverConfirm
<1>4. CASE Leaves(sample)  BY <1>1, <1>4, ResolverLeaves, Zenon
<1>5. ASSUME Goes("leave"), Answered(sample', u)  PROVE ResolverInv'
  <2>1. send'.pc = "leave" /\ send'.err = send.err  BY <1>1, <1>5, Zenon DEF Goes, SendRecords
  <2>2. ResolverAfter(send', sample', u)  BY <1>1, <1>5, <2>1, Zenon DEF ResolverAfter
  <2>3. QED  BY <2>2, ResolverThen
<1>6. CASE a = Absent /\ Goes("leave") /\ sample' = timedOut
  <2>1. /\ Unanswered(timedOut, u) /\ timedOut.exchange = "timeout" /\ timedOut.request = "accepted"
        /\ timedOut.started = sample.started
    BY <1>1, ExchangeEdits, Zenon
  <2>2. u - sample.started >= 2 * Second  BY <1>1, <1>2, <1>6, Timings
  <2> HIDE DEF timedOut
  <2>3. Answered(timedOut, u)  BY <2>1, <2>2, Zenon DEF Answered, Unanswered
  <2>4. QED  BY <1>5, <1>6, <2>3, Zenon
<1>7. CASE a # Absent /\ ~(took < 0 \/ took >= ExchangeTimeout) /\ Goes("leave") /\ sample' = replied
  <2>1. a \in Nat /\ sample.started <= a /\ a <= u /\ took \in Nat /\ took < 2 * Second
    BY <1>1, <1>2, <1>7, Timings
  <2> HIDE DEF took, a
  <2>2. sample \in ResolverSamples  BY <1>1, Zenon DEF Unanswered
  <2>3. replied \in ResolverSamples  BY <2>1, <2>2, Zenon DEF ResolverSamples
  <2>4. /\ replied.exchange = "response-received" /\ replied.request = "accepted"
        /\ replied.started = sample.started /\ replied.completed = a /\ replied.time = took
    BY <1>1, <2>2, Zenon DEF ResolverSamples
  <2>5. took = replied.completed - replied.started  BY <2>4, Zenon DEF took, a
  <2> HIDE DEF replied
  <2>6. replied.started <= u  BY <1>1, <2>1, <2>4
  <2>7. Answered(replied, u)  BY <2>1, <2>3, <2>4, <2>5, <2>6, Zenon DEF Answered
  <2>8. QED  BY <1>5, <1>7, <2>7, Zenon
<1>8. QED  BY <1>3, <1>4, <1>6, <1>7, Zenon

LEMMA ResolverAccepted ==
  ASSUME send'.kind = "resolver", NEW s, NEW w, sample' = s, clk'.wall = w, s # Zero,
         s.started >= 0, s.started < send'.expires, s.completed < send'.expires,
         s.exchange \in {"response-received", "timeout"} \/ send'.err,
         validateResolver(s, w)
  PROVE  Accepted'
<1>1. validateResolver(sample', clk'.wall)  BY Zenon
<1>2. /\ sample' # Zero /\ sample'.started >= 0 /\ sample'.started < send'.expires
      /\ sample'.completed < send'.expires /\ (sample'.exchange \in {"response-received", "timeout"} \/ send'.err)
  BY Zenon
<1>3. QED  BY <1>1, <1>2, Zenon DEF Accepted, validateSample, Complete, validateResolver, Within, Zero, Absent

(* The end of a query that was not answered, or in time. *)
LEMMA ResolverIsValid ==
  ASSUME NEW s \in ResolverSamples, NEW u \in Nat, s.completed \in Nat, s.started <= s.completed,
         s.completed <= u, u < 5 * Second,
         \/ s.exchange \in {"incomplete", "transport-error"} /\ s.time = Absent
         \/ s.exchange = "timeout" /\ s.request = "accepted" /\ s.completed - s.started >= 2 * Second /\ s.time = Absent
         \/ /\ s.exchange = "response-received" /\ s.request = "accepted"
            /\ s.time = s.completed - s.started /\ s.time < 2 * Second
  PROVE  validateResolver(s, u)
<1>1. s.started \in Nat  BY Zenon DEF ResolverSamples
<1>2. Within(s, u, 5 * Second - 1)  BY <1>1, Timings DEF Within
<1>3. s.exchange = "response-received" => s.time \in 0..(2 * Second - 1)  BY <1>1, Timings
<1>4. QED  BY <1>1, <1>2, <1>3, Timings DEF validateResolver

LEMMA ResolverReturns ==
  ASSUME Calmly, send.kind = "resolver", ResolverInv, Return
  PROVE  ResolverInv' /\ (clk'.wall < send'.limit => Accepted')
<1> DEFINE t == clk.mono
           u == clk'.mono
           closed == [sample EXCEPT !.completed = u]
<1>0. /\ t \in Nat /\ u \in Nat /\ t <= u /\ send \in SendRecords /\ clk'.wall = u /\ clk'.last = u
      /\ send'.kind = "resolver" /\ send'.limit \in Nat /\ send'.limit <= send'.expires /\ send'.expires \in Nat
      /\ send'.limit <= 5 * Second /\ send.err \in BOOLEAN
  BY CalmFacts, Timings, Zenon DEF SendRecords
<1>1. send.pc = "leave"  BY Zenon DEF Return
<1>2. PICK fails \in BOOLEAN :
         /\ send' = [send EXCEPT !.pc = "returned", !.err = send.err \/ fails]
         /\ sample' = Closed(sample)
  <2>1. PICK fails \in IF send.conn THEN BOOLEAN ELSE {FALSE} :
           /\ send' = [send EXCEPT !.pc = "returned", !.err = @ \/ fails \/ Withheld(Closed(sample))]
           /\ sample' = IF Withheld(Closed(sample)) THEN Zero
                        ELSE IF fails /\ send.kind = "gateway"
                        THEN [Closed(sample) EXCEPT !.complete = FALSE, !.mean = Absent] ELSE Closed(sample)
    BY Zenon DEF Return
  <2>2. fails \in BOOLEAN /\ ~Withheld(Closed(sample))  BY <2>1, Zenon DEF Withheld
  <2>3. (send.err \/ fails \/ Withheld(Closed(sample))) = (send.err \/ fails)  BY <2>2, Zenon
  <2>4. QED  BY <2>1, <2>2, <2>3, Zenon
<1>3. send'.pc = "returned" /\ send'.err = (send.err \/ fails)  BY <1>0, <1>2, Zenon DEF SendRecords
<1>4. sample' = IF sample = Zero \/ sample.completed # Absent THEN sample ELSE closed
  BY <1>0, <1>2, Zenon DEF Closed
<1>5. ResolverInv'
  <2>1. ResolverAfter(send', sample', u)  BY <1>3, Zenon DEF ResolverAfter
  <2>2. QED  BY <2>1, ResolverThen, Zenon
<1>6. ASSUME clk'.wall < send'.limit PROVE Accepted'
  <2>0. u < send'.limit /\ u < send'.expires /\ u < 5 * Second  BY <1>0, <1>6, Timings
  <2>1. CASE sample = Zero
    <3>1. send.err
      <4>1. ~Answered(sample, t)  BY <2>1, NotZero, Zenon DEF Answered
      <4>2. QED  BY <1>1, <4>1, Zenon DEF ResolverInv
    <3>2. QED  BY <1>3, <1>4, <2>1, <3>1, NothingAccepted, Zenon
  <2>2. CASE /\ sample \in ResolverSamples /\ sample.completed = Absent /\ sample.time = Absent /\ sample.started <= t
             /\ \/ send.err /\ sample.exchange \in {"incomplete", "transport-error"}
                \/ sample.exchange = "timeout" /\ sample.request = "accepted" /\ t - sample.started >= 2 * Second
    <3>1. sample # Zero /\ sample' = closed  BY <1>4, <2>2, NotZero, Zenon
    <3>2. /\ closed \in ResolverSamples /\ closed.completed = u /\ closed.started = sample.started
          /\ closed.time = Absent /\ closed.exchange = sample.exchange /\ closed.request = sample.request
      BY <1>0, <2>2, Zenon DEF ResolverSamples
    <3> HIDE DEF closed
    <3>3. closed # Zero  BY <3>2, NotZero, Zenon
    <3>4. closed.started \in Nat /\ closed.started <= u /\ (closed.exchange = "timeout" => u - closed.started >= 2 * Second)
      BY <1>0, <2>2, <3>2, Timings DEF ResolverSamples
    <3>5. validateResolver(closed, u)  BY <1>0, <2>0, <2>2, <3>2, <3>4, ResolverIsValid
    <3>6. closed.started >= 0 /\ closed.started < send'.expires /\ closed.completed < send'.expires
      BY <1>0, <2>0, <3>2, <3>4
    <3>7. closed.exchange \in {"response-received", "timeout"} \/ send'.err  BY <1>3, <2>2, <3>2, Zenon
    <3>8. QED  BY <1>0, <3>1, <3>3, <3>5, <3>6, <3>7, ResolverAccepted, Zenon
  <2>3. CASE /\ sample \in ResolverSamples /\ sample.exchange = "response-received" /\ sample.request = "accepted"
             /\ sample.completed \in Nat /\ sample.started <= sample.completed /\ sample.completed <= t
             /\ sample.time = sample.completed - sample.started /\ sample.time < 2 * Second
    <3>1. sample # Zero /\ sample' = sample  BY <1>4, <2>3, NotZero, Timings
    <3>2. sample.started \in Nat /\ sample.completed <= u  BY <1>0, <2>3 DEF ResolverSamples
    <3>3. validateResolver(sample, u)  BY <1>0, <2>0, <2>3, <3>2, ResolverIsValid, Zenon
    <3>4. sample.started >= 0 /\ sample.started < send'.expires /\ sample.completed < send'.expires
      BY <1>0, <2>0, <2>3, <3>2
    <3>5. QED  BY <1>0, <2>3, <3>1, <3>3, <3>4, ResolverAccepted, Zenon
  <2>4. QED  BY <1>1, <2>1, <2>2, <2>3, Zenon DEF ResolverInv, Unanswered, Answered
<1>7. QED  BY <1>5, <1>6, Zenon

-------------------------------------------------------------------------------
(* The HTTPS check *)

HTTPSAfter(r, s, u) ==
    /\ r.pc \in {"lookup", "open", "handshake", "request", "header", "attribute", "leave", "returned"}
    /\ r.pc \in {"lookup", "open"} => s = Zero /\ ~r.err
    /\ r.pc \in {"handshake", "request", "header", "attribute"} => Exchanging(s, r, u) /\ ~r.err
    /\ r.pc \in {"handshake", "request", "header"} => s.exchange = "incomplete"
    /\ r.pc = "attribute" => s.exchange = "response-received"
    /\ r.pc = "leave" =>
          IF r.err THEN s = Zero \/ Exchanging(s, r, u)
          ELSE Exchanging(s, r, u) /\ s.exchange = "response-received"

LEMMA HTTPSThen == HTTPSInv' <=> HTTPSAfter(send', sample', clk'.mono)
BY Zenon DEF HTTPSInv, HTTPSAfter, Exchanging, HTTPSSamples, Zero, Absent

(* A sample that has begun, and what each step may write into it. *)
Begun(s, u) == s \in HTTPSSamples /\ s.started <= u

LEMMA BegunEdits ==
  ASSUME NEW s, NEW u, Begun(s, u)
  PROVE  /\ \A x \in {"connect", "tls", "request"} :
               /\ Begun([s EXCEPT !.stage = x], u)
               /\ [s EXCEPT !.stage = x].exchange = s.exchange
         /\ \A x \in {"not-sent", "uncertain", "accepted"} :
               /\ Begun([s EXCEPT !.request = x], u)
               /\ [s EXCEPT !.request = x].exchange = s.exchange
BY Zenon DEF Begun, HTTPSSamples

LEMMA BegunBreaks ==
  ASSUME NEW s, NEW u, Begun(s, u),
         NEW x \in {"incomplete", "connect-error", "tls-error", "transport-error", "protocol-error", "timeout"}
  PROVE  Begun([s EXCEPT !.exchange = x], u) /\ [s EXCEPT !.exchange = x].exchange = x
BY Zenon DEF Begun, HTTPSSamples

LEMMA HTTPSLeaves ==
  ASSUME Calmly, NEW s, Leaves(s),
         s = Zero \/ (Begun(s, clk'.mono) /\ s.exchange # "response-received")
  PROVE  HTTPSInv'
<1>1. sample' = s /\ send'.pc = "leave" /\ send'.err  BY CalmFacts, Zenon DEF Leaves, SendRecords
<1>2. HTTPSAfter(send', sample', clk'.mono)  BY <1>1, Zenon DEF HTTPSAfter, Exchanging, Begun
<1>3. QED  BY <1>2, HTTPSThen, Zenon

LEMMA HTTPSBreaks ==
  ASSUME Calmly, NEW s, Begun(s, clk'.mono), NEW classes,
         classes \subseteq {"connect-error", "tls-error", "transport-error", "protocol-error"},
         Breaks(s, classes)
  PROVE  HTTPSInv'
<1>1. PICK x \in classes \cup {"timeout", "incomplete"} : Leaves([s EXCEPT !.exchange = x])
  BY Zenon DEF Breaks
<1>2. Begun([s EXCEPT !.exchange = x], clk'.mono) /\ [s EXCEPT !.exchange = x].exchange = x
  BY <1>1, BegunBreaks
<1>3. QED  BY <1>1, <1>2, HTTPSLeaves, Zenon

LEMMA HTTPSGoes ==
  ASSUME Calmly, ~send.err, NEW pc \in {"handshake", "request", "header"}, Goes(pc),
         NEW s, sample' = s, Begun(s, clk'.mono), s.exchange = "incomplete"
  PROVE  HTTPSInv'
<1>1. send'.pc = pc /\ ~send'.err  BY CalmFacts, Zenon DEF Goes, SendRecords
<1>2. HTTPSAfter(send', sample', clk'.mono)  BY <1>1, Zenon DEF HTTPSAfter, Exchanging, Begun
<1>3. QED  BY <1>2, HTTPSThen, Zenon

LEMMA HTTPSOpens ==
  ASSUME Calmly, send.kind = "https", HTTPSInv, CheckRoute \/ Connect
  PROVE  HTTPSInv'
<1>1. send.pc \in {"lookup", "open"} /\ sample = Zero /\ ~send.err  BY Zenon DEF HTTPSInv, CheckRoute, Connect, At
<1>2. CASE CheckRoute
  <2>1. CASE \E s \in {Zero, sample} : Leaves(s)  BY <1>1, <2>1, HTTPSLeaves, Zenon
  <2>2. CASE Goes("open") /\ UNCHANGED sample
    <3>1. send'.pc = "open" /\ ~send'.err  BY <1>1, <2>2, CalmFacts, Zenon DEF Goes, SendRecords
    <3>2. HTTPSAfter(send', sample', clk'.mono)  BY <1>1, <2>2, <3>1, Zenon DEF HTTPSAfter
    <3>3. QED  BY <3>2, HTTPSThen, Zenon
  <2>3. QED  BY <1>2, <2>1, <2>2, Zenon DEF CheckRoute
<1>3. CASE Connect
  <2> DEFINE s == Started("https", clk.wall)
  <2>1. Begun(s, clk'.mono) /\ s.exchange = "incomplete"
    BY CalmFacts, Zenon DEF Started, Begun, HTTPSSamples
  <2>2. Breaks(s, {"connect-error"}) \/ (Goes("handshake") /\ sample' = s)  BY <1>3, Zenon DEF Connect
  <2> HIDE DEF s
  <2>3. QED  BY <1>1, <2>1, <2>2, HTTPSBreaks, HTTPSGoes, Zenon
<1>4. QED  BY <1>2, <1>3, Zenon

LEMMA HTTPSExchanges ==
  ASSUME Calmly, send.kind = "https", HTTPSInv, Handshake \/ WriteRequest
  PROVE  HTTPSInv'
<1>1. /\ send.pc \in {"handshake", "request"} /\ ~send.err /\ sample.exchange = "incomplete"
      /\ Exchanging(sample, send, clk.mono)
  BY Zenon DEF HTTPSInv, Handshake, WriteRequest, At
<1>2. Begun(sample, clk'.mono)  BY <1>1, CalmFacts DEF Exchanging, Begun, HTTPSSamples
<1>3. CASE Handshake
  <2>1. /\ Begun([sample EXCEPT !.stage = "tls"], clk'.mono) /\ Begun([sample EXCEPT !.stage = "request"], clk'.mono)
        /\ [sample EXCEPT !.stage = "request"].exchange = "incomplete"
    BY <1>1, <1>2, BegunEdits, Zenon
  <2>2. \/ Breaks([sample EXCEPT !.stage = "tls"], {"tls-error", "transport-error"})
        \/ Goes("request") /\ sample' = [sample EXCEPT !.stage = "request"]
    BY <1>3, Zenon DEF Handshake
  <2>3. QED  BY <1>1, <2>1, <2>2, HTTPSBreaks, HTTPSGoes, Zenon
<1>4. CASE WriteRequest
  <2>1. \A x \in {"not-sent", "uncertain", "accepted"} :
           /\ Begun([sample EXCEPT !.request = x], clk'.mono)
           /\ [sample EXCEPT !.request = x].exchange = "incomplete"
    BY <1>1, <1>2, BegunEdits, Zenon
  <2>2. CASE \E x \in {"not-sent", "uncertain", "accepted"} :
                Breaks([sample EXCEPT !.request = x], {"transport-error"})
    BY <2>1, <2>2, HTTPSBreaks, Zenon
  <2>3. CASE Goes("header") /\ sample' = [sample EXCEPT !.request = "accepted"]
    BY <1>1, <2>1, <2>3, HTTPSGoes, Zenon
  <2>4. QED  BY <1>4, <2>2, <2>3, Zenon DEF WriteRequest
<1>5. QED  BY <1>3, <1>4

LEMMA HTTPSReads ==
  ASSUME Calmly, send.kind = "https", HTTPSInv, ReadHeader
  PROVE  HTTPSInv'
<1> DEFINE u == clk'.mono
           s == [sample EXCEPT !.exchange = "response-received", !.received = u]
<1>0. /\ u \in Nat /\ clk'.wall = u /\ clk.mono \in Nat /\ clk.mono <= u
      /\ send \in SendRecords /\ send'.limit = send.limit
  BY CalmFacts, Zenon
<1>1. /\ send.pc = "header" /\ ~send.err /\ sample.exchange = "incomplete"
      /\ Exchanging(sample, send, clk.mono)
  BY Zenon DEF HTTPSInv, ReadHeader, At
<1>2. Begun(sample, u)  BY <1>0, <1>1 DEF Exchanging, Begun, HTTPSSamples
<1>3. CASE Breaks(sample, {"transport-error", "protocol-error"})  BY <1>2, <1>3, HTTPSBreaks, Zenon
<1>4. CASE UNCHANGED <<send, sample>>
  <2>1. HTTPSAfter(send', sample', u)  BY <1>1, <1>2, <1>4, Zenon DEF HTTPSAfter, Exchanging, Begun
  <2>2. QED  BY <2>1, HTTPSThen, Zenon
<1>5. CASE Passes /\ Goes("attribute") /\ sample' = s
  <2>1. u < send.limit  BY <1>5, Zenon DEF Passes
  <2>2. /\ s \in HTTPSSamples /\ s.started = sample.started /\ s.exchange = "response-received" /\ s.received = u
    <3>1. sample \in HTTPSSamples  BY <1>2, Zenon DEF Begun
    <3>2. s \in HTTPSSamples  BY <1>0, <3>1, Zenon DEF HTTPSSamples
    <3>3. QED  BY <3>1, <3>2, Zenon DEF HTTPSSamples
  <2>3. send'.pc = "attribute" /\ ~send'.err  BY <1>0, <1>1, <1>5, Zenon DEF Goes, SendRecords
  <2> HIDE DEF s
  <2>4. Exchanging(s, send', u)  BY <1>0, <1>2, <2>1, <2>2, Zenon DEF Exchanging, Begun
  <2>5. HTTPSAfter(send', sample', u)  BY <1>5, <2>2, <2>3, <2>4, Zenon DEF HTTPSAfter
  <2>6. QED  BY <2>5, HTTPSThen
<1>6. QED  BY <1>0, <1>3, <1>4, <1>5, Zenon DEF ReadHeader

LEMMA HTTPSAttributes ==
  ASSUME Calmly, send.kind = "https", HTTPSInv, Attribute
  PROVE  HTTPSInv'
<1> DEFINE u == clk'.mono
           s == [sample EXCEPT !.exchange = "incomplete", !.received = Absent]
<1>0. u \in Nat /\ clk.mono \in Nat /\ clk.mono <= u /\ send \in SendRecords /\ send'.limit = send.limit
  BY CalmFacts, Zenon
<1>1. /\ send.pc = "attribute" /\ ~send.err /\ sample.exchange = "response-received"
      /\ Exchanging(sample, send, clk.mono)
  BY Zenon DEF HTTPSInv, Attribute, At
<1>2. sample \in HTTPSSamples /\ sample.started \in Nat /\ sample.started <= u
  BY <1>0, <1>1 DEF Exchanging, HTTPSSamples
<1>3. CASE Leaves(s)
  <2>1. s \in HTTPSSamples  BY <1>2, Zenon DEF HTTPSSamples
  <2>2. s.started = sample.started /\ s.exchange = "incomplete"  BY <1>2, Zenon DEF HTTPSSamples
  <2> HIDE DEF s
  <2>3. Begun(s, u)  BY <1>2, <2>1, <2>2, Zenon DEF Begun
  <2>4. QED  BY <1>3, <2>2, <2>3, HTTPSLeaves, Zenon
<1>4. CASE Goes("leave") /\ UNCHANGED sample
  <2>1. send'.pc = "leave" /\ ~send'.err  BY <1>0, <1>1, <1>4, Zenon DEF Goes, SendRecords
  <2>2. Exchanging(sample, send', u)  BY <1>0, <1>1, <1>2, Zenon DEF Exchanging
  <2>3. HTTPSAfter(send', sample', u)  BY <1>1, <1>4, <2>1, <2>2, Zenon DEF HTTPSAfter
  <2>4. QED  BY <2>3, HTTPSThen
<1>5. QED  BY <1>3, <1>4, Zenon DEF Attribute

LEMMA HTTPSAccepted ==
  ASSUME send'.kind = "https", NEW s, NEW w, sample' = s, clk'.wall = w, s # Zero,
         s.started >= 0, s.started < send'.expires, s.completed < send'.expires,
         s.exchange \in {"response-received", "timeout"} \/ send'.err,
         consistentHTTPS(s, w), s.exchange = "response-received" => s.received - s.started < 8 * Second
  PROVE  Accepted'
<1>1. validateHTTPS(sample', clk'.wall)  BY Zenon DEF validateHTTPS
<1>2. /\ sample' # Zero /\ sample'.started >= 0 /\ sample'.started < send'.expires
      /\ sample'.completed < send'.expires /\ (sample'.exchange \in {"response-received", "timeout"} \/ send'.err)
  BY Zenon
<1>3. QED
  BY <1>1, <1>2, Zenon DEF Accepted, validateSample, Complete, validateHTTPS, consistentHTTPS, MaxSampleTime, Within, Zero, Absent

LEMMA HTTPSReturns ==
  ASSUME Calmly, send.kind = "https", HTTPSInv, Return
  PROVE  HTTPSInv' /\ (clk'.wall < send'.expires => Accepted')
<1> DEFINE t == clk.mono
           u == clk'.mono
           closed == [sample EXCEPT !.completed = u]
<1>0. /\ t \in Nat /\ u \in Nat /\ t <= u /\ send \in SendRecords /\ clk'.wall = u
      /\ send'.kind = "https" /\ send.limit \in Nat /\ send.limit <= 8 * Second /\ send'.expires \in Nat
      /\ send.err \in BOOLEAN
  BY CalmFacts, Timings, Zenon DEF SendRecords
<1>1. send.pc = "leave"  BY Zenon DEF Return
<1>2. PICK fails \in BOOLEAN :
         /\ send' = [send EXCEPT !.pc = "returned", !.err = send.err \/ fails \/ Withheld(Closed(sample))]
         /\ sample' = IF Withheld(Closed(sample)) THEN Zero ELSE Closed(sample)
  <2>1. PICK fails \in IF send.conn THEN BOOLEAN ELSE {FALSE} :
           /\ send' = [send EXCEPT !.pc = "returned", !.err = @ \/ fails \/ Withheld(Closed(sample))]
           /\ sample' = IF Withheld(Closed(sample)) THEN Zero
                        ELSE IF fails /\ send.kind = "gateway"
                        THEN [Closed(sample) EXCEPT !.complete = FALSE, !.mean = Absent] ELSE Closed(sample)
    BY Zenon DEF Return
  <2>2. fails \in BOOLEAN  BY <2>1, Zenon
  <2>3. QED  BY <2>1, <2>2, Zenon
<1>3. send'.pc = "returned" /\ send'.err = (send.err \/ fails \/ Withheld(Closed(sample)))
  BY <1>0, <1>2, Zenon DEF SendRecords
<1>4. Closed(sample) = IF sample = Zero THEN Zero ELSE closed  BY <1>0, Zenon DEF Closed
<1>5. HTTPSInv'
  <2>1. HTTPSAfter(send', sample', u)  BY <1>3, Zenon DEF HTTPSAfter
  <2>2. QED  BY <2>1, HTTPSThen, Zenon
<1>6. ASSUME clk'.wall < send'.expires PROVE Accepted'
  <2>1. CASE sample = Zero
    <3>1. send.err  BY <1>1, <2>1, NotZero, Zenon DEF HTTPSInv, Exchanging
    <3>2. QED  BY <1>2, <1>3, <1>4, <2>1, <3>1, NothingAccepted, Zenon
  <2>2. CASE Withheld(Closed(sample))  BY <1>2, <1>3, <2>2, NothingAccepted, Zenon
  <2>3. CASE ~Withheld(Closed(sample)) /\ sample # Zero
    <3>1. Exchanging(sample, send, t) /\ (send.err \/ sample.exchange = "response-received")
      BY <1>1, <2>3, Zenon DEF HTTPSInv
    <3>2. sample \in HTTPSSamples /\ sample.started \in Nat /\ sample.started <= t
      BY <3>1, Zenon DEF Exchanging, HTTPSSamples
    <3>3. /\ closed \in HTTPSSamples /\ closed.completed = u /\ closed.started = sample.started
          /\ closed.exchange = sample.exchange /\ closed.received = sample.received
      BY <1>0, <3>2, Zenon DEF HTTPSSamples
    <3>4. Closed(sample) = closed  BY <1>4, <2>3, Zenon
    <3> HIDE DEF closed
    <3>5. closed # Zero  BY <3>3, NotZero, Zenon
    <3>6. consistentHTTPS(closed, u)  BY <2>3, <3>3, <3>4, <3>5, Zenon DEF Withheld
    <3>7. closed.exchange = "response-received" => closed.received - closed.started < 8 * Second
      <4>1. ASSUME closed.exchange = "response-received" PROVE closed.received - closed.started < 8 * Second
        <5>1. sample.received < send.limit  BY <3>1, <3>3, <4>1, Zenon DEF Exchanging
        <5>2. sample.received \in Nat \cup {Absent}  BY <3>2, Zenon DEF HTTPSSamples
        <5>3. QED  BY <1>0, <3>2, <3>3, <5>1, <5>2, Timings
      <4>2. QED  BY <4>1, Zenon
    <3>8. closed.started >= 0 /\ closed.started < send'.expires /\ closed.completed < send'.expires
      BY <1>0, <1>6, <3>2, <3>3
    <3>9. sample' = closed  BY <1>2, <2>3, <3>4, Zenon
    <3>10. closed.exchange \in {"response-received", "timeout"} \/ send'.err  BY <1>3, <3>1, <3>3, Zenon
    <3>11. QED  BY <1>0, <3>5, <3>6, <3>7, <3>8, <3>9, <3>10, HTTPSAccepted, Zenon
  <2>4. QED  BY <2>1, <2>2, <2>3, Zenon
<1>7. QED  BY <1>5, <1>6, Zenon

-------------------------------------------------------------------------------
(* Only Return returns. *)
LEMMA LeavesIsNoReturn == ASSUME SenderTyped, NEW s, Leaves(s) PROVE send'.pc = "leave"
BY Zenon DEF SenderTyped, Leaves, SendRecords

LEMMA GoesTo == ASSUME SenderTyped, NEW pc, Goes(pc) PROVE send'.pc = pc
BY Zenon DEF SenderTyped, Goes, SendRecords

LEMMA EndingIsNoReturn ==
  ASSUME SenderTyped, NEW r, LocalsOf(r), NEW s, EndsAttempt(r, s) PROVE send'.pc \in {"leave", "pace"}
BY Zenon DEF LocalsOf, EndsAttempt, SendRecords

LEMMA ReadingStays ==
  ASSUME SenderTyped
  PROVE  LET read == [send EXCEPT !.reads = @ + 1]
             got == [read EXCEPT !.received = @ + 1]
         IN  /\ read.pc = send.pc /\ got.pc = send.pc
             /\ [got EXCEPT !.pc = "confirm", !.arrived = clk'.wall].pc = "confirm"
BY Zenon DEF SenderTyped, SendRecords

LEMMA OnlyReturnReturns ==
  ASSUME SenderTyped, SenderNext, ~Return
  PROVE  send'.pc # "returned"
<1> DEFINE read == [send EXCEPT !.reads = @ + 1]
           got == [read EXCEPT !.received = @ + 1]
           wait == clk'.mono - send.sentAt
<1>0. send \in SendRecords  BY Zenon DEF SenderTyped
<1>1. \A s : Leaves(s) => send'.pc # "returned"  BY LeavesIsNoReturn, Zenon
<1>2. \A pc \in SenderStages \ {"returned"} : Goes(pc) => send'.pc # "returned"  BY GoesTo, Zenon
<1>3. CASE CheckRoute \/ Open \/ Verify
  <2>1. \/ \E s : Leaves(s)
        \/ Goes("open")
        \/ send' = [send EXCEPT !.pc = "leave", !.err = TRUE, !.conn = TRUE]
        \/ send' = [send EXCEPT !.pc = "verify", !.conn = TRUE]
        \/ send' = [send EXCEPT !.pc = "send", !.sentAt = clk'.mono]
    BY <1>3, Zenon DEF CheckRoute, Open, Verify
  <2>2. send' = [send EXCEPT !.pc = "leave", !.err = TRUE, !.conn = TRUE] => send'.pc = "leave"
    BY <1>0, Zenon DEF SendRecords
  <2>3. send' = [send EXCEPT !.pc = "verify", !.conn = TRUE] => send'.pc = "verify"
    BY <1>0, Zenon DEF SendRecords
  <2>4. send' = [send EXCEPT !.pc = "send", !.sentAt = clk'.mono] => send'.pc = "send"
    BY <1>0, Zenon DEF SendRecords
  <2>5. "open" \in SenderStages \ {"returned"}  BY Zenon DEF SenderStages
  <2>6. QED  BY <1>1, <1>2, <2>1, <2>2, <2>3, <2>4, <2>5, Zenon
<1>4. CASE GatewaySend \/ GatewayPace
  <2>1. \/ \E s : Leaves(s)
        \/ Goes("verify")
        \/ send' = [send EXCEPT !.pc = "receive", !.lastSend = clk'.mono]
    BY <1>4, Zenon DEF GatewaySend, GatewayPace
  <2>2. send' = [send EXCEPT !.pc = "receive", !.lastSend = clk'.mono] => send'.pc = "receive"
    BY <1>0, Zenon DEF SendRecords
  <2>3. "verify" \in SenderStages \ {"returned"}  BY Zenon DEF SenderStages
  <2>4. QED  BY <1>1, <1>2, <2>1, <2>2, <2>3, Zenon
<1>5. CASE GatewayReceive
  <2>1. Elapses /\ send.pc = "receive"  BY <1>5, ReceiveMoves, Zenon DEF GatewayReceive, At
  <2>2. wait \in Int  BY <1>0, <2>1 DEF Elapses, SendRecords
  <2>3. LocalsOf(send) /\ LocalsOf(got) /\ LocalsOf([got EXCEPT !.rtt = @ + wait])  BY <2>2, Counted, Zenon
  <2>4. read.pc = send.pc /\ got.pc = send.pc  BY ReadingStays, Zenon
  <2>5. \/ TimesOut(send) \/ Leaves(sample) \/ send' = read \/ TimesOut(got) \/ send' = got
        \/ EndsAttempt([got EXCEPT !.rtt = @ + wait], [sample EXCEPT !.replies = @ + 1])
    BY <1>5, Zenon DEF GatewayReceive
  <2> HIDE DEF read, got, wait
  <2>6. QED  BY <1>1, <2>1, <2>3, <2>4, <2>5, EndingIsNoReturn, Zenon DEF TimesOut
<1>6. CASE ResolverSend \/ ResolverConfirm
  <2>1. (\E s : Leaves(s)) \/ Goes("receive") \/ Goes("leave")  BY <1>6, Zenon DEF ResolverSend, ResolverConfirm
  <2>2. {"receive", "leave"} \subseteq SenderStages \ {"returned"}  BY Zenon DEF SenderStages
  <2>3. QED  BY <1>1, <1>2, <2>1, <2>2, Zenon
<1>7. CASE ResolverReceive
  <2>1. \/ (\E s : Leaves(s)) \/ Goes("confirm") \/ send' \in {read, got}
        \/ send' = [got EXCEPT !.pc = "confirm", !.arrived = clk'.wall]
    BY <1>7, Zenon DEF ResolverReceive
  <2>2. /\ read.pc = send.pc /\ got.pc = send.pc
        /\ [got EXCEPT !.pc = "confirm", !.arrived = clk'.wall].pc = "confirm"
    BY ReadingStays, Zenon
  <2>3. send.pc = "receive" /\ "confirm" \in SenderStages \ {"returned"}
    BY <1>7, Zenon DEF ResolverReceive, At, SenderStages
  <2> HIDE DEF read, got
  <2>4. QED  BY <1>1, <1>2, <2>1, <2>2, <2>3, Zenon
<1>8. CASE Connect \/ Handshake \/ WriteRequest \/ ReadHeader \/ Attribute
  <2>1. \/ \E s : Leaves(s)
        \/ \E pc \in {"handshake", "request", "header", "attribute", "leave"} : Goes(pc)
        \/ send.pc = "header" /\ UNCHANGED send
    BY <1>8, Zenon DEF Connect, Handshake, WriteRequest, ReadHeader, Attribute, Breaks, At
  <2>2. {"handshake", "request", "header", "attribute", "leave"} \subseteq SenderStages \ {"returned"}
    BY Zenon DEF SenderStages
  <2>3. QED  BY <1>1, <1>2, <2>1, <2>2, Zenon
<1>9. QED  BY <1>3, <1>4, <1>5, <1>6, <1>7, <1>8, Zenon DEF SenderNext

(* What a step of a sender does to its own invariant, and what is accepted. *)
LEMMA SenderSteps ==
  ASSUME Calmly, SenderNext,
         send.kind = "gateway" => GatewayInv,
         send.kind = "resolver" => ResolverInv,
         send.kind = "https" => HTTPSInv
  PROVE  /\ send.kind = "gateway" => GatewayInv' /\ (Return => Accepted')
         /\ send.kind = "resolver" => ResolverInv' /\ (Return /\ clk'.wall < send'.limit => Accepted')
         /\ send.kind = "https" => HTTPSInv' /\ (Return /\ clk'.wall < send'.expires => Accepted')
<1>1. CASE send.kind = "gateway"
  <2>1. \/ CheckRoute \/ Open \/ Verify \/ Return \/ GatewaySend \/ GatewayReceive \/ GatewayPace
    BY <1>1, Zenon DEF SenderNext, ResolverSend, ResolverReceive, ResolverConfirm, Connect, Handshake, WriteRequest,
                ReadHeader, Attribute, At
  <2>2. GatewayInv'
    BY <1>1, <2>1, GatewayRoute, GatewayVerifies, GatewaySends, GatewayReceives, GatewayPaces, GatewayReturns, Zenon
  <2>3. QED  BY <1>1, <2>2, GatewayReturns, Zenon
<1>2. CASE send.kind = "resolver"
  <2>1. \/ CheckRoute \/ Open \/ Verify \/ Return \/ ResolverSend \/ ResolverReceive \/ ResolverConfirm
    BY <1>2, Zenon DEF SenderNext, GatewaySend, GatewayReceive, GatewayPace, Connect, Handshake, WriteRequest,
                ReadHeader, Attribute, At
  <2>2. ResolverInv'
    BY <1>2, <2>1, ResolverOpens, ResolverVerifies, ResolverSends, ResolverReceives, ResolverConfirms,
       ResolverReturns
  <2>3. QED  BY <1>2, <2>2, ResolverReturns, Zenon
<1>3. CASE send.kind = "https"
  <2>1. \/ CheckRoute \/ Return \/ Connect \/ Handshake \/ WriteRequest \/ ReadHeader \/ Attribute
    <3>1. ~Open  BY <1>3, Zenon DEF Open
    <3>2. ~Verify  BY <1>3, Zenon DEF Verify, HTTPSInv
    <3>3. QED  BY <1>3, <3>1, <3>2, Zenon DEF SenderNext, GatewaySend, GatewayReceive, GatewayPace, ResolverSend,
                ResolverReceive, ResolverConfirm, At
  <2>2. HTTPSInv'  BY <1>3, <2>1, HTTPSOpens, HTTPSExchanges, HTTPSReads, HTTPSAttributes, HTTPSReturns, Zenon
  <2>3. QED  BY <1>3, <2>2, HTTPSReturns, Zenon
<1>4. QED  BY <1>1, <1>2, <1>3, Zenon

LEMMA MeasuredThen ==
  MeasuredIsAccepted' <=>
     ((/\ send'.pc = "returned" /\ ~Stepped'
       /\ send'.kind = "resolver" => clk'.wall < send'.limit
       /\ send'.kind = "https" => clk'.wall < send'.expires) => Accepted')
BY Zenon DEF MeasuredIsAccepted, Accepted, Stepped

(* Every launch starts in the invariant. *)
LEMMA SenderStarts == ASSUME SenderInit PROVE SenderInv
<1>1. PICK k \in Senders, expires \in Expiries :
         /\ send = [kind |-> k, pc |-> "lookup", err |-> FALSE, conn |-> FALSE, seq |-> 1,
                    expires |-> expires,
                    limit |-> IF expires < TotalTimeout[k] THEN expires ELSE TotalTimeout[k],
                    sentAt |-> 0, lastSend |-> 0, reads |-> 0, received |-> 0, rtt |-> 0,
                    arrived |-> Absent]
         /\ sample = IF k = "resolver" THEN Started(k, 0) ELSE Zero
  BY Zenon DEF SenderInit
<1>2. expires \in Nat /\ TotalTimeout[k] \in Nat  BY SenderAssumption, Timings, Zenon
<1> DEFINE limit == IF expires < TotalTimeout[k] THEN expires ELSE TotalTimeout[k]
<1>3. limit \in Nat /\ limit <= expires /\ limit <= TotalTimeout[k]  BY <1>2
<1> HIDE DEF limit
<1>4. send = [kind |-> k, pc |-> "lookup", err |-> FALSE, conn |-> FALSE, seq |-> 1,
              expires |-> expires, limit |-> limit,
              sentAt |-> 0, lastSend |-> 0, reads |-> 0, received |-> 0, rtt |-> 0, arrived |-> Absent]
  BY <1>1, Zenon DEF limit
<1>5. send \in SendRecords  BY <1>2, <1>3, <1>4, Timings DEF SendRecords, SenderStages
<1>6. /\ send.kind = k /\ send.pc = "lookup" /\ ~send.err /\ ~send.conn /\ send.seq = 1 /\ send.lastSend = 0
      /\ send.rtt = 0 /\ send.arrived = Absent /\ send.limit = limit /\ send.expires = expires
  BY <1>4, Zenon
<1>7. clk.mono = 0 /\ clk.wall = 0 /\ clk.last = 0 /\ clk \in [mono : Int, wall : Int, last : Int] /\ canceled \in BOOLEAN
  <2>1. clk = [mono |-> 0, wall |-> 0, last |-> 0] /\ canceled = FALSE  BY Zenon DEF SenderInit
  <2>2. canceled \in BOOLEAN  BY <2>1, Zenon
  <2>3. clk.mono = 0 /\ clk.wall = 0 /\ clk.last = 0 /\ clk \in [mono : Int, wall : Int, last : Int]  BY <2>1
  <2>4. QED  BY <2>2, <2>3, Zenon
<1>8. SenderTyped  BY <1>3, <1>5, <1>6, <1>7, Zenon DEF SenderTyped
<1>9. k = "gateway" => GatewayInv  BY <1>1, <1>6, Zenon DEF GatewayInv
<1>10. k = "https" => HTTPSInv  BY <1>1, <1>6, Zenon DEF HTTPSInv
<1>11. k = "resolver" => ResolverInv
  <2>1. SUFFICES ASSUME k = "resolver" PROVE ResolverInv  BY Zenon
  <2>2. sample = Started("resolver", 0)  BY <1>1, <2>1, Zenon
  <2>3. Unanswered(sample, 0) /\ sample.exchange = "incomplete"  BY <2>2 DEF Started, Unanswered, ResolverSamples
  <2>4. QED  BY <1>6, <1>7, <2>3, Zenon DEF ResolverInv
<1>12. MeasuredIsAccepted  BY <1>6, Zenon DEF MeasuredIsAccepted
<1>13. QED  BY <1>6, <1>7, <1>8, <1>9, <1>10, <1>11, <1>12 DEF SenderInv

LEMMA SenderStep == ASSUME SenderInv, SenderNext PROVE SenderInv'
<1>1. SenderTyped /\ Elapses /\ LocalsMove /\ SenderTyped'  BY SenderMoves, Typing, Zenon DEF SenderInv
<1>2. CASE Stepped'
  <2>1. MeasuredIsAccepted'  BY <1>2, MeasuredThen, Zenon
  <2>2. QED  BY <1>1, <1>2, <2>1, Zenon DEF SenderInv
<1>3. CASE ~Stepped'
  <2>1. ~Stepped /\ clk.mono <= clk'.mono  BY <1>1, <1>3, Zenon DEF Elapses
  <2>2. clk.mono >= 0 /\ clk.last = clk.mono  BY <2>1, Zenon DEF SenderInv
  <2>3. clk.mono \in Int /\ clk'.mono \in Int  BY <1>1, Zenon DEF SenderTyped, Elapses
  <2>4. clk'.last = clk'.mono  BY <1>1, <1>3, <2>2, Zenon DEF Elapses
  <2>5. Calmly  BY <1>1, <1>3, <2>1, <2>2, <2>3, <2>4, Zenon DEF Calmly
  <2>6. /\ send.kind = "gateway" => GatewayInv
        /\ send.kind = "resolver" => ResolverInv
        /\ send.kind = "https" => HTTPSInv
    BY <2>1, Zenon DEF SenderInv
  <2>7. /\ send.kind = "gateway" => GatewayInv' /\ (Return => Accepted')
        /\ send.kind = "resolver" => ResolverInv' /\ (Return /\ clk'.wall < send'.limit => Accepted')
        /\ send.kind = "https" => HTTPSInv' /\ (Return /\ clk'.wall < send'.expires => Accepted')
    BY <2>5, <2>6, SenderSteps, Zenon
  <2>8. send'.kind = send.kind /\ send.kind \in Senders  BY <1>1, Zenon DEF LocalsMove, SenderTyped, SendRecords
  <2>9. send'.pc = "returned" => Return  BY <1>1, OnlyReturnReturns, Zenon
  <2>10. MeasuredIsAccepted'  BY <2>7, <2>8, <2>9, MeasuredThen, Zenon DEF Senders
  <2>11. clk'.mono >= 0  BY <2>1, <2>2, <2>3
  <2>12. QED  BY <1>1, <2>4, <2>7, <2>8, <2>10, <2>11, Zenon DEF SenderInv
<1>4. QED  BY <1>2, <1>3, Zenon

(* Wherever a sender is, its sample is one that may still become evidence: *)
(* the requests counted and the time they took agree, a reply came within  *)
(* its deadline, and nothing that failed is complete.                      *)
THEOREM SenderInvariant == SenderSpec => []SenderInv
<1>1. SenderInit => SenderInv  BY SenderStarts, Zenon
<1>2. SenderInv /\ [SenderNext]_senderVars => SenderInv'
  <2>1. SUFFICES ASSUME SenderInv, [SenderNext]_senderVars PROVE SenderInv'  BY Zenon
  <2>2. CASE SenderNext  BY <2>1, <2>2, SenderStep, Zenon
  <2>3. CASE UNCHANGED senderVars
    <3>1. clk' = clk /\ canceled' = canceled /\ send' = send /\ sample' = sample  BY <2>3, Zenon DEF senderVars
    <3>2. SenderTyped' /\ (Stepped' <=> Stepped)  BY <2>1, <3>1, Zenon DEF SenderInv, SenderTyped, Stepped
    <3>3. MeasuredIsAccepted'
      <4>1. Accepted' <=> Accepted
        BY <3>1 DEF Accepted, validateSample, Complete, validateGateway, validateResolver, validateHTTPS,
                    consistentHTTPS, Within, MaxSampleTime, Zero, Absent
      <4>2. QED  BY <2>1, <3>1, <3>2, <4>1, MeasuredThen, Zenon DEF SenderInv, MeasuredIsAccepted, Accepted
    <3>4. GatewayInv' <=> GatewayInv  BY <3>1, GatewayThen, GatewayNow, Zenon
    <3>5. ResolverInv' <=> ResolverInv  BY <3>1, ResolverThen, Zenon DEF ResolverInv, ResolverAfter
    <3>6. HTTPSInv' <=> HTTPSInv  BY <3>1, HTTPSThen, Zenon DEF HTTPSInv, HTTPSAfter
    <3>7. QED  BY <2>1, <3>1, <3>2, <3>3, <3>4, <3>5, <3>6, Zenon DEF SenderInv
  <2>4. QED  BY <2>1, <2>2, <2>3, Zenon
<1>3. QED  BY <1>1, <1>2, PTL DEF SenderSpec

(* What Measure, ExecuteResolver and ExecuteHTTPS return is accepted by    *)
(* the validateSample of their run control, for every length of a second,  *)
(* every budget of reads and datagrams, every duration of a call and every *)
(* expiry of the approval.                                                 *)
THEOREM MeasurementsAreAccepted == SenderSpec => []MeasuredIsAccepted
<1>1. SenderInv => MeasuredIsAccepted  BY Zenon DEF SenderInv
<1>2. QED  BY <1>1, SenderInvariant, PTL
===============================================================================
