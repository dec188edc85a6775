------------------------------ MODULE CheckSenders ------------------------------
(***************************************************************************)
(* The three senders behind an admitted run, from launch to return:        *)
(* gatewayicmp.Sender, resolverudp.Sender and httpstcp.Candidate with      *)
(* httpsexchange, and the sample checks of the run controls that take what *)
(* they return.                                                            *)
(* A call of the platform takes time; while it lasts the wall clock may be *)
(* set once and the caller may cancel.  An action is such a call with the  *)
(* reads of the clocks that follow it.  Time 0 is the launch.  What route  *)
(* lookup, socket check or reply say is a choice between the answers that  *)
(* the code tells apart.                                                   *)
(***************************************************************************)
EXTENDS Integers

CONSTANTS Second,         \* ticks of a second
          MaxReads, MaxDatagrams,
          MaxCall,        \* bound of the model: the longest call, in ticks
          Expiries        \* when the approval runs out, after the launch

ASSUME SenderAssumption ==
    /\ Second \in Nat \ {0} /\ MaxReads \in Nat /\ MaxDatagrams \in Nat /\ MaxCall \in Nat
    /\ Expiries \subseteq Nat

Senders == {"gateway", "resolver", "https"}
MaxAttempts == 3
MinInterval == Second
AttemptTimeout == Second
ExchangeTimeout == 2 * Second
ConnectTimeout == 2 * Second
TLSHandshakeTimeout == 3 * Second
ResponseHeaderTimeout == 2 * Second
TotalTimeout == [k \in Senders |-> IF k = "https" THEN 8 * Second ELSE 5 * Second]
MaxSampleTime == 30 * Second
Absent == -1

VARIABLES clk,       \* the monotonic clock, the wall clock and its last reading
          canceled,  \* the caller's context is done
          send,      \* locals of the sender
          sample     \* what it returns
senderVars == <<clk, canceled, send, sample>>

Zero == [empty |-> TRUE]
Started(k, t) ==
    CASE k = "gateway" ->
            [sends |-> 0, accepted |-> 0, replies |-> 0, timeouts |-> 0, started |-> t,
             completed |-> Absent, complete |-> FALSE, mean |-> Absent]
      [] k = "resolver" ->
            [started |-> t, completed |-> Absent, exchange |-> "incomplete",
             request |-> "not-sent", time |-> Absent]
      [] k = "https" ->
            [started |-> t, completed |-> Absent, exchange |-> "incomplete",
             request |-> "not-sent", stage |-> "connect", received |-> Absent]

SenderInit ==
    /\ clk = [mono |-> 0, wall |-> 0, last |-> 0] /\ canceled = FALSE
    /\ \E k \in Senders, expires \in Expiries :
          /\ send = [kind |-> k, pc |-> "lookup", err |-> FALSE, conn |-> FALSE, seq |-> 1,
                     expires |-> expires,
                     limit |-> IF expires < TotalTimeout[k] THEN expires ELSE TotalTimeout[k],
                     sentAt |-> 0, lastSend |-> 0, reads |-> 0, received |-> 0, rtt |-> 0,
                     arrived |-> Absent]
          /\ sample = IF k = "resolver" THEN Started(k, 0) ELSE Zero

-------------------------------------------------------------------------------
Stepped == clk.mono # clk.wall

Spends(ticks) ==
    /\ \E d \in ticks, step \in {-1, 0, 1} :
          /\ step # 0 => ~Stepped
          /\ LET wall == clk.wall + d + step
             IN  clk' = [mono |-> clk.mono + d, wall |-> wall,
                         last |-> IF wall < clk.last THEN clk.last ELSE wall]
    /\ canceled' \in {canceled, TRUE}
Calls == Spends(0..MaxCall)

(* The clock closure: a wall clock that went back, a context that ended by *)
(* either clock, the caller's cancellation.                                *)
Late(c) == c.mono >= send.limit \/ c.wall >= send.limit
ClockFails == canceled' \/ clk'.wall < clk.last \/ Late(clk')

At(k, pc) == send.kind = k /\ send.pc = pc
Goes(pc) == send' = [send EXCEPT !.pc = pc]
Leaves(s) == send' = [send EXCEPT !.pc = "leave", !.err = TRUE] /\ sample' = s

(* verifyRoute compares the wall clock within one call only.               *)
Passes == IF send.kind = "https" THEN ~canceled' /\ clk'.mono < send.limit ELSE ~ClockFails

(* checkRoute and verifyRoute before a socket exists: neither a gateway    *)
(* nor an HTTPS sample has begun, and a request that is refused at once    *)
(* has none at all.                                                        *)
CheckRoute ==
    /\ send.pc = "lookup" /\ Calls
    /\ \/ \E s \in {Zero, sample} : Leaves(s)
       \/ Passes /\ Goes("open") /\ UNCHANGED sample

Open ==
    /\ send.pc = "open" /\ send.kind # "https" /\ Calls
    /\ \/ Leaves(sample)
       \/ /\ ClockFails
          /\ send' = [send EXCEPT !.pc = "leave", !.err = TRUE, !.conn = TRUE]
          /\ sample' = IF send.kind = "gateway" THEN Started("gateway", 0) ELSE sample
       \/ /\ ~ClockFails
          /\ send' = [send EXCEPT !.pc = "verify", !.conn = TRUE]
          /\ sample' = IF send.kind = "gateway" THEN Started("gateway", 0) ELSE sample

(* Route, socket and clock are looked at once more before every send.      *)
Verify ==
    /\ send.pc = "verify" /\ Calls
    /\ \/ Leaves(sample)
       \/ /\ ~ClockFails
          /\ IF /\ send.kind = "gateway" /\ send.seq > 1
                /\ clk'.mono - send.lastSend < MinInterval
             THEN Leaves(sample)
             ELSE /\ send' = [send EXCEPT !.pc = "send", !.sentAt = clk'.mono]
                  /\ sample' = IF send.kind = "resolver"
                                  THEN [sample EXCEPT !.started = clk'.wall] ELSE sample

(* A failed send may have been accepted; it is counted and never repeated. *)
GatewaySend ==
    /\ At("gateway", "send") /\ Calls
    /\ LET called == [sample EXCEPT !.sends = @ + 1]
           taken == [called EXCEPT !.accepted = @ + 1]
       IN  \/ Leaves(called)
           \/ ClockFails /\ Leaves(taken)
           \/ /\ ~ClockFails /\ sample' = taken
              /\ send' = [send EXCEPT !.pc = "receive", !.lastSend = clk'.mono]

Exhausted(r) == r.received >= MaxDatagrams \/ r.reads >= MaxReads

(* The end of an attempt: after the last one the sample is complete,       *)
(* whatever is left of the receive budget.                                 *)
EndsAttempt(r, s) ==
    IF r.seq = MaxAttempts
    THEN /\ send' = [r EXCEPT !.pc = "leave"]
         /\ sample' = [s EXCEPT !.complete = TRUE, !.completed = clk'.wall,
                                !.mean = IF s.replies = 0 THEN Absent ELSE r.rtt \div s.replies]
    ELSE /\ sample' = s
         /\ send' = IF Exhausted(r) THEN [r EXCEPT !.pc = "leave", !.err = TRUE]
                    ELSE [r EXCEPT !.pc = "pace", !.seq = @ + 1]

TimesOut(r) == EndsAttempt(r, [sample EXCEPT !.timeouts = @ + 1])

(* Mutant: an arrival at the very deadline counts as timely. *)
ArrivesAtDeadline(r) == clk'.mono > r.sentAt + AttemptTimeout

ArrivesLate(r) == clk'.mono >= r.sentAt + AttemptTimeout

GatewayReceive ==
    /\ At("gateway", "receive")
    /\ IF clk.mono >= send.sentAt + AttemptTimeout
       THEN UNCHANGED <<clk, canceled>> /\ TimesOut(send)
       ELSE IF Exhausted(send)
       THEN UNCHANGED <<clk, canceled>> /\ Leaves(sample)
       ELSE /\ Calls
            /\ LET read == [send EXCEPT !.reads = @ + 1]
                   got == [read EXCEPT !.received = @ + 1]
                   wait == clk'.mono - send.sentAt
               IN  \/ Leaves(sample)
                   \/ ~ClockFails /\ send' = read /\ UNCHANGED sample
                   \/ ~ClockFails /\ ArrivesLate(send) /\ TimesOut(got)
                   \/ ~ClockFails /\ ~ArrivesLate(send) /\ send' = got /\ UNCHANGED sample
                   \/ /\ ~ClockFails /\ ~ArrivesLate(send)
                      /\ EndsAttempt([got EXCEPT !.rtt = @ + wait],
                                     [sample EXCEPT !.replies = @ + 1])

(* The pause before the next request, until MinInterval after the last one *)
(* was handed over.                                                        *)
GatewayPace ==
    LET rest == send.lastSend + MinInterval - clk.mono
        least == IF rest > 0 THEN rest ELSE 0
    IN  /\ At("gateway", "pace")
        /\ \/ Spends(least..(least + MaxCall)) /\ ~ClockFails /\ Goes("verify") /\ UNCHANGED sample
           \/ Calls /\ ClockFails /\ Leaves(sample)

-------------------------------------------------------------------------------
(* One query. *)
ResolverSend ==
    /\ At("resolver", "send") /\ Calls
    /\ \E request \in {"not-sent", "uncertain", "accepted"} :
          LET s == [sample EXCEPT !.request = request]
          IN  \/ ClockFails /\ Leaves(s)
              \/ ~ClockFails /\ request # "accepted" /\ Leaves([s EXCEPT !.exchange = "transport-error"])
              \/ ~ClockFails /\ request = "not-sent" /\ Leaves(s)
              \/ ~ClockFails /\ request = "accepted" /\ Goes("receive") /\ sample' = s

(* Foreign and late datagrams are counted and passed over; the receive     *)
(* budget is looked at before the deadline.                                *)
ResolverReceive ==
    /\ At("resolver", "receive")
    /\ IF Exhausted(send)
       THEN UNCHANGED <<clk, canceled>> /\ Leaves(sample)
       ELSE IF clk.mono >= send.sentAt + ExchangeTimeout
       THEN Goes("confirm") /\ UNCHANGED <<clk, canceled, sample>>
       ELSE /\ Calls
            /\ LET read == [send EXCEPT !.reads = @ + 1]
                   got == [read EXCEPT !.received = @ + 1]
               IN  \/ ClockFails /\ Leaves(sample)
                   \/ ~ClockFails /\ Leaves([sample EXCEPT !.exchange = "transport-error"])
                   \/ ~ClockFails /\ send' \in {read, got} /\ UNCHANGED sample
                   \/ /\ ~ClockFails /\ clk'.mono < send.sentAt + ExchangeTimeout
                      /\ send' = [got EXCEPT !.pc = "confirm", !.arrived = clk'.wall]
                      /\ UNCHANGED sample

(* Route and socket are checked again before a timeout or a reply counts;  *)
(* a reply is timed by the wall clock, like its evidence.                  *)
ResolverConfirm ==
    /\ At("resolver", "confirm") /\ Calls
    /\ LET took == send.arrived - sample.started
       IN  \/ Leaves(sample)
           \/ /\ ~ClockFails
              /\ IF send.arrived = Absent
                 THEN Goes("leave") /\ sample' = [sample EXCEPT !.exchange = "timeout"]
                 ELSE IF took < 0 \/ took >= ExchangeTimeout THEN Leaves(sample)
                 ELSE /\ Goes("leave")
                      /\ sample' = [sample EXCEPT !.exchange = "response-received", !.time = took,
                                                  !.completed = send.arrived]

-------------------------------------------------------------------------------
(* One HTTPS exchange: connect, handshake, request and header, each with a *)
(* deadline of its own for the socket.  What goes wrong in a stage, its    *)
(* deadline included, is classified by the stage.                          *)
Breaks(s, classes) ==
    \E x \in classes \cup {"timeout", "incomplete"} : Leaves([s EXCEPT !.exchange = x])

Connect ==
    /\ At("https", "open") /\ Spends(0..(ConnectTimeout + MaxCall))
    /\ LET s == Started("https", clk.wall)
       IN  \/ Breaks(s, {"connect-error"})
           \/ Passes /\ Goes("handshake") /\ sample' = s

Handshake ==
    /\ At("https", "handshake") /\ Spends(0..(TLSHandshakeTimeout + MaxCall))
    /\ \/ Breaks([sample EXCEPT !.stage = "tls"], {"tls-error", "transport-error"})
       \/ Passes /\ Goes("request") /\ sample' = [sample EXCEPT !.stage = "request"]

(* The request is written once: an incomplete write proves nothing.        *)
WriteRequest ==
    /\ At("https", "request") /\ Calls
    /\ \/ \E r \in {"not-sent", "uncertain", "accepted"} :
             Breaks([sample EXCEPT !.request = r], {"transport-error"})
       \/ Passes /\ Goes("header") /\ sample' = [sample EXCEPT !.request = "accepted"]

(* Informational responses are read and passed over. *)
ReadHeader ==
    /\ At("https", "header") /\ Spends(0..ResponseHeaderTimeout)
    /\ \/ Breaks(sample, {"transport-error", "protocol-error"})
       \/ Passes /\ UNCHANGED <<send, sample>>
       \/ /\ Passes /\ Goes("attribute")
          /\ sample' = [sample EXCEPT !.exchange = "response-received", !.received = clk'.wall]

(* No response is attributed to a route that changed while it arrived.     *)
Attribute ==
    /\ At("https", "attribute") /\ Calls
    /\ \/ Leaves([sample EXCEPT !.exchange = "incomplete", !.received = Absent])
       \/ Passes /\ Goes("leave") /\ UNCHANGED sample

-------------------------------------------------------------------------------
(* What the snapshot rules of networkquality and the run controls demand.  *)
Within(s, returned, longest) ==
    s.started <= s.completed /\ s.completed <= returned /\ s.completed - s.started <= longest

validateResolver(s, returned) ==
    /\ Within(s, returned, 5 * Second - 1)
    /\ s.exchange = "timeout" => s.request = "accepted" /\ s.completed - s.started >= 2 * Second
    /\ s.exchange = "response-received" =>
          s.request = "accepted" /\ s.time \in 0..(2 * Second - 1) /\ s.time <= s.completed - s.started
    /\ s.exchange # "response-received" => s.time = Absent

consistentHTTPS(s, asOf) ==
    /\ Within(s, asOf, MaxSampleTime)
    /\ s.stage # "request" => s.request = "not-sent"
    /\ CASE s.exchange = "response-received" ->
               /\ s.stage = "request" /\ s.request = "accepted"
               /\ s.started <= s.received /\ s.received <= s.completed
         [] s.exchange = "connect-error" -> s.stage = "connect"
         [] s.exchange = "tls-error" -> s.stage = "tls"
         [] s.exchange = "transport-error" -> s.stage # "connect"
         [] s.exchange = "protocol-error" -> s.stage = "request" /\ s.request = "accepted"
         [] s.exchange = "timeout" -> s.completed > s.started
         [] s.exchange = "incomplete" -> TRUE

validateHTTPS(s, returned) ==
    /\ consistentHTTPS(s, returned)
    /\ s.exchange = "response-received" => s.received - s.started < 8 * Second

validateGateway(s, returned) ==
    LET finished == s.replies + s.timeouts
        end == IF s.completed = Absent THEN returned ELSE s.completed
        spaced == IF s.sends > 1 THEN (s.sends - 1) * Second ELSE 0
    IN  /\ s.started <= returned /\ s.sends <= 3 /\ s.accepted <= s.sends /\ s.sends - s.accepted <= 1
        /\ finished <= s.accepted /\ s.accepted - finished <= 1
        /\ s.sends > s.accepted => finished = s.accepted
        /\ s.complete => finished = 3 /\ s.completed # Absent
        /\ s.completed # Absent =>
              finished = 3 /\ s.started <= end /\ end <= returned /\ end - s.started < 5 * Second
        /\ end - s.started >= spaced /\ end - s.started >= s.timeouts * Second
        /\ (s.mean # Absent) = (s.complete /\ s.replies > 0)
        /\ s.mean # Absent => s.mean < Second /\ s.mean <= end - s.started

Complete(s) ==
    IF send.kind = "gateway" THEN s.complete ELSE s.exchange \in {"response-received", "timeout"}

validateSample(s, err, returned) ==
    IF s = Zero THEN err
    ELSE /\ s.started >= 0 /\ s.started < send.expires
         /\ (s.completed # Absent /\ (send.kind = "gateway" \/ Complete(s))) => s.completed < send.expires
         /\ IF send.kind = "gateway" THEN Complete(s) = ~err ELSE Complete(s) \/ err
         /\ CASE send.kind = "gateway" -> validateGateway(s, returned)
              [] send.kind = "resolver" -> validateResolver(s, returned)
              [] send.kind = "https" -> validateHTTPS(s, returned)

(* The deferred calls: the socket is closed, then the end is recorded.     *)
Closed(s) ==
    IF s = Zero \/ send.kind = "gateway" THEN s
    ELSE IF send.kind = "https" THEN [s EXCEPT !.completed = clk'.wall]
    ELSE IF s.completed # Absent THEN s
    ELSE [s EXCEPT !.completed = clk'.last]

(* ExecuteHTTPS checks its own result and gives none away that is wrong.   *)
Withheld(s) == send.kind = "https" /\ s # Zero /\ ~consistentHTTPS(s, s.completed)

Return ==
    /\ send.pc = "leave" /\ Calls
    /\ \E fails \in IF send.conn THEN BOOLEAN ELSE {FALSE} :
          LET s == Closed(sample)
          IN  /\ send' = [send EXCEPT !.pc = "returned", !.err = @ \/ fails \/ Withheld(s)]
              /\ sample' = IF Withheld(s) THEN Zero
                           ELSE IF fails /\ send.kind = "gateway"
                           THEN [s EXCEPT !.complete = FALSE, !.mean = Absent] ELSE s

SenderNext ==
    \/ CheckRoute \/ Open \/ Verify \/ Return
    \/ GatewaySend \/ GatewayReceive \/ GatewayPace
    \/ ResolverSend \/ ResolverReceive \/ ResolverConfirm
    \/ Connect \/ Handshake \/ WriteRequest \/ ReadHeader \/ Attribute

SenderSpec == SenderInit /\ [][SenderNext]_senderVars

-------------------------------------------------------------------------------
(* What a sender returns, on every path out of it and at every exact       *)
(* deadline and budget, is a sample that the run control accepts, as       *)
(* complete or as partial evidence, unless the wall clock was set while it *)
(* ran, or a resolver outlived its run or an HTTPS exchange the approval:  *)
(* a check is not reported as an invalid measurement because two packages  *)
(* count differently (Measure, ExecuteResolver and ExecuteHTTPS against    *)
(* validateSample).                                                        *)
MeasuredIsAccepted ==
    (/\ send.pc = "returned" /\ ~Stepped
     /\ send.kind = "resolver" => clk.wall < send.limit
     /\ send.kind = "https" => clk.wall < send.expires) =>
        validateSample(sample, send.err, clk.wall)
===============================================================================
