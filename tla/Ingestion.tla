------------------------------- MODULE Ingestion -------------------------------
(***************************************************************************)
(* The bounded ingestion queue of the evidence store (storage.Ingestor     *)
(* with the atomic batch sink).  Every submission is a goroutine that      *)
(* calls one of the Submit methods and waits on its receipt; one worker    *)
(* takes accepted items off the channel, writes each in one transaction    *)
(* and answers the receipt.  A small second channel carries episodes       *)
(* (overflow, write failure) that the worker turns into storage events.    *)
(* The two mutexes, the channel operations and the sink calls are separate *)
(* steps, so submitters, worker and Close interleave between them.         *)
(***************************************************************************)
EXTENDS Naturals, Sequences, FiniteSets

CONSTANTS Items,           \* submissions, each made once
          Keys,            \* source keys an observation can carry
          Capacity,        \* of the item channel
          EventCapacity,   \* of the episode channel
          None

ASSUME CapacityAssumption ==
    /\ Capacity \in Nat \ {0} /\ EventCapacity \in Nat \ {0}
    /\ None \notin {"sqlite-full", "write-failed", "inserted", "duplicate"}
    /\ None \notin Items /\ IsFiniteSet(Items)

VARIABLES
    queue, eventQueue,              \* the two channels
    queueClosed,                    \* close(queue) has happened
    closing, closed,                \* fields of Ingestor
    accepted, rejected, processed, deduplicated, dropped, failed,  \* IngestionStats
    overflowActive, failureActive, failureClass,          \* the episode fields
    pending,                        \* receipts the latency tracker knows
    pc, key, waits,                 \* of each submission; waits: it may block
    wpc, current, outcome,          \* of the worker
    answer,                         \* what each receipt says
    stored, checkpoint,             \* durable: observations, saved checkpoints
    events, lost                    \* episodes written; some episode was only logged

channels == <<queue, eventQueue, queueClosed>>
stats    == <<accepted, rejected, processed, deduplicated, dropped, failed>>
episodes == <<overflowActive, failureActive, failureClass>>
caller   == <<pc, key, waits>>
worker   == <<wpc, current, outcome>>
durable  == <<stored, checkpoint, events>>
vars     == <<channels, closing, closed, stats, episodes, pending, caller, worker,
              answer, durable, lost>>

Init ==
    /\ queue = <<>> /\ eventQueue = <<>> /\ queueClosed = FALSE
    /\ closing = FALSE /\ closed = FALSE
    /\ accepted = 0 /\ rejected = 0 /\ processed = 0 /\ deduplicated = 0 /\ dropped = 0 /\ failed = 0
    /\ overflowActive = FALSE /\ failureActive = FALSE /\ failureClass = None
    /\ pending = {}
    /\ pc = [i \in Items |-> "new"] /\ key = [i \in Items |-> None]
    /\ waits = [i \in Items |-> FALSE]
    /\ wpc = "select" /\ current = None /\ outcome = None
    /\ answer = [i \in Items |-> None]
    /\ stored = {} /\ checkpoint = {} /\ events = {} /\ lost = FALSE

-------------------------------------------------------------------------------
(* submit *)

(* What submitters.Wait waits for: between beginSubmit and its return. *)
Submitting == {i \in Items : pc[i] \in {"begun", "sent", "counting", "flagging", "recording"}}

Goto(i, where) == pc' = [pc EXCEPT ![i] = where]

(* Invalid input is counted, whether or not the ingestor is closing. *)
Reject(i) ==
    /\ pc[i] = "new"
    /\ rejected' = rejected + 1
    /\ Goto(i, "rejected")
    /\ UNCHANGED <<channels, closing, closed, accepted, processed, deduplicated, dropped,
                   failed, episodes, pending, key, waits, worker, answer, durable, lost>>

(* Valid input, and not closing: the submitter registers under stateMu.    *)
BeginSubmit(i) ==
    /\ pc[i] = "new" /\ ~closing /\ ~closed
    /\ \E k \in Keys, w \in BOOLEAN :
          /\ key' = [key EXCEPT ![i] = k] /\ waits' = [waits EXCEPT ![i] = w]
    /\ Goto(i, "begun")
    /\ UNCHANGED <<channels, closing, closed, stats, episodes, pending, worker, answer,
                   durable, lost>>

(* The channel has room; the receipt is not marked accepted yet. *)
Send(i) ==
    /\ pc[i] = "begun" /\ Len(queue) < Capacity
    /\ queue' = Append(queue, i)
    /\ Goto(i, "sent")
    /\ UNCHANGED <<eventQueue, queueClosed, closing, closed, stats, episodes, pending,
                   key, waits, worker, answer, durable, lost>>

(* markAccepted, after which submit returns the receipt. *)
Accept(i) ==
    /\ pc[i] = "sent"
    /\ pending' = pending \cup {i}
    /\ accepted' = accepted + 1
    /\ Goto(i, "accepted")
    /\ UNCHANGED <<channels, closing, closed, rejected, processed, deduplicated, dropped,
                   failed, episodes, key, waits, worker, answer, durable, lost>>

(* A TrySubmit finds the channel full; a Submit's context ends, which      *)
(* select may prefer even when there is room.                              *)
GiveUp(i) ==
    /\ pc[i] = "begun"
    /\ waits[i] \/ Len(queue) = Capacity
    /\ Goto(i, "counting")
    /\ UNCHANGED <<channels, closing, closed, stats, episodes, pending, key, waits,
                   worker, answer, durable, lost>>

(* noteDropped: the counter, then the episode flag, then the event. *)
CountDrop(i) ==
    /\ pc[i] = "counting"
    /\ dropped' = dropped + 1
    /\ Goto(i, "flagging")
    /\ UNCHANGED <<channels, closing, closed, accepted, rejected, processed, deduplicated,
                   failed, episodes, pending, key, waits, worker, answer, durable, lost>>

(* Mutant: the flag is raised but the first drop is not told apart. *)
FlagDropSilently(i) ==
    /\ pc[i] = "flagging"
    /\ overflowActive' = TRUE
    /\ Goto(i, "gone")
    /\ UNCHANGED <<channels, closing, closed, stats, failureActive, failureClass, pending,
                   key, waits, worker, answer, durable, lost>>

FlagDrop(i) ==
    /\ pc[i] = "flagging"
    /\ overflowActive' = TRUE
    /\ Goto(i, IF overflowActive THEN "gone" ELSE "recording")
    /\ UNCHANGED <<channels, closing, closed, stats, failureActive, failureClass, pending,
                   key, waits, worker, answer, durable, lost>>

(* recordEpisode never blocks: without room the episode is only logged. *)
RecordEpisode(kind) ==
    IF Len(eventQueue) < EventCapacity
       THEN eventQueue' = Append(eventQueue, kind) /\ UNCHANGED lost
       ELSE lost' = TRUE /\ UNCHANGED eventQueue

RecordDrop(i) ==
    /\ pc[i] = "recording"
    /\ RecordEpisode("ingestion-backpressure")
    /\ Goto(i, "gone")
    /\ UNCHANGED <<queue, queueClosed, closing, closed, stats, episodes, pending, key,
                   waits, worker, answer, durable>>

-------------------------------------------------------------------------------
(* run: the worker *)

(* An item was received; the worker waits for its acceptance mark. *)
TakeItem ==
    /\ wpc = "select" /\ queue # <<>>
    /\ current' = Head(queue) /\ queue' = Tail(queue)
    /\ wpc' = "process"
    /\ UNCHANGED <<eventQueue, queueClosed, closing, closed, stats, episodes, pending,
                   caller, outcome, answer, durable, lost>>

(* Mutant: the checkpoint is saved after the transaction of the evidence. *)
ProcessInTwoSteps ==
    /\ wpc = "process" /\ pc[current] = "accepted"
    /\ \E committed \in BOOLEAN :
          /\ outcome' = IF ~committed THEN "write-failed"
                        ELSE IF key[current] \in stored THEN "duplicate" ELSE "inserted"
          /\ stored' = IF committed THEN stored \cup {key[current]} ELSE stored
          /\ checkpoint' = checkpoint \cup {key[current]}
    /\ wpc' = "note"
    /\ UNCHANGED <<channels, closing, closed, stats, episodes, pending, caller, current,
                   answer, events, lost>>

(* ingestObservation: evidence and checkpoint commit together.  A retained *)
(* source key is a replay, not an insertion.  A commit can fail, and can   *)
(* fail after it has become durable.  save: a checkpoint was submitted.    *)
Process ==
    /\ wpc = "process" /\ pc[current] = "accepted"
    /\ \E committed, ok, save \in BOOLEAN, class \in {"sqlite-full", "write-failed"} :
          /\ ok => committed
          /\ outcome' = IF ~ok THEN class
                        ELSE IF key[current] \in stored THEN "duplicate" ELSE "inserted"
          /\ stored' = IF committed THEN stored \cup {key[current]} ELSE stored
          /\ checkpoint' = IF committed /\ save THEN checkpoint \cup {key[current]}
                           ELSE checkpoint
    /\ wpc' = "note"
    /\ UNCHANGED <<channels, closing, closed, stats, episodes, pending, caller, current,
                   answer, events, lost>>

(* noteProcessed: a success ends the failure episode. *)
NoteProcessed ==
    /\ wpc = "note" /\ outcome \in {"inserted", "duplicate"}
    /\ pending' = pending \ {current}
    /\ processed' = processed + 1
    /\ deduplicated' = deduplicated + (IF outcome = "duplicate" THEN 1 ELSE 0)
    /\ failureActive' = FALSE /\ failureClass' = None
    /\ wpc' = "publish"
    /\ UNCHANGED <<channels, closing, closed, accepted, rejected, dropped, failed,
                   overflowActive, caller, current, outcome, answer, durable, lost>>

(* noteFailure: the first failure of an episode is recorded. *)
NoteFailure ==
    /\ wpc = "note" /\ outcome \in {"sqlite-full", "write-failed"}
    /\ pending' = pending \ {current}
    /\ failed' = failed + 1
    /\ failureActive' = TRUE /\ failureClass' = outcome
    /\ wpc' = IF failureActive THEN "publish" ELSE "report"
    /\ UNCHANGED <<channels, closing, closed, accepted, rejected, processed, deduplicated,
                   dropped, overflowActive, caller, current, outcome, answer, durable, lost>>

ReportFailure ==
    /\ wpc = "report"
    /\ RecordEpisode("ingestion-write-failed")
    /\ wpc' = "publish"
    /\ UNCHANGED <<queue, queueClosed, closing, closed, stats, episodes, pending, caller,
                   current, outcome, answer, durable>>

(* Mutant: a failed write leaves the receipt unanswered. *)
PublishSuccessOnly ==
    /\ wpc = "publish"
    /\ answer' = [answer EXCEPT ![current] =
                     IF outcome \in {"inserted", "duplicate"} THEN outcome ELSE None]
    /\ wpc' = "settle"
    /\ UNCHANGED <<channels, closing, closed, stats, episodes, pending, caller, current,
                   outcome, durable, lost>>

(* The outcome is stored in the receipt before ready is closed. *)
Publish ==
    /\ wpc = "publish"
    /\ answer' = [answer EXCEPT ![current] = outcome]
    /\ wpc' = "settle"
    /\ UNCHANGED <<channels, closing, closed, stats, episodes, pending, caller, current,
                   outcome, durable, lost>>

(* maybeEndOverflowEpisode reads the depth, then clears the flag. *)
Settle ==
    /\ wpc = "settle"
    /\ current' = None /\ outcome' = None
    /\ wpc' = IF Len(queue) <= Capacity \div 2 THEN "clear" ELSE "select"
    /\ UNCHANGED <<channels, closing, closed, stats, episodes, pending, caller, answer,
                   durable, lost>>

ClearOverflow ==
    /\ wpc = "clear"
    /\ overflowActive' = FALSE
    /\ wpc' = "select"
    /\ UNCHANGED <<channels, closing, closed, stats, failureActive, failureClass, pending,
                   caller, current, outcome, answer, durable, lost>>

(* writeEpisode: the storage event is written, or the failure is logged.   *)
(* The worker does it between items, and until the lane is empty once the  *)
(* item channel is closed.                                                 *)
WriteEpisode ==
    /\ wpc \in {"select", "drain"} /\ eventQueue # <<>>
    /\ \/ events' = events \cup {Head(eventQueue)} /\ UNCHANGED lost
       \/ lost' = TRUE /\ UNCHANGED events
    /\ eventQueue' = Tail(eventQueue)
    /\ UNCHANGED <<queue, queueClosed, closing, closed, stats, episodes, pending, caller,
                   worker, answer, stored, checkpoint>>

-------------------------------------------------------------------------------
(* Close *)

Close ==
    /\ ~closing
    /\ closing' = TRUE
    /\ UNCHANGED <<channels, closed, stats, episodes, pending, caller, worker, answer,
                   durable, lost>>

(* Mutant: the channel is closed without waiting for the submitters. *)
CloseQueueAtOnce ==
    /\ closing /\ ~queueClosed
    /\ queueClosed' = TRUE
    /\ UNCHANGED <<queue, eventQueue, closing, closed, stats, episodes, pending, caller,
                   worker, answer, durable, lost>>

(* The goroutine of Close waits for every submitter, then closes. *)
CloseQueue ==
    /\ closing /\ ~queueClosed /\ Submitting = {}
    /\ queueClosed' = TRUE
    /\ UNCHANGED <<queue, eventQueue, closing, closed, stats, episodes, pending, caller,
                   worker, answer, durable, lost>>

SeeClosed ==
    /\ wpc = "select" /\ queueClosed /\ queue = <<>>
    /\ wpc' = "drain"
    /\ UNCHANGED <<channels, closing, closed, stats, episodes, pending, caller, current,
                   outcome, answer, durable, lost>>

(* The owned sink is closed, then closed is set and done is signalled. *)
Stop ==
    /\ wpc = "drain" /\ eventQueue = <<>>
    /\ wpc' = "stopped" /\ closed' = TRUE
    /\ UNCHANGED <<channels, closing, stats, episodes, pending, caller, current, outcome,
                   answer, durable, lost>>

SubmitStep(i) == Send(i) \/ Accept(i) \/ CountDrop(i) \/ FlagDrop(i) \/ RecordDrop(i)

WorkerStep ==
    \/ TakeItem \/ Process \/ NoteProcessed \/ NoteFailure \/ ReportFailure
    \/ Publish \/ Settle \/ ClearOverflow \/ WriteEpisode \/ SeeClosed \/ Stop

Next ==
    \/ \E i \in Items : Reject(i) \/ BeginSubmit(i) \/ GiveUp(i) \/ SubmitStep(i)
    \/ WorkerStep
    \/ Close \/ CloseQueue

Spec == Init /\ [][Next]_vars
-------------------------------------------------------------------------------
(* Properties *)

Answers == {"inserted", "duplicate", "sqlite-full", "write-failed"}

Queued(i) == \E n \in 1..Len(queue) : queue[n] = i

(* What Stats and Health publish.                                          *)
StatsAddUp ==
    /\ accepted = processed + failed + Cardinality(pending)
    /\ accepted = Cardinality({i \in Items : pc[i] = "accepted"})
    /\ rejected = Cardinality({i \in Items : pc[i] = "rejected"})
    /\ dropped = Cardinality({i \in Items : pc[i] \in {"flagging", "recording", "gone"}})

(* No accepted evidence disappears between submit and receipt: an item in  *)
(* the channel or with the worker was sent exactly once and is not         *)
(* answered, and an accepted item is in the channel, with the worker, or   *)
(* answered; the published counters account for every submission, pending  *)
(* ones included; and once Close has returned nil nothing is left behind.  *)
NothingIsLost ==
    /\ \A m, n \in 1..Len(queue) : queue[m] = queue[n] => m = n
    /\ \A i \in Items :
          /\ Queued(i) \/ current = i => pc[i] \in {"sent", "accepted"}
          /\ Queued(i) => answer[i] = None /\ current # i
          /\ pc[i] \in {"sent", "accepted"} =>
                Queued(i) \/ current = i \/ answer[i] # None
    /\ StatsAddUp
    /\ closed => queue = <<>> /\ eventQueue = <<>> /\ Submitting = {}

(* A receipt that reports success is about durable evidence, at most one   *)
(* receipt per source key reports the insertion, and a saved checkpoint    *)
(* never runs ahead of the evidence it covers.                             *)
ReceiptsAreTruthful ==
    /\ \A i \in Items : answer[i] \in {"inserted", "duplicate"} => key[i] \in stored
    /\ \A i, j \in Items :
          (answer[i] = "inserted" /\ answer[j] = "inserted" /\ key[i] = key[j]) => i = j
    /\ checkpoint \subseteq stored

Recorded(kind) == kind \in events \/ lost \/ \E n \in 1..Len(eventQueue) : eventQueue[n] = kind

(* No loss of evidence is silent: once a drop or a failed write has been   *)
(* answered, its episode is written, in the lane, about to be put there by *)
(* whoever opened it, or was logged because the lane was full or the event *)
(* could not be written.                                                   *)
LossIsRecorded ==
    /\ (\E i \in Items : pc[i] = "gone") =>
          \/ Recorded("ingestion-backpressure")
          \/ \E j \in Items : pc[j] = "recording"
    /\ (\E i \in Items : answer[i] \in {"sqlite-full", "write-failed"}) =>
          Recorded("ingestion-write-failed")

(* The states Health derives from the fields above (latency left out). *)
HealthState ==
    IF closed THEN "closed" ELSE IF closing THEN "closing"
    ELSE IF failureActive /\ failureClass = "sqlite-full" THEN "storage-full"
    ELSE IF failureActive THEN "write-failed"
    ELSE IF overflowActive THEN "backpressure" ELSE "current"

AtRest == queue = <<>> /\ wpc = "select" /\ Submitting = {}

(* "backpressure" describes the current saturation episode: an ingestor    *)
(* with nothing queued, nothing in work and no submitter does not report   *)
(* it.                                                                     *)
BackpressureIsCurrent == HealthState = "backpressure" => ~AtRest

(* The worker and a submitter that holds a place run on; Go's scheduler    *)
(* does not starve a runnable goroutine, and a sink call returns.          *)
Fairness ==
    /\ WF_vars(WorkerStep) /\ WF_vars(CloseQueue)
    /\ \A i \in Items : WF_vars(SubmitStep(i))

(* Every accepted record is answered, whatever else is submitted, and      *)
(* Close completes: submitters that wait for room get it, and the worker,  *)
(* which reports its own failures on a lane that only it empties, drains   *)
(* both channels and stops.                                                *)
AcceptedIsAnswered ==
    /\ \A i \in Items : pc[i] = "accepted" ~> answer[i] # None
    /\ closing ~> closed
===============================================================================
