-------------------------- MODULE Collection_proofs --------------------------
(*****************************************************************************)
(* Proofs about the two ways observations reach the store: the ingestion     *)
(* queue (Ingestion, for any finite set of submissions, any keys and any     *)
(* capacities of the two channels, under every interleaving of the           *)
(* submitters, the worker and Close) and the connection to an external       *)
(* collector (ExternalConnection, for any number of endpoints, references,   *)
(* collectors, failures, restarts and enrollments). The parts share no       *)
(* state.                                                                    *)
(* Ingestion: PlaceInv, inductive by itself, says where a submission, the    *)
(* worker and Close are with respect to each other. On top of it CountInv    *)
(* ties the counters to the places, TruthInv the receipts to the store, and  *)
(* LossInv the episode flags to the recorded episodes.                       *)
(* ExternalConnection: CredentialAgrees is not inductive: what each step     *)
(* may do to the keychain depends on how far the operation that holds the    *)
(* mutex is. Placed says what that operation knows of the durable state at   *)
(* each place, and ConnectionInv adds the types and what the last command    *)
(* was told.                                                                 *)
(*****************************************************************************)
EXTENDS Ingestion, ExternalConnection, FiniteSetTheorems, TLAPS

-------------------------------------------------------------------------------
(* The ingestion queue *)

Kinds == {"ingestion-backpressure", "ingestion-write-failed"}

Places == {"new", "rejected", "begun", "sent", "accepted", "counting", "flagging", "recording", "gone"}

(* The places before submit returns. *)
Within == {"begun", "sent", "counting", "flagging", "recording"}

Type ==
    /\ queue \in Seq(Items) /\ eventQueue \in Seq(Kinds)
    /\ pc \in [Items -> Places] /\ key \in [Items -> Keys \cup {None}]
    /\ answer \in [Items -> Answers \cup {None}]
    /\ current \in Items \cup {None} /\ outcome \in Answers \cup {None}
    /\ wpc \in {"select", "process", "note", "report", "publish", "settle", "clear", "drain", "stopped"}

In(s, x) == \E n \in 1..Len(s) : s[n] = x

Distinct(s) == \A m, n \in 1..Len(s) : s[m] = s[n] => m = n

QueueInv ==
    /\ Distinct(queue)
    /\ \A i \in Items :
          /\ In(queue, i) => pc[i] \in {"sent", "accepted"} /\ answer[i] = None /\ current # i
          /\ pc[i] \in {"sent", "accepted"} => In(queue, i) \/ current = i \/ answer[i] # None
          /\ answer[i] # None => pc[i] = "accepted"

WorkerInv ==
    /\ wpc \in {"process", "note", "report", "publish", "settle"} <=> current # None
    /\ current # None => pc[current] \in {"sent", "accepted"}
    /\ wpc \in {"note", "report", "publish", "settle"} => pc[current] = "accepted" /\ outcome \in Answers
    /\ wpc \in {"process", "note", "report", "publish"} => answer[current] = None
    /\ wpc = "settle" => answer[current] = outcome

CloseInv ==
    /\ queueClosed => closing /\ \A i \in Items : pc[i] \notin Within
    /\ wpc \in {"drain", "stopped"} => queueClosed /\ queue = <<>>
    /\ closed => wpc = "stopped"
    /\ wpc = "stopped" => eventQueue = <<>>

PlaceInv == Type /\ QueueInv /\ WorkerInv /\ CloseInv

-------------------------------------------------------------------------------
(* The channels *)

LEMMA Appended ==
  ASSUME NEW S, NEW s \in Seq(S), NEW x \in S
  PROVE  /\ Append(s, x) \in Seq(S)
         /\ \A y : In(Append(s, x), y) <=> In(s, y) \/ y = x
         /\ Distinct(s) /\ ~In(s, x) => Distinct(Append(s, x))
  <1>1. /\ Append(s, x) \in Seq(S) /\ Len(Append(s, x)) = Len(s) + 1 /\ Len(s) \in Nat
        /\ \A n \in 1..Len(s) : Append(s, x)[n] = s[n]
        /\ Append(s, x)[Len(s) + 1] = x
    OBVIOUS
  <1>2. 1..(Len(s) + 1) = (1..Len(s)) \cup {Len(s) + 1}
    BY <1>1
  <1> QED
    BY <1>1, <1>2 DEF In, Distinct

LEMMA Taken ==
  ASSUME NEW S, NEW s \in Seq(S), s # <<>>
  PROVE  /\ Head(s) \in S /\ Tail(s) \in Seq(S) /\ In(s, Head(s))
         /\ \A y : In(s, y) <=> In(Tail(s), y) \/ y = Head(s)
         /\ Distinct(s) => Distinct(Tail(s)) /\ ~In(Tail(s), Head(s))
  <1>1. /\ Head(s) = s[1] /\ Tail(s) \in Seq(S) /\ Len(s) \in Nat /\ Len(s) >= 1
        /\ Len(Tail(s)) = Len(s) - 1
        /\ \A n \in 1..(Len(s) - 1) : Tail(s)[n] = s[n + 1]
    OBVIOUS
  <1>2. \A n \in 1..Len(s) : n = 1 \/ (n - 1) \in 1..(Len(s) - 1)
    BY <1>1
  <1>3. \A n \in 1..(Len(s) - 1) : n + 1 \in 1..Len(s) /\ n + 1 # 1
    BY <1>1
  <1>4. Head(s) \in S /\ In(s, Head(s))
    BY <1>1 DEF In
  <1>5. ASSUME NEW y PROVE In(s, y) <=> In(Tail(s), y) \/ y = Head(s)
    <2>1. ASSUME NEW n \in 1..Len(s), s[n] = y, n # 1 PROVE In(Tail(s), y)
      <3>1. (n - 1) \in 1..Len(Tail(s)) /\ Tail(s)[n - 1] = s[(n - 1) + 1] /\ (n - 1) + 1 = n
        BY <1>1, <1>2, <2>1
      <3> QED
        BY <2>1, <3>1, Zenon DEF In
    <2>2. In(Tail(s), y) => In(s, y)
      BY <1>1, <1>3, Zenon DEF In
    <2> QED
      BY <1>1, <1>4, <2>1, <2>2, Zenon DEF In
  <1>6. Distinct(s) => Distinct(Tail(s)) /\ ~In(Tail(s), Head(s))
    BY <1>1, <1>3 DEF Distinct, In
  <1> QED
    BY <1>1, <1>4, <1>5, <1>6, Zenon

-------------------------------------------------------------------------------
(* Places *)

LEMMA PlaceInit == Init => PlaceInv
  BY CapacityAssumption DEF Init, PlaceInv, Type, QueueInv, WorkerInv, CloseInv, Places, Within,
      In, Distinct

(* A submitter moves without touching the item channel. *)
LEMMA SubmitterMoves ==
  ASSUME PlaceInv, NEW i \in Items, NEW w \in Places, Goto(i, w),
         UNCHANGED <<queue, queueClosed, closing, closed, worker, answer>>,
         key' \in [Items -> Keys \cup {None}],
         \/ pc[i] \notin {"sent", "accepted"} /\ w \notin {"sent", "accepted"}
         \/ pc[i] = "sent" /\ w = "accepted",
         w \in Within => pc[i] \in Within \/ ~closing,
         eventQueue' \in Seq(Kinds),
         eventQueue' = eventQueue \/ pc[i] \in Within
  PROVE  PlaceInv'
  <1> USE CapacityAssumption DEF PlaceInv, worker
  <1>1. /\ pc' \in [Items -> Places] /\ pc'[i] = w
        /\ \A j \in Items : j # i => pc'[j] = pc[j]
    BY Zenon DEF Goto, Type
  <1>2. Type'
    BY <1>1, Zenon DEF Type
  <1>3. QueueInv'
    BY <1>1, Zenon DEF QueueInv, Type
  <1>4. WorkerInv'
    BY <1>1, Zenon DEF WorkerInv, Type
  <1>5. CloseInv'
    BY <1>1, Zenon DEF CloseInv
  <1> QED
    BY <1>2, <1>3, <1>4, <1>5, Zenon

LEMMA SendKeeps == ASSUME PlaceInv, NEW i \in Items, Send(i) PROVE PlaceInv'
  <1> USE CapacityAssumption DEF PlaceInv, Send, worker
  <1>1. /\ pc' \in [Items -> Places] /\ pc'[i] = "sent" /\ pc[i] = "begun"
        /\ \A j \in Items : j # i => pc'[j] = pc[j]
    BY Zenon DEF Goto, Type, Places
  <1>2. ~In(queue, i) /\ current # i /\ answer[i] = None /\ ~queueClosed
    BY <1>1, Zenon DEF QueueInv, WorkerInv, CloseInv, Within
  <1>3. /\ queue' \in Seq(Items) /\ Distinct(queue')
        /\ \A y : In(queue', y) <=> In(queue, y) \/ y = i
    BY <1>2, Appended DEF QueueInv, Type
  <1>4. Type'
    BY <1>1, <1>3, Zenon DEF Type
  <1>5. QueueInv'
    BY <1>1, <1>2, <1>3, Zenon DEF QueueInv, Type
  <1>6. WorkerInv'
    BY <1>1, <1>2, Zenon DEF WorkerInv, Type
  <1>7. CloseInv'
    BY <1>2, Zenon DEF CloseInv
  <1> QED
    BY <1>4, <1>5, <1>6, <1>7, Zenon

LEMMA TakeKeeps == ASSUME PlaceInv, TakeItem PROVE PlaceInv'
  <1> USE CapacityAssumption DEF PlaceInv, TakeItem, caller
  <1>1. /\ current' \in Items /\ queue' \in Seq(Items) /\ Distinct(queue')
        /\ In(queue, current') /\ ~In(queue', current')
        /\ \A y : In(queue, y) <=> In(queue', y) \/ y = current'
    BY Taken, Zenon DEF Type, QueueInv
  <1>2. current = None
    BY Zenon DEF WorkerInv
  <1>3. Type'
    BY <1>1, Zenon DEF Type
  <1>4. QueueInv'
    BY <1>1, <1>2, Zenon DEF QueueInv
  <1>5. WorkerInv'
    BY <1>1, Zenon DEF WorkerInv, QueueInv
  <1>6. CloseInv'
    BY Zenon DEF CloseInv
  <1> QED
    BY <1>3, <1>4, <1>5, <1>6, Zenon

(* The worker moves on with the item it holds. *)
LEMMA WorkerMoves ==
  ASSUME PlaceInv,
         Process \/ NoteProcessed \/ NoteFailure \/ ReportFailure \/ Publish \/ Settle \/ ClearOverflow
  PROVE  PlaceInv'
  <1> USE CapacityAssumption DEF PlaceInv
  <1>0. UNCHANGED <<queue, queueClosed, closing, closed, pc, key>>
    BY Zenon DEF Process, NoteProcessed, NoteFailure, ReportFailure, Publish, Settle, ClearOverflow,
        channels, caller
  <1>1. CASE Process
    BY <1>0, <1>1 DEF Process, channels, Type, QueueInv, WorkerInv, CloseInv, Answers
  <1>2. CASE NoteProcessed
    BY <1>0, <1>2 DEF NoteProcessed, channels, Type, QueueInv, WorkerInv, CloseInv
  <1>3. CASE NoteFailure
    BY <1>0, <1>3 DEF NoteFailure, channels, Type, QueueInv, WorkerInv, CloseInv
  <1>4. CASE ReportFailure
    <2>1. eventQueue \in Seq(Kinds) /\ "ingestion-write-failed" \in Kinds
      BY Zenon DEF Type, Kinds
    <2>2. eventQueue' \in Seq(Kinds)
      BY <1>4, <2>1, Appended DEF ReportFailure, RecordEpisode
    <2> QED
      BY <1>0, <1>4, <2>2 DEF ReportFailure, Type, QueueInv, WorkerInv, CloseInv
  <1>5. CASE Publish
    <2>1. /\ current \in Items /\ answer' \in [Items -> Answers \cup {None}]
          /\ answer'[current] = outcome /\ outcome \in Answers /\ outcome # None
          /\ \A j \in Items : j # current => answer'[j] = answer[j]
      BY <1>5, Zenon DEF Publish, Type, WorkerInv, Answers
    <2> QED
      BY <1>0, <1>5, <2>1 DEF Publish, channels, Type, QueueInv, WorkerInv, CloseInv
  <1>6. CASE Settle
    <2>1. current \in Items /\ answer[current] # None
      BY <1>6, Zenon DEF Settle, Type, WorkerInv, Answers
    <2> QED
      BY <1>0, <1>6, <2>1 DEF Settle, channels, Type, QueueInv, WorkerInv, CloseInv
  <1>7. CASE ClearOverflow
    BY <1>0, <1>7 DEF ClearOverflow, channels, Type, QueueInv, WorkerInv, CloseInv
  <1> QED
    BY <1>1, <1>2, <1>3, <1>4, <1>5, <1>6, <1>7

LEMMA EpisodeKeeps == ASSUME PlaceInv, WriteEpisode PROVE PlaceInv'
  <1>1. eventQueue' \in Seq(Kinds)
    BY Taken, Zenon DEF WriteEpisode, PlaceInv, Type
  <1> QED
    BY <1>1, Zenon DEF WriteEpisode, PlaceInv, Type, QueueInv, WorkerInv, CloseInv, caller, worker

LEMMA CloseKeeps ==
  ASSUME PlaceInv, Close \/ CloseQueue \/ SeeClosed \/ Stop
  PROVE  PlaceInv'
  <1> USE CapacityAssumption DEF PlaceInv
  <1>1. CASE Close
    BY <1>1, Zenon DEF Close, channels, caller, worker, Type, QueueInv, WorkerInv, CloseInv
  <1>2. CASE CloseQueue
    BY <1>2, Zenon DEF CloseQueue, Submitting, caller, worker, Within, Type, QueueInv, WorkerInv, CloseInv
  <1>3. CASE SeeClosed
    BY <1>3, Zenon DEF SeeClosed, channels, caller, Type, QueueInv, WorkerInv, CloseInv
  <1>4. CASE Stop
    BY <1>4, Zenon DEF Stop, channels, caller, Type, QueueInv, WorkerInv, CloseInv
  <1> QED
    BY <1>1, <1>2, <1>3, <1>4

(* Where the submitters, run and Close are agrees with what the queue       *)
(* holds: an accepted submission is queued, current or answered, once.      *)
THEOREM PlaceInvariance == Spec => []PlaceInv
  <1>1. PlaceInv /\ [Next]_vars => PlaceInv'
    <2> SUFFICES ASSUME PlaceInv, [Next]_vars PROVE PlaceInv'
      BY Zenon
    <2> USE DEF channels, caller, Places, Within
    <2>0. key \in [Items -> Keys \cup {None}] /\ eventQueue \in Seq(Kinds)
      BY Zenon DEF PlaceInv, Type
    <2>1. ASSUME NEW i \in Items, Reject(i) PROVE PlaceInv'
      BY <2>0, <2>1, SubmitterMoves, Zenon DEF Reject
    <2>2. ASSUME NEW i \in Items, BeginSubmit(i) PROVE PlaceInv'
      BY <2>0, <2>2, SubmitterMoves, Zenon DEF BeginSubmit
    <2>3. ASSUME NEW i \in Items, GiveUp(i) PROVE PlaceInv'
      BY <2>0, <2>3, SubmitterMoves, Zenon DEF GiveUp
    <2>4. ASSUME NEW i \in Items, Accept(i) PROVE PlaceInv'
      BY <2>0, <2>4, SubmitterMoves, Zenon DEF Accept
    <2>5. ASSUME NEW i \in Items, CountDrop(i) PROVE PlaceInv'
      BY <2>0, <2>5, SubmitterMoves, Zenon DEF CountDrop
    <2>6. ASSUME NEW i \in Items, FlagDrop(i) PROVE PlaceInv'
      BY <2>0, <2>6, SubmitterMoves, Zenon DEF FlagDrop
    <2>7. ASSUME NEW i \in Items, RecordDrop(i) PROVE PlaceInv'
      <3>1. eventQueue' \in Seq(Kinds)
        BY <2>0, <2>7, Appended DEF RecordDrop, RecordEpisode, Kinds
      <3> QED
        BY <2>0, <2>7, <3>1, SubmitterMoves, Zenon DEF RecordDrop
    <2>8. CASE UNCHANGED vars
      BY <2>8, Zenon DEF vars, worker, PlaceInv, Type, QueueInv, WorkerInv, CloseInv
    <2> QED
      BY <2>1, <2>2, <2>3, <2>4, <2>5, <2>6, <2>7, <2>8, SendKeeps, TakeKeeps, WorkerMoves,
         EpisodeKeeps, CloseKeeps DEF Next, SubmitStep, WorkerStep
  <1> QED
    BY PlaceInit, <1>1, PTL DEF Spec

-------------------------------------------------------------------------------
(* Receipts.  What the worker is about to publish is true of the store.     *)

TruthInv ==
    /\ ReceiptsAreTruthful
    /\ wpc \in {"note", "report", "publish"} =>
          /\ outcome \in {"inserted", "duplicate"} => key[current] \in stored
          /\ outcome = "inserted" => \A j \in Items : answer[j] = "inserted" => key[j] # key[current]

truthVars == <<key, answer, stored, checkpoint>>

LEMMA ProcessIsTrue == ASSUME PlaceInv, TruthInv, Process PROVE TruthInv'
  <1> USE CapacityAssumption DEF Process, caller
  <1>1. current \in Items /\ UNCHANGED <<key, answer, current>> /\ stored \subseteq stored'
    BY Zenon DEF PlaceInv, WorkerInv, Type
  <1>2. ReceiptsAreTruthful'
    BY <1>1, Zenon DEF TruthInv, ReceiptsAreTruthful
  <1>3. outcome' \in {"inserted", "duplicate"} => key[current] \in stored'
    BY Zenon
  <1>4. outcome' = "inserted" => key[current] \notin stored
    BY Zenon
  <1> QED
    BY <1>1, <1>2, <1>3, <1>4, Zenon DEF TruthInv, ReceiptsAreTruthful

LEMMA PublishIsTrue == ASSUME PlaceInv, TruthInv, Publish PROVE TruthInv'
  <1> USE CapacityAssumption DEF Publish, caller, durable
  <1>1. /\ current \in Items /\ UNCHANGED <<key, stored, checkpoint>>
        /\ answer'[current] = outcome
        /\ \A j \in Items : j # current => answer'[j] = answer[j]
    BY Zenon DEF PlaceInv, WorkerInv, Type
  <1> QED
    BY <1>1 DEF TruthInv, ReceiptsAreTruthful

LEMMA BeginIsTrue == ASSUME PlaceInv, TruthInv, NEW i \in Items, BeginSubmit(i) PROVE TruthInv'
  <1> USE CapacityAssumption DEF BeginSubmit, worker, durable
  <1>1. answer[i] = None /\ current # i /\ \A j \in Items : j # i => key'[j] = key[j]
    BY Zenon DEF PlaceInv, QueueInv, WorkerInv, Type
  <1>2. wpc \in {"note", "report", "publish"} => current \in Items
    BY Zenon DEF PlaceInv, WorkerInv, Type
  <1> QED
    BY <1>1, <1>2 DEF TruthInv, ReceiptsAreTruthful

(* A receipt that reports success is about durable evidence, one receipt    *)
(* per key reports the insertion, and no checkpoint runs ahead of the       *)
(* evidence (ingestObservation, the atomic batch sink), for any number of   *)
(* submissions.                                                             *)
THEOREM TruthfulReceipts == Spec => []ReceiptsAreTruthful
  <1>1. Init => TruthInv
    BY CapacityAssumption, Zenon DEF Init, TruthInv, ReceiptsAreTruthful
  <1>2. PlaceInv /\ TruthInv /\ [Next]_vars => TruthInv'
    <2> SUFFICES ASSUME PlaceInv, TruthInv, [Next]_vars PROVE TruthInv'
      BY Zenon
    <2>1. CASE UNCHANGED <<truthVars, worker>>
      BY <2>1, Zenon DEF truthVars, worker, TruthInv, ReceiptsAreTruthful
    <2>2. CASE UNCHANGED truthVars /\ wpc' \notin {"note", "report", "publish"}
      BY <2>2, Zenon DEF truthVars, TruthInv, ReceiptsAreTruthful
    <2>3. CASE NoteProcessed \/ NoteFailure \/ ReportFailure
      BY <2>3, Zenon DEF NoteProcessed, NoteFailure, ReportFailure, caller, durable, TruthInv, ReceiptsAreTruthful
    <2>4. CASE TakeItem \/ Settle \/ ClearOverflow \/ SeeClosed \/ Stop
      BY <2>2, <2>4, Zenon DEF TakeItem, Settle, ClearOverflow, SeeClosed, Stop, caller, durable, truthVars
    <2>5. CASE WriteEpisode \/ Close \/ CloseQueue \/ UNCHANGED vars
      BY <2>1, <2>5, Zenon DEF WriteEpisode, Close, CloseQueue, vars, caller, durable, truthVars
    <2>6. ASSUME NEW i \in Items, Reject(i) \/ GiveUp(i) \/ SubmitStep(i) PROVE TruthInv'
      BY <2>1, <2>6, Zenon DEF Reject, GiveUp, SubmitStep, Send, Accept, CountDrop, FlagDrop, RecordDrop,
          durable, truthVars
    <2> QED
      BY <2>3, <2>4, <2>5, <2>6, ProcessIsTrue, PublishIsTrue, BeginIsTrue DEF Next, WorkerStep
  <1>3. TruthInv => ReceiptsAreTruthful
    BY Zenon DEF TruthInv
  <1> QED
    BY <1>1, <1>2, <1>3, PlaceInvariance, PTL DEF Spec

-------------------------------------------------------------------------------
(* Episodes.  A raised flag means that somebody has recorded its episode or *)
(* is about to.                                                             *)

Failures == {"sqlite-full", "write-failed"}

LossInv ==
    /\ overflowActive \/ (\E i \in Items : pc[i] = "gone") =>
          Recorded("ingestion-backpressure") \/ \E j \in Items : pc[j] = "recording"
    /\ failureActive => Recorded("ingestion-write-failed") \/ wpc = "report"
    /\ (\E i \in Items : answer[i] \in Failures) => Recorded("ingestion-write-failed")
    /\ wpc = "publish" /\ outcome \in Failures => Recorded("ingestion-write-failed")

LEMMA RecordsEpisode ==
  ASSUME PlaceInv, NEW kind \in Kinds, RecordEpisode(kind), UNCHANGED events
  PROVE  Recorded(kind)' /\ \A k : Recorded(k) => Recorded(k)'
  <1>1. CASE eventQueue' = Append(eventQueue, kind) /\ UNCHANGED lost
    <2>1. \A y : In(eventQueue', y) <=> In(eventQueue, y) \/ y = kind
      BY <1>1, Appended, Zenon DEF PlaceInv, Type
    <2> QED
      BY <1>1, <2>1, Zenon DEF Recorded, In
  <1>2. CASE lost'
    BY <1>2, Zenon DEF Recorded
  <1> QED
    BY <1>1, <1>2, Zenon DEF RecordEpisode

LEMMA WritingKeepsRecord ==
  ASSUME PlaceInv, WriteEpisode PROVE \A k : Recorded(k) => Recorded(k)'
  <1>1. \A y : In(eventQueue, y) <=> In(eventQueue', y) \/ y = Head(eventQueue)
    BY Taken DEF WriteEpisode, PlaceInv, Type
  <1> QED
    BY <1>1, Zenon DEF WriteEpisode, Recorded, In

(* No loss of evidence is silent: noteDropped, noteFailure, recordEpisode   *)
(* and writeEpisode, for any number of submitters and any lane.             *)
THEOREM RecordedLosses == Spec => []LossIsRecorded
  <1>1. Init => LossInv
    BY CapacityAssumption, Zenon DEF Init, LossInv, Failures
  <1>2. PlaceInv /\ LossInv /\ [Next]_vars => LossInv'
    <2> SUFFICES ASSUME PlaceInv, LossInv, [Next]_vars PROVE LossInv'
      OBVIOUS
    <2> USE DEF LossInv
    <2>0. pc \in [Items -> Places] /\ Kinds = {"ingestion-backpressure", "ingestion-write-failed"}
      BY Zenon DEF PlaceInv, Type, Kinds
    <2>1. ASSUME NEW i \in Items, Reject(i) \/ BeginSubmit(i) \/ GiveUp(i) \/ Send(i) \/ Accept(i) \/ CountDrop(i)
          PROVE  LossInv'
      <3>1. /\ UNCHANGED <<episodes, eventQueue, events, lost, answer, wpc, outcome>>
            /\ pc[i] # "recording" /\ pc'[i] # "gone" /\ \A j \in Items : j # i => pc'[j] = pc[j]
        BY <2>0, <2>1, Zenon DEF Reject, BeginSubmit, GiveUp, Send, Accept, CountDrop, Goto, channels, worker, durable
      <3> QED
        BY <3>1, Zenon DEF episodes, Recorded
    <2>2. ASSUME NEW i \in Items, FlagDrop(i) PROVE LossInv'
      <3>1. /\ UNCHANGED <<failureActive, eventQueue, events, lost, answer, wpc, outcome>>
            /\ pc[i] = "flagging" /\ pc'[i] = (IF overflowActive THEN "gone" ELSE "recording")
            /\ \A j \in Items : j # i => pc'[j] = pc[j]
        BY <2>0, <2>2, Zenon DEF FlagDrop, Goto, channels, worker, durable
      <3> QED
        BY <3>1, Zenon DEF Recorded
    <2>3. ASSUME NEW i \in Items, RecordDrop(i) PROVE LossInv'
      <3>1. Recorded("ingestion-backpressure")' /\ \A k : Recorded(k) => Recorded(k)'
        BY <2>0, <2>3, RecordsEpisode, Zenon DEF RecordDrop, durable
      <3> QED
        BY <2>3, <3>1, Zenon DEF RecordDrop, episodes, worker
    <2>4. CASE TakeItem \/ Process \/ Settle \/ ClearOverflow \/ SeeClosed \/ Stop
      BY <2>4 DEF TakeItem, Process, Settle, ClearOverflow, SeeClosed, Stop, channels, caller, episodes,
          durable, Recorded
    <2>5. CASE NoteProcessed \/ NoteFailure
      <3>1. /\ UNCHANGED <<pc, answer, outcome, overflowActive, events, lost, eventQueue>>
            /\ wpc = "note"
            /\ wpc' = "publish" => outcome \notin Failures \/ failureActive
            /\ failureActive' => failureActive \/ wpc' = "report"
        BY <2>5, Zenon DEF NoteProcessed, NoteFailure, channels, caller, durable, Failures
      <3>2. \A k : Recorded(k)' <=> Recorded(k)
        BY <3>1, Zenon DEF Recorded
      <3> QED
        BY <3>1, <3>2, Zenon
    <2>6. CASE ReportFailure
      <3>1. Recorded("ingestion-write-failed")' /\ \A k : Recorded(k) => Recorded(k)'
        BY <2>0, <2>6, RecordsEpisode, Zenon DEF ReportFailure, durable
      <3> QED
        BY <2>6, <3>1, Zenon DEF ReportFailure, caller, episodes
    <2>7. CASE Publish
      <3>1. \A j \in Items : answer'[j] = answer[j] \/ answer'[j] = outcome
        BY <2>7, Zenon DEF Publish, PlaceInv, Type
      <3> QED
        BY <2>7, <3>1, Zenon DEF Publish, channels, caller, episodes, durable, Recorded
    <2>8. CASE WriteEpisode
      BY <2>8, WritingKeepsRecord, Zenon DEF WriteEpisode, caller, worker, episodes
    <2>9. CASE Close \/ CloseQueue \/ UNCHANGED vars
      <3>1. UNCHANGED <<pc, answer, wpc, outcome, overflowActive, failureActive, events, eventQueue, lost>>
        BY <2>9, Zenon DEF Close, CloseQueue, vars, channels, caller, worker, episodes, durable
      <3>2. \A k : Recorded(k)' <=> Recorded(k)
        BY <3>1, Zenon DEF Recorded
      <3> QED
        BY <3>1, <3>2, Zenon
    <2> QED
      BY <2>1, <2>2, <2>3, <2>4, <2>5, <2>6, <2>7, <2>8, <2>9 DEF Next, SubmitStep, WorkerStep
  <1>3. LossInv => LossIsRecorded
    BY Zenon DEF LossInv, LossIsRecorded, Failures
  <1> QED
    BY <1>1, <1>2, <1>3, PlaceInvariance, PTL DEF Spec

-------------------------------------------------------------------------------
(* Counters.  A receipt is pending from its acceptance until the worker has *)
(* counted its outcome.                                                     *)

AcceptedOnes == {i \in Items : pc[i] = "accepted"}
RejectedOnes == {i \in Items : pc[i] = "rejected"}
DroppedOnes == {i \in Items : pc[i] \in {"flagging", "recording", "gone"}}

PendingInv ==
    /\ pending \subseteq AcceptedOnes
    /\ \A i \in AcceptedOnes :
          In(queue, i) \/ (current = i /\ wpc \in {"process", "note"}) => i \in pending

CountInv ==
    /\ processed \in Nat /\ failed \in Nat
    /\ PendingInv
    /\ StatsAddUp

LEMMA FiniteOnes ==
  ASSUME NEW S, S \subseteq Items
  PROVE  IsFiniteSet(S) /\ Cardinality(S) \in Nat
  BY CapacityAssumption, FS_Subset, FS_CardinalityType, Zenon

(* StatsAddUp in terms of the sets. *)
LEMMA StatsOfOnes ==
  StatsAddUp <=> /\ accepted = processed + failed + Cardinality(pending)
                 /\ accepted = Cardinality(AcceptedOnes)
                 /\ rejected = Cardinality(RejectedOnes)
                 /\ dropped = Cardinality(DroppedOnes)
  BY Zenon DEF StatsAddUp, AcceptedOnes, RejectedOnes, DroppedOnes

(* Steps that count nothing. *)
LEMMA CountsNothing ==
  ASSUME CountInv, UNCHANGED <<stats, pending, AcceptedOnes, RejectedOnes, DroppedOnes>>, PendingInv'
  PROVE  CountInv'
  <1>1. StatsAddUp'
    BY StatsOfOnes, Zenon DEF CountInv, StatsAddUp, AcceptedOnes, RejectedOnes, DroppedOnes, stats
  <1> QED
    BY <1>1, Zenon DEF CountInv, stats

LEMMA SubmitterCounts ==
  ASSUME PlaceInv, CountInv, NEW i \in Items,
         Reject(i) \/ BeginSubmit(i) \/ GiveUp(i) \/ SubmitStep(i)
  PROVE  CountInv'
  <1> USE DEF channels, worker
  <1>0. pc \in [Items -> Places] /\ UNCHANGED <<current, wpc>>
    BY Zenon DEF PlaceInv, Type, Reject, BeginSubmit, GiveUp, SubmitStep, Send, Accept, CountDrop, FlagDrop,
        RecordDrop
  <1>f. /\ pending \subseteq Items /\ AcceptedOnes \subseteq Items
        /\ RejectedOnes \subseteq Items /\ DroppedOnes \subseteq Items
    BY Zenon DEF CountInv, PendingInv, AcceptedOnes, RejectedOnes, DroppedOnes
  <1>1. CASE Reject(i)
    <2>1. /\ UNCHANGED <<AcceptedOnes, DroppedOnes>>
          /\ RejectedOnes' = RejectedOnes \cup {i} /\ i \notin RejectedOnes
      BY <1>0, <1>1, Zenon DEF Reject, Goto, AcceptedOnes, RejectedOnes, DroppedOnes
    <2>2. Cardinality(RejectedOnes') = Cardinality(RejectedOnes) + 1
      BY <1>f, <2>1, FiniteOnes, FS_AddElement, Zenon
    <2>3. UNCHANGED <<queue, pending, accepted, processed, failed, dropped>> /\ rejected' = rejected + 1
      BY <1>1, Zenon DEF Reject
    <2>4. PendingInv'
      BY <1>0, <2>1, <2>3, Zenon DEF PendingInv, CountInv
    <2>5. StatsAddUp'
      BY <2>1, <2>2, <2>3, Zenon DEF CountInv, StatsAddUp, AcceptedOnes, RejectedOnes, DroppedOnes
    <2> QED
      BY <2>3, <2>4, <2>5, Zenon DEF CountInv
  <1>2. CASE BeginSubmit(i) \/ GiveUp(i) \/ FlagDrop(i) \/ RecordDrop(i)
    <2>1. UNCHANGED <<AcceptedOnes, RejectedOnes, DroppedOnes>>
      BY <1>0, <1>2, Zenon DEF BeginSubmit, GiveUp, FlagDrop, RecordDrop, Goto, AcceptedOnes, RejectedOnes,
          DroppedOnes
    <2>2. UNCHANGED <<queue, pending, stats>>
      BY <1>2, Zenon DEF BeginSubmit, GiveUp, FlagDrop, RecordDrop
    <2>3. PendingInv'
      BY <1>0, <2>1, <2>2, Zenon DEF PendingInv, CountInv
    <2> QED
      BY <2>1, <2>2, <2>3, CountsNothing
  <1>3. CASE Send(i)
    <2>1. UNCHANGED <<AcceptedOnes, RejectedOnes, DroppedOnes>> /\ i \notin AcceptedOnes
      BY <1>0, <1>3, Zenon DEF Send, Goto, AcceptedOnes, RejectedOnes, DroppedOnes
    <2>2. UNCHANGED <<pending, stats>> /\ \A y : In(queue', y) <=> In(queue, y) \/ y = i
      BY <1>3, Appended, Zenon DEF Send, PlaceInv, Type
    <2>3. PendingInv'
      BY <1>0, <2>1, <2>2, Zenon DEF PendingInv, CountInv
    <2> QED
      BY <2>1, <2>2, <2>3, CountsNothing
  <1>4. CASE Accept(i)
    <2>1. /\ UNCHANGED <<RejectedOnes, DroppedOnes>>
          /\ AcceptedOnes' = AcceptedOnes \cup {i} /\ i \notin AcceptedOnes /\ i \notin pending
      BY <1>0, <1>4, Zenon DEF Accept, Goto, AcceptedOnes, RejectedOnes, DroppedOnes, CountInv, PendingInv
    <2>2. /\ UNCHANGED <<queue, rejected, processed, failed, dropped>>
          /\ accepted' = accepted + 1 /\ pending' = pending \cup {i}
      BY <1>4, Zenon DEF Accept
    <2>3. /\ Cardinality(AcceptedOnes') = Cardinality(AcceptedOnes) + 1
          /\ Cardinality(pending') = Cardinality(pending) + 1
      BY <1>f, <2>1, <2>2, FiniteOnes, FS_AddElement
    <2>4. Cardinality(pending) \in Nat /\ Cardinality(AcceptedOnes) \in Nat
      BY <1>f, FiniteOnes, Zenon
    <2>5. PendingInv'
      BY <1>0, <2>1, <2>2, Zenon DEF PendingInv, CountInv
    <2>6. StatsAddUp'
      <3>1. /\ accepted = processed + failed + Cardinality(pending)
            /\ accepted = Cardinality(AcceptedOnes) /\ processed \in Nat /\ failed \in Nat
            /\ rejected = Cardinality(RejectedOnes) /\ dropped = Cardinality(DroppedOnes)
        BY StatsOfOnes, Zenon DEF CountInv
      <3>2. /\ accepted' = processed' + failed' + Cardinality(pending')
            /\ accepted' = Cardinality(AcceptedOnes')
        BY <2>2, <2>3, <2>4, <3>1
      <3>3. rejected' = Cardinality(RejectedOnes') /\ dropped' = Cardinality(DroppedOnes')
        BY <2>1, <2>2, <3>1, Zenon
      <3> QED
        BY <3>2, <3>3, Zenon DEF StatsAddUp, AcceptedOnes, RejectedOnes, DroppedOnes
    <2> QED
      BY <2>2, <2>5, <2>6, Zenon DEF CountInv
  <1>5. CASE CountDrop(i)
    <2>1. /\ UNCHANGED <<AcceptedOnes, RejectedOnes>>
          /\ DroppedOnes' = DroppedOnes \cup {i} /\ i \notin DroppedOnes
      BY <1>0, <1>5, Zenon DEF CountDrop, Goto, AcceptedOnes, RejectedOnes, DroppedOnes
    <2>2. Cardinality(DroppedOnes') = Cardinality(DroppedOnes) + 1
      BY <1>f, <2>1, FiniteOnes, FS_AddElement, Zenon
    <2>3. UNCHANGED <<queue, pending, accepted, rejected, processed, failed>> /\ dropped' = dropped + 1
      BY <1>5, Zenon DEF CountDrop
    <2>4. PendingInv'
      BY <1>0, <2>1, <2>3, Zenon DEF PendingInv, CountInv
    <2>5. StatsAddUp'
      BY <2>1, <2>2, <2>3, Zenon DEF CountInv, StatsAddUp, AcceptedOnes, RejectedOnes, DroppedOnes
    <2> QED
      BY <2>3, <2>4, <2>5, Zenon DEF CountInv
  <1> QED
    BY <1>1, <1>2, <1>3, <1>4, <1>5 DEF SubmitStep

(* The worker counts the outcome of a receipt that was pending. *)
LEMMA NoteCounts ==
  ASSUME PlaceInv, CountInv, NoteProcessed \/ NoteFailure PROVE CountInv'
  <1>1. /\ UNCHANGED <<queue, pc, current, accepted, rejected, dropped>>
        /\ pending' = pending \ {current} /\ wpc = "note" /\ wpc' \in {"report", "publish"}
        /\ \/ processed' = processed + 1 /\ failed' = failed
           \/ processed' = processed /\ failed' = failed + 1
    BY Zenon DEF NoteProcessed, NoteFailure, channels, caller
  <1>2. UNCHANGED <<AcceptedOnes, RejectedOnes, DroppedOnes>>
    BY <1>1, Zenon DEF AcceptedOnes, RejectedOnes, DroppedOnes
  <1>3. current \in AcceptedOnes /\ ~In(queue, current)
    BY CapacityAssumption, <1>1, Zenon DEF PlaceInv, WorkerInv, QueueInv, Type, AcceptedOnes
  <1>4. current \in pending
    BY <1>1, <1>3, Zenon DEF CountInv, PendingInv
  <1>5. IsFiniteSet(pending) /\ Cardinality(pending) \in Nat
    BY FiniteOnes, Zenon DEF CountInv, PendingInv, AcceptedOnes
  <1>6. Cardinality(pending') = Cardinality(pending) - 1
    BY <1>1, <1>4, <1>5, FS_RemoveElement, Zenon
  <1>7. PendingInv'
    BY <1>1, <1>2, <1>3, Zenon DEF CountInv, PendingInv
  <1>8. StatsAddUp'
    BY <1>1, <1>2, <1>5, <1>6 DEF CountInv, StatsAddUp, AcceptedOnes, RejectedOnes, DroppedOnes
  <1> QED
    BY <1>1, <1>7, <1>8 DEF CountInv

(* The pipeline's counters are the numbers of submissions that submit, run  *)
(* and noteDropped put where they count them, and pending is exact.         *)
THEOREM CountInvariance == Spec => []CountInv
  <1>1. Init => CountInv
    <2> SUFFICES ASSUME Init PROVE CountInv
      BY Zenon
    <2>1. AcceptedOnes = {} /\ RejectedOnes = {} /\ DroppedOnes = {} /\ pending = {}
      BY Zenon DEF Init, AcceptedOnes, RejectedOnes, DroppedOnes
    <2>2. /\ Cardinality(AcceptedOnes) = 0 /\ Cardinality(RejectedOnes) = 0
          /\ Cardinality(DroppedOnes) = 0 /\ Cardinality(pending) = 0
      <3>1. Cardinality({}) = 0
        BY FS_EmptySet, Zenon
      <3> QED
        BY <2>1, <3>1, Zenon
    <2>3. StatsAddUp
      BY <2>2, StatsOfOnes DEF Init
    <2> QED
      BY <2>1, <2>3, Zenon DEF Init, CountInv, PendingInv
  <1>2. PlaceInv /\ CountInv /\ [Next]_vars => CountInv'
    <2> SUFFICES ASSUME PlaceInv, CountInv, [Next]_vars PROVE CountInv'
      OBVIOUS
    <2>0. ASSUME UNCHANGED pc PROVE UNCHANGED <<AcceptedOnes, RejectedOnes, DroppedOnes>>
      BY <2>0, Zenon DEF AcceptedOnes, RejectedOnes, DroppedOnes
    <2>1. CASE TakeItem
      <3>1. /\ UNCHANGED <<pc, pending, stats>> /\ wpc' = "process"
            /\ \A y : In(queue, y) <=> In(queue', y) \/ y = current'
        BY <2>1, Taken, Zenon DEF TakeItem, caller, PlaceInv, Type
      <3>2. PendingInv'
        BY <2>0, <3>1, Zenon DEF CountInv, PendingInv
      <3> QED
        BY <2>0, <3>1, <3>2, CountsNothing, Zenon
    <2>2. CASE Process \/ ReportFailure \/ Publish \/ Settle \/ ClearOverflow \/ WriteEpisode
               \/ SeeClosed \/ Stop \/ Close \/ CloseQueue \/ UNCHANGED vars
      <3>1. UNCHANGED <<pc, queue, pending, stats>>
        BY <2>2, Zenon DEF Process, ReportFailure, Publish, Settle, ClearOverflow, WriteEpisode, SeeClosed, Stop,
            Close, CloseQueue, vars, channels, caller
      <3>2. \/ UNCHANGED <<wpc, current>> \/ wpc' \notin {"process", "note"}
            \/ wpc = "process" /\ wpc' = "note" /\ UNCHANGED current
        BY <2>2, Zenon DEF Process, ReportFailure, Publish, Settle, ClearOverflow, WriteEpisode, SeeClosed, Stop,
            Close, CloseQueue, vars, worker
      <3>3. PendingInv'
        BY <2>0, <3>1, <3>2, Zenon DEF CountInv, PendingInv
      <3> QED
        BY <2>0, <3>1, <3>3, CountsNothing, Zenon
    <2> QED
      BY <2>1, <2>2, SubmitterCounts, NoteCounts, Zenon DEF Next, WorkerStep
  <1> QED
    BY <1>1, <1>2, PlaceInvariance, PTL DEF Spec

(* Nothing that was accepted disappears, the counters account for every     *)
(* submission, and a finished Close leaves nothing behind (submit,          *)
(* markAccepted, run, Close).                                               *)
THEOREM NothingLost == Spec => []NothingIsLost
  <1>1. PlaceInv /\ CountInv => NothingIsLost
    <2> SUFFICES ASSUME PlaceInv, CountInv PROVE NothingIsLost
      BY Zenon
    <2>1. \A i \in Items : Queued(i) <=> In(queue, i)
      BY Zenon DEF Queued, In
    <2>2. \A i \in Items : current = i => pc[i] \in {"sent", "accepted"}
      BY CapacityAssumption, Zenon DEF PlaceInv, WorkerInv
    <2>3. closed => queue = <<>> /\ eventQueue = <<>> /\ Submitting = {}
      BY Zenon DEF PlaceInv, CloseInv, Submitting, Within
    <2> QED
      BY <2>1, <2>2, <2>3, Zenon DEF PlaceInv, QueueInv, CountInv, Distinct, NothingIsLost
  <1> QED
    BY <1>1, PlaceInvariance, CountInvariance, PTL

-------------------------------------------------------------------------------
(* The connection to a collector *)

Operations == [kind : {"connect", "undo", "disconnect"},
               pc : {"persist", "put", "enable", "apply", "audit",
                     "disable", "delete", "remove", "drop"},
               awaited : BOOLEAN, setting : Configurations]

Requests == [kind : {"connect"}, endpoint : Endpoints, credential : BOOLEAN]
               \cup [kind : {"disconnect"}]

ConnectionType ==
    /\ setting \in Configurations \cup {NoItem}
    /\ vault \subseteq Nat
    /\ references \in Nat
    /\ op # NoItem => op \in Operations
    /\ asked # NoItem => asked \in Requests

(* A connection that is being made. *)
Connecting ==
    /\ op.setting.desired = "disabled"
    /\ op.pc \in {"persist", "put", "enable", "apply", "audit"}
    /\ op.pc = "persist" => setting = NoItem
    /\ op.pc \in {"put", "enable"} => setting = op.setting
    /\ op.pc \in {"apply", "audit"} => setting = [op.setting EXCEPT !.desired = "enabled"]
    /\ op.pc \in {"enable", "apply", "audit"} => op.setting.ref \in vault \cup {NoItem}

(* A connection that is being taken back. *)
Revoking ==
    /\ op.pc \in {"disable", "apply", "delete", "remove", "drop"}
    /\ op.pc # "drop" => setting # NoItem /\ setting.ref = op.setting.ref
    /\ op.pc \in {"apply", "delete", "remove"} => setting.desired = "disabled"
    /\ op.pc \in {"remove", "drop"} => vault = {}
    /\ op.pc = "drop" => setting = NoItem

Placed ==
    op # NoItem =>
        /\ op.kind = "connect" => Connecting
        /\ op.kind # "connect" => Revoking
        /\ told = NoItem

Truthful ==
    /\ told = "connected" /\ op = NoItem => ConfiguredClient # NoItem
    /\ told = "disconnected" => setting = NoItem /\ vault = {}

ConnectionInv == ConnectionType /\ Placed /\ CredentialAgrees /\ Truthful

connectionVars == <<setting, vault, op, references, asked, told>>

LEMMA ConnectionInit == ExternalInit => ConnectionInv
  BY ExternalAssumption DEF ExternalInit, ConnectionInv, ConnectionType, Placed, CredentialAgrees, Truthful

LEMMA ConnectionStutters == ConnectionInv /\ UNCHANGED connectionVars => ConnectionInv'
  BY Zenon DEF connectionVars, ConnectionInv, ConnectionType, Placed, Connecting, Revoking,
         CredentialAgrees, Truthful, ConfiguredClient

LEMMA CommandsKeep == ConnectionInv /\ Commands => ConnectionInv'
  <1> USE ExternalAssumption DEF ConnectionInv, ConnectionType, CredentialAgrees, Truthful,
        ConfiguredClient
  <1> SUFFICES ASSUME ConnectionInv, Commands PROVE ConnectionInv'
    BY Zenon
  <1>0. UNCHANGED <<setting, vault, references>>
    BY Zenon DEF Commands
  <1>1. CASE CommandGivesUp
    BY <1>0, <1>1, Zenon DEF CommandGivesUp, Operations, Placed, Connecting, Revoking
  <1>2. ASSUME UNCHANGED op, DisconnectCommand PROVE ConnectionInv'
    BY <1>0, <1>2 DEF DisconnectCommand, Requests, Placed, Connecting, Revoking
  <1>3. ASSUME UNCHANGED op, NEW e \in Endpoints, NEW b \in BOOLEAN, ConnectCommand(e, b)
        PROVE  ConnectionInv'
    BY <1>0, <1>3 DEF ConnectCommand, Requests, Placed, Connecting, Revoking
  <1> QED
    BY <1>1, <1>2, <1>3, Zenon DEF Commands, AdGuardCommand, OPNsenseCommand

LEMMA ConnectKeeps == ConnectionInv /\ Connect => ConnectionInv'
  <1> USE ExternalAssumption DEF ConnectionInv
  <1> SUFFICES ASSUME ConnectionInv, Connect PROVE ConnectionInv'
    BY Zenon
  <1>1. CASE ConnectStarts
    <2> USE <1>1 DEF ConnectStarts
    <2>1. asked \in Requests /\ asked.kind = "connect" /\ asked.endpoint \in Endpoints
      BY Zenon DEF ConnectionType, Requests
    <2>2. CASE op' # NoItem
      <3>1. op' = [kind |-> "connect", pc |-> "persist", awaited |-> TRUE,
                   setting |-> Configuration(asked.endpoint,
                                             IF asked.credential THEN references + 1 ELSE NoItem)]
        BY <2>2, Zenon
      <3>2. Configuration(asked.endpoint, IF asked.credential THEN references + 1 ELSE NoItem)
               \in Configurations
        BY <2>1 DEF Configuration, Configurations, ConnectionType
      <3>3. op' \in Operations
        BY <3>1, <3>2, Zenon DEF Operations
      <3> QED
        BY <2>2, <3>1, <3>3 DEF Configuration, ConnectionType, Placed, Connecting, CredentialAgrees, Truthful
    <2>3. CASE op' = NoItem
      BY <2>3 DEF ConnectionType, Placed, CredentialAgrees, Truthful
    <2> QED
      BY <2>2, <2>3, Zenon
  <1>2. CASE PersistsReference /\ UNCHANGED <<references, asked>>
    BY <1>2, Zenon DEF PersistsReference, At, Then, Answer, ReplaceCapability, Configurations, Operations,
        ConnectionType, Placed, Connecting, Revoking, CredentialAgrees, Truthful, ConfiguredClient
  <1>3. CASE PutsCredential /\ UNCHANGED <<references, asked>>
    BY <1>3 DEF PutsCredential, At, Then, Undone, Configurations, Operations,
        ConnectionType, Placed, Connecting, Revoking, CredentialAgrees, Truthful, ConfiguredClient
  <1>4. CASE EnablesIntent /\ UNCHANGED <<references, asked>>
    <2> USE <1>4 DEF EnablesIntent, At
    <2>1. op \in Operations /\ Connecting /\ told = NoItem /\ setting = op.setting
      BY Zenon DEF ConnectionType, Placed, Connecting
    <2>2. CASE ReplaceCapability([op.setting EXCEPT !.desired = "enabled"]) /\ Then("apply")
      <3>1. setting' \in Configurations /\ op' \in Operations
        BY <2>1, <2>2, Zenon DEF ReplaceCapability, Then, Operations, Configurations
      <3> QED
        <4>1. /\ op'.pc = "apply" /\ op'.kind = "connect" /\ op'.setting = op.setting
              /\ setting' = [op.setting EXCEPT !.desired = "enabled"]
              /\ setting'.ref = op.setting.ref /\ setting' # NoItem
              /\ UNCHANGED <<vault, references, asked, told>>
          BY <2>1, <2>2, <3>1 DEF ReplaceCapability, Then, Operations, Configurations
        <4>2. Connecting'
          BY <2>1, <4>1, Zenon DEF Connecting
        <4> QED
          BY <2>1, <3>1, <4>1, <4>2 DEF ConnectionType, Placed, Connecting, CredentialAgrees, Truthful
    <2>3. CASE Undone /\ UNCHANGED setting
      BY <2>1, <2>3, Zenon DEF Undone, Operations, ConnectionType, Placed, Connecting, Revoking,
          CredentialAgrees, Truthful
    <2> QED
      BY <2>2, <2>3, Zenon
  <1>5. CASE AppliesIntent /\ UNCHANGED <<references, asked>>
    <2> USE <1>5 DEF AppliesIntent, At
    <2>1. op \in Operations /\ Connecting /\ told = NoItem /\ setting \in Configurations
             /\ setting.ref = op.setting.ref
      BY DEF ConnectionType, Placed, Connecting, Operations, Configurations
    <2>2. CASE Then("audit")
      BY <2>1, <2>2, Zenon DEF Then, Operations, ConnectionType, Placed, Connecting, CredentialAgrees, Truthful
    <2>3. CASE Undone
      BY <2>1, <2>3, Zenon DEF Undone, Operations, ConnectionType, Placed, Revoking, CredentialAgrees, Truthful
    <2> QED
      BY <2>2, <2>3, Zenon
  <1>6. CASE AuditsConnection /\ UNCHANGED <<references, asked>>
    <2> USE <1>6 DEF AuditsConnection, At
    <2>1. /\ op \in Operations /\ Connecting /\ told = NoItem /\ setting \in Configurations
          /\ setting.ref = op.setting.ref /\ setting.desired = "enabled"
          /\ setting.ref \in vault \cup {NoItem} /\ setting.endpoint \in Endpoints
      BY DEF ConnectionType, Placed, Connecting, Operations, Configurations
    <2>2. CASE Answer("connected")
      BY <2>1, <2>2, Zenon DEF Answer, ConnectionType, Placed, CredentialAgrees, Truthful, ConfiguredClient
    <2>3. CASE Undone
      BY <2>1, <2>3, Zenon DEF Undone, Operations, ConnectionType, Placed, Revoking, CredentialAgrees, Truthful
    <2> QED
      BY <2>2, <2>3, Zenon
  <1> QED
    BY <1>1, <1>2, <1>3, <1>4, <1>5, <1>6, Zenon DEF Connect

LEMMA RevokeKeeps ==
  ASSUME NEW kinds \in SUBSET {"undo", "disconnect"}, ConnectionInv,
         Revoke(kinds), UNCHANGED references
  PROVE  ConnectionInv'
  <1> USE ExternalAssumption DEF ConnectionInv
  <1>1. CASE Disables(kinds)
    BY <1>1 DEF Revoke, Disables, At, Then, Answer, ReplaceCapability, Configurations, Operations,
        ConnectionType, Placed, Connecting, Revoking, CredentialAgrees, Truthful, ConfiguredClient
  <1>2. CASE AppliesDisabled(kinds)
    BY <1>2, Zenon DEF Revoke, AppliesDisabled, At, Then, Answer, Configurations, Operations,
        ConnectionType, Placed, Connecting, Revoking, CredentialAgrees, Truthful, ConfiguredClient
  <1>3. CASE DeletesCredential(kinds)
    BY <1>3 DEF Revoke, DeletesCredential, DeleteFails, At, Then, Answer, Configurations, Operations,
        ConnectionType, Placed, Connecting, Revoking, CredentialAgrees, Truthful, ConfiguredClient
  <1>4. CASE RemovesSetting(kinds)
    BY <1>4, Zenon DEF Revoke, RemovesSetting, At, Then, Answer, ReplaceCapability, Configurations, Operations,
        ConnectionType, Placed, Connecting, Revoking, CredentialAgrees, Truthful, ConfiguredClient
  <1>5. CASE DropsIntent(kinds)
    BY <1>5, Zenon DEF Revoke, DropsIntent, At, Answer, Configurations, Operations,
        ConnectionType, Placed, Connecting, Revoking, CredentialAgrees, Truthful, ConfiguredClient
  <1> QED
    BY <1>1, <1>2, <1>3, <1>4, <1>5 DEF Revoke

LEMMA DisconnectKeeps == ConnectionInv /\ Disconnect => ConnectionInv'
  <1> SUFFICES ASSUME ConnectionInv, Disconnect PROVE ConnectionInv'
    BY Zenon
  <1>1. CASE DisconnectStarts /\ UNCHANGED references
    <2> USE ExternalAssumption, <1>1 DEF DisconnectStarts, ConnectionInv
    <2>1. CASE op' # NoItem
      <3>1. /\ setting \in Configurations
            /\ op' = [kind |-> "disconnect", pc |-> "disable", awaited |-> TRUE, setting |-> setting]
        BY <2>1, Zenon DEF ConnectionType
      <3>2. op' \in Operations
        BY <3>1, Zenon DEF Operations
      <3> QED
        BY <2>1, <3>1, <3>2, Zenon DEF ConnectionType, Placed, Revoking, CredentialAgrees, Truthful
    <2>2. CASE op' = NoItem
      BY <2>2, Zenon DEF ConnectionType, Placed, CredentialAgrees, Truthful
    <2> QED
      BY <2>1, <2>2, Zenon
  <1>2. CASE Revoke({"disconnect"}) /\ UNCHANGED references
    BY <1>2, RevokeKeeps, Zenon
  <1> QED
    BY <1>1, <1>2, Zenon DEF Disconnect

LEMMA RestartKeeps == ConnectionInv /\ ControllerRestarts => ConnectionInv'
  BY ExternalAssumption, Zenon DEF ControllerRestarts, ConnectionInv, ConnectionType, Placed,
      CredentialAgrees, Truthful, ConfiguredClient

(* Where Connect, undoConnect and Disconnect are agrees with the durable    *)
(* configuration and the keychain, whatever failed before.                  *)
THEOREM ConnectionInvariance == ExternalSpec => []ConnectionInv
  <1>1. ConnectionInv /\ [ExternalNext]_externalVars => ConnectionInv'
    <2> SUFFICES ASSUME ConnectionInv, [ExternalNext]_externalVars PROVE ConnectionInv'
      OBVIOUS
    <2>1. CASE Commands
      BY <2>1, CommandsKeep, Zenon
    <2>2. CASE Connect
      BY <2>2, ConnectKeeps, Zenon
    <2>3. CASE UndoConnect
      BY <2>3, RevokeKeeps DEF UndoConnect
    <2>4. CASE Disconnect
      BY <2>4, DisconnectKeeps
    <2>5. CASE ControllerRestarts
      BY <2>5, RestartKeeps
    <2>6. CASE Collections \/ NetworkChanges \/ OfferExpires \/ Leaves \/ UNCHANGED externalVars
      BY <2>6, ConnectionStutters, Zenon DEF connectionVars, Collections, NetworkChanges, OfferExpires,
          Leaves, externalVars, connection
    <2> QED
      BY <2>1, <2>2, <2>3, <2>4, <2>5, <2>6 DEF ExternalNext, AdGuardConnect, AdGuardUndoConnect,
          AdGuardDisconnect, OPNsenseConnect, OPNsenseUndoConnect, OPNsenseDisconnect
  <1> QED
    BY ConnectionInit, <1>1, PTL DEF ExternalSpec

(* Every credential in the keychain is named by the durable configuration   *)
(* and an enabled configuration finds its credential, after any failures,   *)
(* abandoned commands and restarts of Connect, undoConnect and Disconnect.  *)
THEOREM CredentialAgreement == ExternalSpec => []CredentialAgrees
  BY ConnectionInvariance, PTL DEF ConnectionInv

-------------------------------------------------------------------------------
(* Collections.  Good says what a task knows at each place; its arguments   *)
(* are the task, the enrolled scope, the enrollments so far and the store.  *)

Counted(t) ==
    /\ t.rest \subseteq Observations(t.entries)
    /\ t.inserted \in Nat /\ t.deduplicated \in Nat
    /\ t.inserted + t.deduplicated + Cardinality(t.rest) = Cardinality(Observations(t.entries))

Good(t, en, ens, k) ==
    /\ t.pc \in {"offered", "begin", "read", "recheck", "store"} => t.scope \in 1..ens
    /\ t.pc \in {"idle", "review", "offered", "begin", "read", "recheck"} =>
          t.inserted = 0 /\ t.deduplicated = 0
    /\ t.pc \in {"recheck", "store", "done"} => t.entries \in Snapshots
    /\ t.pc = "recheck" => t.asReviewed /\ (en = t.scope => t.whileEnrolled)
    /\ t.pc \in {"store", "done"} =>
          /\ t.asReviewed /\ t.whileEnrolled
          /\ Counted(t)
          /\ \A e \in Observations(t.entries) \ t.rest : <<t.scope, t.from, e>> \in k
    /\ t.pc = "done" => t.rest = {}

CollectionInv ==
    /\ DOMAIN task = Collectors
    /\ enrollments \in Nat
    /\ enrolled = NoItem \/ enrolled \in 1..enrollments
    /\ \A c \in Collectors : Good(task[c], enrolled, enrollments, kept)

(* What a history holds is finite. *)
LEMMA FiniteObservations ==
  ASSUME NEW s \in Snapshots
  PROVE  /\ IsFiniteSet(Admitted(s)) /\ IsFiniteSet(Observations(s))
         /\ Cardinality(Admitted(s)) \in Nat /\ Cardinality(Observations(s)) \in Nat
         /\ Len(s) \in Nat
  <1>1. IsFiniteSet(1..Len(s)) /\ DOMAIN s = 1..Len(s) /\ Len(s) \in Nat
    BY ExternalAssumption, FS_Interval
  <1>2. IsFiniteSet(Admitted(s))
    BY <1>1, FS_Subset, Zenon DEF Admitted
  <1>3. [i \in Admitted(s) |-> s[i]] \in Surjection(Admitted(s), Observations(s))
    BY Zenon DEF Observations, Surjection
  <1>4. IsFiniteSet(Observations(s))
    BY <1>2, <1>3, FS_Surjection, Zenon DEF ExistsSurjection
  <1> QED
    BY <1>1, <1>2, <1>4, FS_CardinalityType

LEMMA IdleIsGood == ASSUME NEW en, NEW ens, NEW k PROVE Good(Idle, en, ens, k)
  BY Zenon DEF Good, Idle

(* One task moves, and the others still are where they were in a store that *)
(* only grew.                                                               *)
LEMMA OneMoves ==
  ASSUME CollectionInv, NEW c \in Collectors, UNCHANGED network, kept \subseteq kept',
         DOMAIN task' = Collectors, \A d \in Collectors \ {c} : task'[d] = task[d],
         Good(task'[c], enrolled, enrollments, kept')
  PROVE  CollectionInv'
  <1>1. ASSUME NEW d \in Collectors \ {c} PROVE Good(task'[d], enrolled, enrollments, kept')
    BY <1>1, Zenon DEF CollectionInv, Good
  <1> QED
    BY <1>1, Zenon DEF CollectionInv, network

LEMMA EndsKeeps ==
  ASSUME CollectionInv, NEW c \in Collectors, Ends(c), UNCHANGED <<network, kept>>
  PROVE  CollectionInv'
  <1>1. /\ DOMAIN task' = Collectors /\ task'[c] = Idle
        /\ \A d \in Collectors \ {c} : task'[d] = task[d]
    BY Zenon DEF Ends, CollectionInv
  <1> QED
    BY <1>1, IdleIsGood, OneMoves, Zenon

(* What Set leaves alone. *)
LEMMA SetFrame ==
  ASSUME CollectionInv, NEW c \in Collectors, NEW fields, Set(c, fields)
  PROVE  /\ DOMAIN task' = Collectors
         /\ \A d \in Collectors \ {c} : task'[d] = task[d]
  BY Zenon DEF Set, CollectionInv

LEMMA SetFields ==
  ASSUME CollectionInv, NEW c \in Collectors, NEW fields, Set(c, fields)
  PROVE  /\ task'[c].pc = IF "pc" \in DOMAIN fields THEN fields.pc ELSE task[c].pc
         /\ task'[c].scope = IF "scope" \in DOMAIN fields THEN fields.scope ELSE task[c].scope
         /\ task'[c].from = IF "from" \in DOMAIN fields THEN fields.from ELSE task[c].from
         /\ task'[c].asReviewed = IF "asReviewed" \in DOMAIN fields THEN fields.asReviewed ELSE task[c].asReviewed
         /\ task'[c].whileEnrolled = IF "whileEnrolled" \in DOMAIN fields THEN fields.whileEnrolled ELSE task[c].whileEnrolled
         /\ task'[c].entries = IF "entries" \in DOMAIN fields THEN fields.entries ELSE task[c].entries
         /\ task'[c].rest = IF "rest" \in DOMAIN fields THEN fields.rest ELSE task[c].rest
         /\ task'[c].inserted = IF "inserted" \in DOMAIN fields THEN fields.inserted ELSE task[c].inserted
         /\ task'[c].deduplicated = IF "deduplicated" \in DOMAIN fields THEN fields.deduplicated ELSE task[c].deduplicated
  <1>1. \A f \in DOMAIN Idle : task'[c][f] = IF f \in DOMAIN fields THEN fields[f] ELSE task[c][f]
    BY Zenon DEF Set, CollectionInv
  <1>2. {"pc", "scope", "from", "asReviewed", "whileEnrolled", "entries", "rest", "inserted",
         "deduplicated"} \subseteq DOMAIN Idle
    BY DEF Idle
  <1> QED
    BY <1>1, <1>2, Zenon

(* The steps of reviews, commands and the page change who a task is for,    *)
(* what it was reviewed with, and the scope.                                *)
LEMMA ReviewKeeps ==
  ASSUME CollectionInv, NEW c \in Collectors, UNCHANGED network,
         WebReview(c) \/ WebDecision(c) \/ WebAnswers(c)
            \/ AdGuardCollectCommand(c) \/ OPNsenseCollectCommand(c)
  PROVE  CollectionInv'
  <1>0. UNCHANGED kept /\ Good(task[c], enrolled, enrollments, kept)
    BY Zenon DEF WebReview, WebDecision, WebAnswers, AdGuardCollectCommand, OPNsenseCollectCommand,
        CollectionInv
  <1>1. CASE Ends(c)
    BY <1>0, <1>1, EndsKeeps, Zenon
  <1>2. ASSUME NEW who, ReadsStatus(c, who) PROVE CollectionInv'
    <2>1. Set(c, [pc |-> "review", who |-> who, reviewed |-> ConfiguredClient]) /\ task[c].pc = "idle"
      BY <1>2, Zenon DEF ReadsStatus
    <2>2. /\ task'[c].pc = "review" /\ task'[c].inserted = task[c].inserted
          /\ task'[c].deduplicated = task[c].deduplicated
      <3> DEFINE fields == [pc |-> "review", who |-> who, reviewed |-> ConfiguredClient]
      <3>1. Set(c, fields) /\ DOMAIN fields = {"pc", "who", "reviewed"} /\ fields.pc = "review"
        BY <2>1, Zenon
      <3> HIDE DEF fields
      <3> QED
        BY <1>0, <3>1, SetFields, Zenon
    <2>3. Good(task'[c], enrolled, enrollments, kept')
      BY <1>0, <2>1, <2>2, Zenon DEF Good
    <2> QED
      BY <1>0, <2>1, <2>3, SetFrame, OneMoves
  <1>3. ASSUME task[c].pc = "review", enrolled # NoItem, Set(c, [pc |-> "offered", scope |-> enrolled])
        PROVE  CollectionInv'
    <2>1. /\ task'[c].pc = "offered" /\ task'[c].inserted = task[c].inserted
          /\ task'[c].deduplicated = task[c].deduplicated /\ task'[c].scope = enrolled
      <3> DEFINE fields == [pc |-> "offered", scope |-> enrolled]
      <3>1. Set(c, fields) /\ DOMAIN fields = {"pc", "scope"} /\ fields.pc = "offered" /\ fields.scope = enrolled
        BY <1>3, Zenon
      <3> HIDE DEF fields
      <3> QED
        BY <1>0, <3>1, SetFields, Zenon
    <2>2. Good(task'[c], enrolled, enrollments, kept')
      BY <1>0, <1>3, <2>1, Zenon DEF Good, CollectionInv
    <2> QED
      BY <1>0, <1>3, <2>2, SetFrame, OneMoves, Zenon
  <1>4. ASSUME task[c].pc = "offered", Set(c, [pc |-> "begin"])
        PROVE  CollectionInv'
    <2> DEFINE fields == [pc |-> "begin"]
    <2>0. Set(c, fields) /\ DOMAIN fields = {"pc"} /\ fields.pc = "begin"
      BY <1>4, Zenon
    <2> HIDE DEF fields
    <2>1. /\ task'[c].pc = "begin" /\ task'[c].inserted = task[c].inserted
          /\ task'[c].deduplicated = task[c].deduplicated /\ task'[c].scope = task[c].scope
      BY <2>0, SetFields, Zenon
    <2>2. Good(task'[c], enrolled, enrollments, kept')
      BY <1>0, <1>4, <2>1, Zenon DEF Good
    <2> QED
      BY <1>0, <1>4, <2>2, SetFrame, OneMoves, Zenon
  <1>5. ASSUME task[c].pc = "idle", NEW s \in 1..enrollments,
               Set(c, [pc |-> "begin", who |-> "command", scope |-> s])
        PROVE  CollectionInv'
    <2>1. /\ task'[c].pc = "begin" /\ task'[c].inserted = task[c].inserted
          /\ task'[c].deduplicated = task[c].deduplicated /\ task'[c].scope = s
      <3> DEFINE fields == [pc |-> "begin", who |-> "command", scope |-> s]
      <3>1. Set(c, fields) /\ DOMAIN fields = {"pc", "who", "scope"} /\ fields.pc = "begin" /\ fields.scope = s
        BY <1>5, Zenon
      <3> HIDE DEF fields
      <3> QED
        BY <1>0, <3>1, SetFields, Zenon
    <2>2. Good(task'[c], enrolled, enrollments, kept')
      BY <1>0, <1>5, <2>1, Zenon DEF Good
    <2> QED
      BY <1>0, <1>5, <2>2, SetFrame, OneMoves, Zenon
  <1>6. ASSUME Set(c, [who |-> "gone"]) PROVE CollectionInv'
    <2>1. /\ task'[c].pc = task[c].pc /\ task'[c].inserted = task[c].inserted
          /\ task'[c].deduplicated = task[c].deduplicated /\ task'[c].scope = task[c].scope
          /\ task'[c].entries = task[c].entries /\ task'[c].rest = task[c].rest
          /\ task'[c].from = task[c].from /\ task'[c].asReviewed = task[c].asReviewed
          /\ task'[c].whileEnrolled = task[c].whileEnrolled
      <3> DEFINE fields == [who |-> "gone"]
      <3>1. Set(c, fields) /\ DOMAIN fields = {"who"}
        BY <1>6, Zenon
      <3> HIDE DEF fields
      <3> QED
        BY <1>0, <3>1, SetFields, Zenon
    <2>2. Good(task'[c], enrolled, enrollments, kept')
      BY <1>0, <2>1, Zenon DEF Good, Counted
    <2> QED
      BY <1>0, <1>6, <2>2, SetFrame, OneMoves, Zenon
  <1> QED
    BY <1>1, <1>2, <1>3, <1>4, <1>5, <1>6
       DEF WebReview, WebDecision, WebAnswers, AdGuardCollectCommand, OPNsenseCollectCommand

(* An observation is inserted or known. *)
LEMMA InsertedOrKnown ==
  ASSUME NEW x, NEW k
  PROVE  /\ Cardinality({x} \ k) \in Nat /\ Cardinality({x} \cap k) \in Nat
         /\ Cardinality({x} \ k) + Cardinality({x} \cap k) = 1
  <1>1. Cardinality({}) = 0 /\ Cardinality({x}) = 1
    BY FS_EmptySet, FS_Singleton, Zenon
  <1>2. CASE x \in k
    <2>1. {x} \ k = {} /\ {x} \cap k = {x}
      BY <1>2, Zenon
    <2>2. Cardinality({x} \ k) = 0 /\ Cardinality({x} \cap k) = 1
      BY <1>1, <2>1, Zenon
    <2> QED
      BY <2>2
  <1>3. CASE x \notin k
    <2>1. {x} \ k = {x} /\ {x} \cap k = {}
      BY <1>3, Zenon
    <2>2. Cardinality({x} \ k) = 1 /\ Cardinality({x} \cap k) = 0
      BY <1>1, <2>1, Zenon
    <2> QED
      BY <2>2
  <1> QED
    BY <1>2, <1>3, Zenon

LEMMA StoreKeeps ==
  ASSUME CollectionInv, NEW c \in Collectors, UNCHANGED network, StoresNext(c)
  PROVE  CollectionInv'
  <1>0. task[c].pc = "store" /\ Good(task[c], enrolled, enrollments, kept)
    BY Zenon DEF StoresNext, CollectionInv
  <1>1. ASSUME NEW e \in task[c].rest,
               Set(c, [rest |-> task[c].rest \ {e},
                       inserted |-> task[c].inserted + Cardinality({Key(c, e)} \ kept),
                       deduplicated |-> task[c].deduplicated + Cardinality({Key(c, e)} \cap kept)]),
               kept' = kept \cup {Key(c, e)}
        PROVE  CollectionInv'
    <2> DEFINE fields == [rest |-> task[c].rest \ {e},
                          inserted |-> task[c].inserted + Cardinality({Key(c, e)} \ kept),
                          deduplicated |-> task[c].deduplicated + Cardinality({Key(c, e)} \cap kept)]
    <2>0. /\ Set(c, fields) /\ DOMAIN fields = {"rest", "inserted", "deduplicated"}
          /\ fields.rest = task[c].rest \ {e}
          /\ fields.inserted = task[c].inserted + Cardinality({Key(c, e)} \ kept)
          /\ fields.deduplicated = task[c].deduplicated + Cardinality({Key(c, e)} \cap kept)
      BY <1>1, Zenon
    <2> HIDE DEF fields
    <2>1. /\ task'[c].pc = "store" /\ task'[c].rest = task[c].rest \ {e}
          /\ task'[c].inserted = task[c].inserted + Cardinality({Key(c, e)} \ kept)
          /\ task'[c].deduplicated = task[c].deduplicated + Cardinality({Key(c, e)} \cap kept)
          /\ task'[c].entries = task[c].entries /\ task'[c].scope = task[c].scope
          /\ task'[c].from = task[c].from /\ task'[c].asReviewed = task[c].asReviewed
          /\ task'[c].whileEnrolled = task[c].whileEnrolled
      BY <1>0, <2>0, SetFields, Zenon
    <2>2. IsFiniteSet(Observations(task[c].entries)) /\ Cardinality(Observations(task[c].entries)) \in Nat
      BY <1>0, FiniteObservations, Zenon DEF Good
    <2>3. IsFiniteSet(task[c].rest) /\ Cardinality(task[c].rest) \in Nat
      BY <1>0, <2>2, FS_Subset, FS_CardinalityType, Zenon DEF Good, Counted
    <2>4. Cardinality(task[c].rest \ {e}) = Cardinality(task[c].rest) - 1
      BY <2>3, FS_RemoveElement, Zenon
    <2>5. Counted(task'[c])
      <3>1. task'[c].rest \subseteq Observations(task'[c].entries)
        BY <1>0, <2>1, Zenon DEF Good, Counted
      <3>2. task[c].inserted \in Nat /\ task[c].deduplicated \in Nat
        BY <1>0, Zenon DEF Good, Counted
      <3>3. task'[c].inserted \in Nat /\ task'[c].deduplicated \in Nat
        <4>1. Cardinality({Key(c, e)} \ kept) \in Nat /\ Cardinality({Key(c, e)} \cap kept) \in Nat
          BY InsertedOrKnown, Zenon
        <4> QED
          BY <2>1, <3>2, <4>1
      <3>4. task[c].inserted + task[c].deduplicated + Cardinality(task[c].rest)
               = Cardinality(Observations(task'[c].entries))
        BY <1>0, <2>1, Zenon DEF Good, Counted
      <3>5. /\ Cardinality({Key(c, e)} \ kept) \in Nat /\ Cardinality({Key(c, e)} \cap kept) \in Nat
            /\ Cardinality({Key(c, e)} \ kept) + Cardinality({Key(c, e)} \cap kept) = 1
        BY InsertedOrKnown, Zenon
      <3>6. Cardinality(task'[c].rest) = Cardinality(task[c].rest) - 1
        BY <2>1, <2>4, Zenon
      <3>7. task'[c].inserted + task'[c].deduplicated + Cardinality(task'[c].rest)
               = Cardinality(Observations(task'[c].entries))
        <4> DEFINE a == task[c].inserted
                   b == task[c].deduplicated
                   r == Cardinality(task[c].rest)
                   i == Cardinality({Key(c, e)} \ kept)
                   d == Cardinality({Key(c, e)} \cap kept)
        <4>1. a \in Nat /\ b \in Nat /\ r \in Nat /\ i \in Nat /\ d \in Nat /\ i + d = 1
          BY <2>3, <3>2, <3>5, Zenon
        <4>2. task'[c].inserted = a + i /\ task'[c].deduplicated = b + d
          BY <2>1, Zenon
        <4>3. Cardinality(task'[c].rest) = r - 1 /\ a + b + r = Cardinality(Observations(task'[c].entries))
          BY <3>4, <3>6, Zenon
        <4> HIDE DEF a, b, r, i, d
        <4>4. (a + i) + (b + d) + (r - 1) = a + b + r
          BY <4>1
        <4> QED
          BY <4>2, <4>3, <4>4, Zenon
      <3> QED
        BY <3>1, <3>3, <3>7, Zenon DEF Counted
    <2>6. \A x \in Observations(task'[c].entries) \ task'[c].rest :
             <<task'[c].scope, task'[c].from, x>> \in kept'
      BY <1>0, <1>1, <2>1, Zenon DEF Good, Key
    <2>7. Good(task'[c], enrolled, enrollments, kept')
      BY <1>0, <2>1, <2>5, <2>6, Zenon DEF Good
    <2>8. kept \subseteq kept'
      BY <1>1, Zenon
    <2> QED
      BY <1>1, <2>7, <2>8, SetFrame, OneMoves
  <1>2. CASE task[c].rest # {} /\ Fails(c)
    BY <1>2, EndsKeeps, Zenon DEF Fails
  <1>3. ASSUME task[c].rest = {}, Goes(c, [pc |-> "done"]) PROVE CollectionInv'
    <2>0. Set(c, [pc |-> "done"]) /\ UNCHANGED kept
      BY <1>3, Zenon DEF Goes
    <2>1. /\ task'[c].pc = "done" /\ task'[c].rest = task[c].rest
          /\ task'[c].inserted = task[c].inserted /\ task'[c].deduplicated = task[c].deduplicated
          /\ task'[c].entries = task[c].entries /\ task'[c].scope = task[c].scope
          /\ task'[c].from = task[c].from /\ task'[c].asReviewed = task[c].asReviewed
          /\ task'[c].whileEnrolled = task[c].whileEnrolled
      <3> DEFINE fields == [pc |-> "done"]
      <3>1. Set(c, fields) /\ DOMAIN fields = {"pc"} /\ fields.pc = "done"
        BY <2>0, Zenon
      <3> HIDE DEF fields
      <3> QED
        BY <1>0, <3>1, SetFields, Zenon
    <2>2. Good(task'[c], enrolled, enrollments, kept')
      BY <1>0, <1>3, <2>0, <2>1, Zenon DEF Good, Counted
    <2> QED
      BY <2>0, <2>2, SetFrame, OneMoves, Zenon
  <1> QED
    BY <1>1, <1>2, <1>3, Zenon DEF StoresNext

(* A scope that is current at the recheck was current at the read: a        *)
(* retired scope never returns.                                             *)
LEMMA CollectKeeps ==
  ASSUME CollectionInv, NEW c \in Collectors, UNCHANGED network, Collect(c)
  PROVE  CollectionInv'
  <1>0. Good(task[c], enrolled, enrollments, kept)
    BY Zenon DEF CollectionInv
  <1>1. CASE Fails(c)
    BY <1>1, EndsKeeps, Zenon DEF Fails
  <1>2. ASSUME task[c].pc = "begin", Goes(c, [pc |-> "read"]) PROVE CollectionInv'
    <2>0. Set(c, [pc |-> "read"]) /\ UNCHANGED kept
      BY <1>2, Zenon DEF Goes
    <2>1. /\ task'[c].pc = "read" /\ task'[c].scope = task[c].scope
          /\ task'[c].inserted = task[c].inserted /\ task'[c].deduplicated = task[c].deduplicated
      <3> DEFINE fields == [pc |-> "read"]
      <3>1. Set(c, fields) /\ DOMAIN fields = {"pc"} /\ fields.pc = "read"
        BY <2>0, Zenon
      <3> HIDE DEF fields
      <3> QED
        BY <1>0, <3>1, SetFields, Zenon
    <2>2. Good(task'[c], enrolled, enrollments, kept')
      BY <1>0, <1>2, <2>1, Zenon DEF Good
    <2> QED
      BY <2>0, <2>2, SetFrame, OneMoves
  <1>3. ASSUME task[c].pc = "read", task[c].reviewed \in {NoItem, ConfiguredClient}, Reads(c)
        PROVE  CollectionInv'
    <2>0. PICK s \in Snapshots :
            Goes(c, [pc |-> "recheck", from |-> ConfiguredClient, entries |-> s, reviewed |-> NoItem,
                     asReviewed |-> task[c].reviewed \in {NoItem, ConfiguredClient},
                     whileEnrolled |-> enrolled = task[c].scope])
      BY <1>3, Zenon DEF Reads
    <2> DEFINE fields == [pc |-> "recheck", from |-> ConfiguredClient, entries |-> s, reviewed |-> NoItem,
                          asReviewed |-> task[c].reviewed \in {NoItem, ConfiguredClient},
                          whileEnrolled |-> enrolled = task[c].scope]
    <2>1. Set(c, fields) /\ UNCHANGED kept
      BY <2>0, Zenon DEF Goes
    <2>a. /\ DOMAIN fields = {"pc", "from", "entries", "reviewed", "asReviewed", "whileEnrolled"}
          /\ fields.pc = "recheck" /\ fields.entries = s
          /\ fields.asReviewed = (task[c].reviewed \in {NoItem, ConfiguredClient})
          /\ fields.whileEnrolled = (enrolled = task[c].scope)
      BY Zenon
    <2> HIDE DEF fields
    <2>2. /\ task'[c].pc = "recheck" /\ task'[c].entries = s /\ task'[c].scope = task[c].scope
          /\ task'[c].inserted = task[c].inserted /\ task'[c].deduplicated = task[c].deduplicated
      BY <2>1, <2>a, SetFields, Zenon
    <2>3. /\ task'[c].asReviewed = (task[c].reviewed \in {NoItem, ConfiguredClient})
          /\ task'[c].whileEnrolled = (enrolled = task[c].scope)
      BY <2>1, <2>a, SetFields, Zenon
    <2>4. task'[c].asReviewed /\ (enrolled = task'[c].scope => task'[c].whileEnrolled)
      BY <1>3, <2>2, <2>3, Zenon
    <2>5. Good(task'[c], enrolled, enrollments, kept')
      BY <1>0, <1>3, <2>2, <2>4 DEF Good
    <2> QED
      BY <2>1, <2>5, SetFrame, OneMoves, Zenon
  <1>4. ASSUME task[c].pc = "recheck", ScopeIsCurrent(task[c].scope),
               Goes(c, [pc |-> "store", rest |-> Observations(task[c].entries)])
        PROVE  CollectionInv'
    <2>0. Set(c, [pc |-> "store", rest |-> Observations(task[c].entries)]) /\ UNCHANGED kept
      BY <1>4, Zenon DEF Goes
    <2>1. /\ task'[c].pc = "store" /\ task'[c].rest = Observations(task[c].entries)
          /\ task'[c].entries = task[c].entries /\ task'[c].scope = task[c].scope
          /\ task'[c].inserted = task[c].inserted /\ task'[c].deduplicated = task[c].deduplicated
          /\ task'[c].asReviewed = task[c].asReviewed
          /\ task'[c].whileEnrolled = task[c].whileEnrolled
      <3> DEFINE fields == [pc |-> "store", rest |-> Observations(task[c].entries)]
      <3>1. /\ Set(c, fields) /\ DOMAIN fields = {"pc", "rest"}
            /\ fields.pc = "store" /\ fields.rest = Observations(task[c].entries)
        BY <2>0, Zenon
      <3> HIDE DEF fields
      <3> QED
        BY <1>0, <3>1, SetFields, Zenon
    <2>2. task[c].asReviewed /\ task[c].whileEnrolled
      BY <1>0, <1>4, Zenon DEF Good, ScopeIsCurrent
    <2>3. Cardinality(Observations(task[c].entries)) \in Nat
      BY <1>0, <1>4, FiniteObservations, Zenon DEF Good
    <2>4. Counted(task'[c])
      <3>1. task[c].inserted = 0 /\ task[c].deduplicated = 0
        BY <1>0, <1>4, Zenon DEF Good
      <3> QED
        BY <2>1, <2>3, <3>1 DEF Counted
    <2>5. Good(task'[c], enrolled, enrollments, kept')
      <3>1. task[c].entries \in Snapshots /\ task[c].scope \in 1..enrollments
        BY <1>0, <1>4, Zenon DEF Good
      <3>2. Observations(task'[c].entries) \ task'[c].rest = {}
        BY <2>1, Zenon
      <3> QED BY <2>1, <2>2, <2>4, <3>1, <3>2, Zenon DEF Good
    <2> QED
      BY <2>0, <2>5, SetFrame, OneMoves
  <1> QED
    BY <1>1, <1>2, <1>3, <1>4, StoreKeeps, Zenon DEF Collect, ChecksScope, ReadSnapshotBound, RechecksScope

LEMMA NetworkKeeps ==
  ASSUME CollectionInv, UNCHANGED <<task, kept>>, EnrollsAgain \/ Retires \/ InterfaceChanges
  PROVE  CollectionInv'
  <1>1. /\ enrollments' \in Nat /\ enrollments <= enrollments'
        /\ enrolled' = NoItem \/ enrolled' \in 1..enrollments'
        /\ enrolled' = enrolled \/ enrolled' \notin 1..enrollments
    BY ExternalAssumption DEF CollectionInv, EnrollsAgain, Retires, InterfaceChanges
  <1>2. ASSUME NEW c \in Collectors PROVE Good(task[c], enrolled', enrollments', kept)
    <2>1. Good(task[c], enrolled, enrollments, kept) /\ enrollments \in Nat
      BY Zenon DEF CollectionInv
    <2>2. 1..enrollments \subseteq 1..enrollments'
      BY <1>1, <2>1
    <2>3. task[c].pc = "recheck" /\ enrolled' = task[c].scope => enrolled = task[c].scope
      BY <1>1, <2>1, Zenon DEF Good
    <2> QED
      BY <2>1, <2>2, <2>3, Zenon DEF Good
  <1> QED
    BY <1>1, <1>2, Zenon DEF CollectionInv

(* A task of CollectReviewed that has read its history read it from the     *)
(* reviewed origin, and its counts account for what it stored so far.       *)
THEOREM CollectionInvariance == ExternalSpec => []CollectionInv
  <1>1. ExternalInit => CollectionInv
    BY IdleIsGood DEF ExternalInit, CollectionInv
  <1>2. CollectionInv /\ [ExternalNext]_externalVars => CollectionInv'
    <2> SUFFICES ASSUME CollectionInv, [ExternalNext]_externalVars PROVE CollectionInv'
      OBVIOUS
    <2>1. CASE Collections
      BY <2>1, ReviewKeeps, CollectKeeps, Zenon DEF Collections, AdGuardCollect, OPNsenseCollect
    <2>2. CASE NetworkChanges
      BY <2>2, NetworkKeeps, Zenon DEF NetworkChanges, collection
    <2>3. CASE OfferExpires
      <3>1. DOMAIN task' = Collectors /\ \A c \in Collectors : task'[c] \in {Idle, task[c]}
        BY <2>3, Zenon DEF OfferExpires, Ends, CollectionInv
      <3> QED
        BY <2>3, <3>1, IdleIsGood, Zenon DEF OfferExpires, CollectionInv, network
    <2>4. CASE ControllerRestarts
      <3>1. DOMAIN task' = Collectors /\ \A c \in Collectors : task'[c] \in {Idle, task[c]}
        BY <2>4, Zenon DEF ControllerRestarts
      <3> QED
        BY <2>4, <3>1, IdleIsGood, Zenon DEF ControllerRestarts, CollectionInv, network
    <2>5. CASE UNCHANGED <<network, task, kept>>
      BY <2>5, Zenon DEF CollectionInv, network
    <2> QED
      BY <2>1, <2>2, <2>3, <2>4, <2>5, Zenon DEF ExternalNext, Commands, AdGuardConnect, AdGuardUndoConnect,
          AdGuardDisconnect, OPNsenseConnect, OPNsenseUndoConnect, OPNsenseDisconnect, Still, Leaves,
          externalVars, collection
  <1> QED
    BY <1>1, <1>2, PTL DEF ExternalSpec

(* What a collection stores was read from the reviewed origin and while the *)
(* chosen scope was enrolled (CollectReviewed, ReadSnapshotBound), however  *)
(* often the network is retired and enrolled again meanwhile.               *)
THEOREM ReviewedCollection == ExternalSpec => []CollectedAsReviewed
  <1>1. CollectionInv => CollectedAsReviewed
    BY DEF CollectionInv, Good, CollectedAsReviewed
  <1> QED
    BY <1>1, CollectionInvariance, PTL

(* A reported connection or disconnection holds, and a finished collection  *)
(* accounts for every entry of any history, each admitted one stored.       *)
THEOREM TruthfulAnswers == ExternalSpec => []AnswerHolds
  <1>1. ASSUME CollectionInv, NEW c \in Collectors, task[c].pc = "done"
        PROVE  AddsUp(task[c]) /\ \A e \in Observations(task[c].entries) : Key(c, e) \in kept
    <2>1. Good(task[c], enrolled, enrollments, kept)
      BY <1>1, Zenon DEF CollectionInv
    <2>2. task[c].rest = {} /\ Cardinality({}) = 0
      BY <1>1, <2>1, FS_EmptySet, Zenon DEF Good
    <2>3. task[c].entries \in Snapshots /\ Counted(task[c])
      BY <1>1, <2>1, Zenon DEF Good
    <2>4. task[c].inserted + task[c].deduplicated = Cardinality(Observations(task[c].entries))
      BY <2>2, <2>3 DEF Counted
    <2>5. AddsUp(task[c])
      <3>1. /\ Cardinality(Admitted(task[c].entries)) \in Nat /\ Len(task[c].entries) \in Nat
            /\ Cardinality(Observations(task[c].entries)) \in Nat
        BY <2>3, FiniteObservations, Zenon
      <3>2. task[c].inserted \in Nat /\ task[c].deduplicated \in Nat
        BY <2>3, Zenon DEF Counted
      <3> DEFINE admitted == Cardinality(Admitted(task[c].entries))
                 selected == Cardinality(Observations(task[c].entries))
                 length == Len(task[c].entries)
      <3>3. ReportedDuplicates(task[c]) = task[c].deduplicated + (admitted - selected)
        BY Zenon DEF ReportedDuplicates, Repeated
      <3>4. Skipped(task[c].entries) = length - admitted
        BY Zenon DEF Skipped
      <3>5. /\ admitted \in Nat /\ selected \in Nat /\ length \in Nat
            /\ task[c].inserted + task[c].deduplicated = selected
        BY <2>4, <3>1, Zenon
      <3> HIDE DEF admitted, selected, length
      <3>6. task[c].inserted + (task[c].deduplicated + (admitted - selected)) + (length - admitted) = length
        BY <3>2, <3>5
      <3> QED BY <3>3, <3>4, <3>6 DEF AddsUp, length
    <2>6. \A e \in Observations(task[c].entries) : Key(c, e) \in kept
      BY <1>1, <2>1, <2>2 DEF Good, Key
    <2> QED
      BY <2>5, <2>6, Zenon
  <1>2. ConnectionInv /\ CollectionInv => AnswerHolds
    BY <1>1, Zenon DEF ConnectionInv, Truthful, AnswerHolds
  <1> QED
    BY <1>2, ConnectionInvariance, CollectionInvariance, PTL
===============================================================================
