------------------------ MODULE PendingPipelineProofs ------------------------
(***************************************************************************)
(* AtMostOnce and SentMeansShown for any discoveries, contents, evidence,  *)
(* scan modes, exceptions and crashes, provided a transport error is never *)
(* reported for a message that was shown and no console request re-sends a *)
(* delivery.  With Ambiguous = TRUE the worker repeats an accepted POST,   *)
(* and a console request repeats one on purpose.  SentMeansShown alone     *)
(* holds with ambiguous errors too (PendingSentMeansShown).                *)
(*                                                                         *)
(* AtMostOnce is not inductive: a POST is harmless because the delivery it *)
(* is made for was committed as "sending" from a status that only messages *)
(* never shown have (Ledger), and because nothing takes it out of          *)
(* "sending" while the POST and its answer are in flight (InFlight).       *)
(***************************************************************************)
EXTENDS PendingPipeline, TLAPS

WorkerShape ==
    /\ pc \notin {"down", "idle"} => cur \in Discoveries
    /\ pc \in {"summarizing", "posting", "answered"} => msg \in Messages
    /\ pc = "answered" => result \in Results

ConsoleShape ==
    \A t \in Threads :
        /\ console[t].pc # "idle" => console[t].entry \in Messages
        /\ console[t].pc # "idle" => console[t].msg \in Messages
        /\ console[t].pc = "answered" => console[t].result \in Results

Shape == TypeOK /\ WorkerShape /\ ConsoleShape

Ledger ==
    \A m \in Messages :
        /\ accepted[m] \in {0, 1}
        /\ delivery[m] \in {"none", "failed", "retry_wait"} => accepted[m] = 0
        /\ delivery[m] = "sent" => accepted[m] = 1

InFlight ==
    /\ pc = "posting" => delivery[msg] = "sending" /\ accepted[msg] = 0
    /\ pc = "answered" =>
          delivery[msg] = "sending" /\ accepted[msg] \in MayShow(result)

IInv == Shape /\ Ledger /\ InFlight

USE ContentOfAssumption, AbsentAssumption, SettingsAssumption,
    MaxAttemptsAssumption, NoPidAssumption

-----------------------------------------------------------------------------
(* Lemmas on the operators.                                                *)

\* The column updates of the queue keep a row well typed.
LEMMA RowUpdatesTyped ==
    ASSUME NEW row \in Row
    PROVE  /\ \A p \in Pids : ClaimRow(row, p) \in Row
           /\ RecoverRow(row) \in Row
           /\ RetryRow(row) \in Row
           /\ CompleteRow(row) \in Row
           /\ \A s \in Stages : AdvanceRow(row, s, FALSE) \in Row
           /\ \A s \in Stages : EnqueueRow(s, FALSE) \in Row
  <1>1. \A n \in 0..MaxAttempts : Bump(n) \in 0..MaxAttempts
    BY MaxAttemptsAssumption DEF Bump, MaxAttemptsAssumption
  <1>2. 0 \in 0..MaxAttempts
    BY MaxAttemptsAssumption DEF MaxAttemptsAssumption
  <1>3. \A p \in Pids : ClaimRow(row, p) \in Row
    BY <1>1 DEF ClaimRow, Row, Statuses
  <1>4. RecoverRow(row) \in Row
    BY DEF RecoverRow, Row, Statuses
  <1>5. RetryRow(row) \in Row /\ CompleteRow(row) \in Row
    BY <1>2 DEF RetryRow, CompleteRow, Row, Statuses, ErrorCodes
  <1>6. \A s \in Stages : AdvanceRow(row, s, FALSE) \in Row
    BY <1>2 DEF AdvanceRow, Waiting, Row, Statuses, ErrorCodes
  <1>7. \A s \in Stages : EnqueueRow(s, FALSE) \in Row
    BY <1>2 DEF EnqueueRow, AbsentRow, Waiting, Row, Statuses, ErrorCodes
  <1>8. QED
    BY <1>3, <1>4, <1>5, <1>6, <1>7

\* A failed row is well typed too.
LEMMA FailRowTyped ==
    ASSUME NEW row \in Row, NEW n \in 0..MaxAttempts, NEW u \in BOOLEAN,
           NEW c \in BOOLEAN, NEW e \in ErrorCodes, NEW l \in BOOLEAN
    PROVE  FailRow(row, n, u, c, e, l) \in Row
  <1>1. CanRetry(n, u, c) \in BOOLEAN
    BY DEF CanRetry
  <1>2. QED
    BY <1>1 DEF FailRow, Row, Waiting, Statuses, ErrorCodes

\* The results that handlers report have the declared shape.
LEMMA ReportsTyped ==
    /\ NoOutcome \in Outcome
    /\ Completed \in Outcome
    /\ \A s \in CORE_PIPELINE_STAGES : Advanced(s) \in Outcome
    /\ \A u, c \in BOOLEAN : Failed(u, c, "other") \in Outcome
    /\ \A r : AfterDelivery(r) \in Outcome
    /\ AfterSummary \in Outcome
  <1>1. NoOutcome \in Outcome
    BY DEF NoOutcome, Outcome, CORE_PIPELINE_STAGES, ErrorCodes
  <1>2. Completed \in Outcome
    BY <1>1 DEF Completed, Outcome
  <1>3. \A s \in CORE_PIPELINE_STAGES : Advanced(s) \in Outcome
    BY <1>1 DEF Advanced, Outcome
  <1>4. \A u, c \in BOOLEAN : Failed(u, c, "other") \in Outcome
    BY <1>1 DEF Failed, Outcome, ErrorCodes
  <1>5. {"pending_cleanup", "notify_feishu"} \subseteq CORE_PIPELINE_STAGES
    BY DEF CORE_PIPELINE_STAGES
  <1>6. \A r : AfterDelivery(r) \in Outcome
    BY <1>3, <1>4, <1>5 DEF AfterDelivery
  <1>7. AfterSummary \in Outcome
    BY <1>2, <1>3, <1>5 DEF AfterSummary
  <1> QED
    BY <1>1, <1>2, <1>3, <1>4, <1>6, <1>7

\* The newest element of a list is an element of its type.
LEMMA NewestTyped ==
    ASSUME NEW S, NEW s \in Seq(S), s # << >>
    PROVE  Newest(s) \in S
  <1>1. Len(s) \in 1..Len(s)
    OBVIOUS
  <1> QED
    BY <1>1 DEF Newest

\* One more showing of a message.
LEMMA ShowTyped ==
    ASSUME accepted \in [Messages -> 0..2], NEW m \in Messages, NEW n \in {0, 1},
           Show(m, n)
    PROVE  /\ accepted' \in [Messages -> 0..2]
           /\ \A x \in Messages : x # m => accepted'[x] = accepted[x]
           /\ accepted[m] = 0 => accepted'[m] = n
  BY DEF Show

\* The status written for an answer is one a delivery may have.
LEMMA StatusTyped ==
    ASSUME NEW r \in Results
    PROVE  delivery_status_for_result(r) \in DeliveryStatuses
  BY DEF delivery_status_for_result, Results, DeliveryStatuses

\* Every update of the task table the worker and the console make.
LEMMA TasksTyped ==
    ASSUME tasks \in [Discoveries -> Row]
    PROVE  /\ Recovered \in [Discoveries -> Row]
           /\ [d \in Discoveries |->
                 IF d \in Retryable THEN RetryRow(tasks[d]) ELSE tasks[d]]
                 \in [Discoveries -> Row]
           /\ \A d \in Discoveries :
                 [tasks EXCEPT ![d] = EnqueueRow("detail_sync", FALSE)]
                    \in [Discoveries -> Row]
           /\ \A d \in Discoveries :
                 [tasks EXCEPT ![d] = ClaimRow(tasks[d], Worker)]
                    \in [Discoveries -> Row]
           /\ \A d \in Discoveries, o \in Outcome :
                 [tasks EXCEPT ![d] = ResultRow(tasks[d], tasks[d], o, FALSE)]
                    \in [Discoveries -> Row]
           /\ \A d \in Discoveries :
                 [tasks EXCEPT ![d].backoff = FALSE] \in [Discoveries -> Row]
  <1>1. \A d \in Discoveries : tasks[d] \in Row
    OBVIOUS
  <1>2. \A d \in Discoveries : RecoverRow(tasks[d]) \in Row
    BY <1>1, RowUpdatesTyped
  <1>3. \A d \in Discoveries : RetryRow(tasks[d]) \in Row
    BY <1>1, RowUpdatesTyped
  <1>4. \A d \in Discoveries : EnqueueRow("detail_sync", FALSE) \in Row
    <2>1. "detail_sync" \in Stages
      BY DEF Stages, CORE_PIPELINE_STAGES
    <2> QED
      BY <1>1, <2>1, RowUpdatesTyped
  <1>5. \A d \in Discoveries : ClaimRow(tasks[d], Worker) \in Row
    BY <1>1, RowUpdatesTyped
  <1>6. ASSUME NEW d \in Discoveries, NEW o \in Outcome
        PROVE  ResultRow(tasks[d], tasks[d], o, FALSE) \in Row
    <2>1. FailRow(tasks[d], tasks[d].attempts, o.unbounded, o.recoverable,
                  o.error, FALSE) \in Row
      <3>1. tasks[d].attempts \in 0..MaxAttempts
        BY <1>1 DEF Row
      <3>2. /\ o.unbounded \in BOOLEAN /\ o.recoverable \in BOOLEAN
            /\ o.error \in ErrorCodes
        BY DEF Outcome
      <3> QED
        BY <1>1, <3>1, <3>2, FailRowTyped
    <2>2. CompleteRow(tasks[d]) \in Row
      BY <1>1, RowUpdatesTyped
    <2>3. AdvanceRow(tasks[d], o.stage, FALSE) \in Row
      <3>1. o.stage \in Stages
        BY DEF Outcome, Stages
      <3> QED
        BY <1>1, <3>1, RowUpdatesTyped
    <2> QED
      BY <1>1, <2>1, <2>2, <2>3 DEF ResultRow
  <1>7. \A d \in Discoveries : [tasks[d] EXCEPT !.backoff = FALSE] \in Row
    BY <1>1 DEF Row
  <1>8. Recovered \in [Discoveries -> Row]
    BY <1>1, <1>2 DEF Recovered
  <1> QED
    BY <1>1, <1>3, <1>4, <1>5, <1>6, <1>7, <1>8

-----------------------------------------------------------------------------
(* Type correctness.                                                       *)

\* Nothing has happened yet.
LEMMA InitIInv == Init => IInv
  <1> SUFFICES ASSUME Init PROVE IInv
    OBVIOUS
  <1>1. tasks \in [Discoveries -> Row]
    <2>1. "detail_sync" \in Stages
      BY DEF Stages, CORE_PIPELINE_STAGES
    <2>2. AbsentRow("detail_sync") \in Row
      BY <2>1 DEF AbsentRow, Row, Statuses, ErrorCodes, MaxAttemptsAssumption
    <2> QED
      BY <2>2 DEF Init
  <1>2. snapshots \in Seq(Contents) /\ summaries \in Seq(Messages)
    BY DEF Init
  <1>3. console \in [Threads -> Request]
    BY DEF Init, NoRequest, Request
  <1>4. delivery \in [Messages -> DeliveryStatuses] /\ accepted \in [Messages -> 0..2]
    BY DEF Init, DeliveryStatuses
  <1>5. parses \in 0..MaxParses /\ crashes \in 0..MaxCrashes
    BY DEF Init, SettingsAssumption
  <1>6. out \in Outcome
    BY ReportsTyped DEF Init
  <1>7. TypeOK
    BY <1>1, <1>2, <1>3, <1>4, <1>5, <1>6 DEF Init, TypeOK, PCs
  <1>8. WorkerShape /\ ConsoleShape
    BY DEF Init, WorkerShape, ConsoleShape, NoRequest
  <1>9. Ledger /\ InFlight
    BY DEF Init, Ledger, InFlight
  <1> QED
    BY <1>7, <1>8, <1>9 DEF IInv, Shape

\* No step breaks the types or the shape of what the worker and the console
\* hold in memory.
LEMMA ShapeInductive == Shape /\ [Next]_vars => Shape'
  <1> SUFFICES ASSUME Shape, [Next]_vars PROVE Shape'
    OBVIOUS
  <1> USE DEF Shape
  <1>t. TypeOK
    OBVIOUS
  <1>s. /\ snapshots \in Seq(Contents)
        /\ summaries \in Seq(Messages)
        /\ summaries # << >> => Newest(summaries) \in Messages
        /\ snapshots # << >> => Newest(snapshots) \in Contents
    BY NewestTyped DEF TypeOK
  <1>r. tasks \in [Discoveries -> Row]
    BY DEF TypeOK
  \* A step that reports o and changes only payload, occurrence or delivery.
  <1>rep. ASSUME NEW o \in Outcome, Reports(o),
                 pc \notin {"down", "idle"},
                 UNCHANGED <<shown, notify, tasks, newest, console, accepted, crashes>>,
                 snapshots' \in Seq(Contents), summaries' \in Seq(Messages),
                 parses' \in 0..MaxParses,
                 delivery' \in [Messages -> DeliveryStatuses],
                 occurrence' \in
                    [status : {"unseen", "active", "inactive", "cleaned"},
                     hash : Discoveries \cup {NoDiscovery},
                     cleanup : {"not_eligible", "cleaned", "cleanup_failed"}]
          PROVE  Shape'
    <2>1. TypeOK'
      BY <1>rep DEF TypeOK, Reports, PCs
    <2>2. WorkerShape' /\ ConsoleShape'
      BY <1>rep DEF WorkerShape, ConsoleShape, Reports
    <2> QED
      BY <2>1, <2>2
  \* The special case of a report that changes nothing else.
  <1>rep0. ASSUME NEW o \in Outcome, Reports(o),
                  pc \notin {"down", "idle"},
                  UNCHANGED <<oaVars, tasks, payloadVars, deliveryVars, console,
                              accepted, crashes>>
           PROVE  Shape'
    <2>1. /\ snapshots' \in Seq(Contents) /\ summaries' \in Seq(Messages)
          /\ parses' \in 0..MaxParses
          /\ delivery' \in [Messages -> DeliveryStatuses]
          /\ occurrence' \in
                [status : {"unseen", "active", "inactive", "cleaned"},
                 hash : Discoveries \cup {NoDiscovery},
                 cleanup : {"not_eligible", "cleaned", "cleanup_failed"}]
      BY <1>rep0 DEF TypeOK, oaVars, payloadVars, deliveryVars
    <2>2. UNCHANGED <<shown, notify, tasks, newest, console, accepted, crashes>>
      BY <1>rep0 DEF oaVars, deliveryVars
    <2> QED
      BY <1>rep0, <2>1, <2>2, <1>rep
  \* A step that changes the task table only.
  <1>tab. ASSUME tasks' \in [Discoveries -> Row],
                 UNCHANGED <<oaVars, payloadVars, deliveryVars, workerVars,
                             console, accepted, crashes>>
          PROVE  Shape'
    <2>1. TypeOK'
      BY <1>tab DEF TypeOK, oaVars, payloadVars, deliveryVars, workerVars
    <2>2. WorkerShape' /\ ConsoleShape'
      BY <1>tab DEF WorkerShape, ConsoleShape, workerVars
    <2> QED
      BY <2>1, <2>2
  <1>1. ASSUME NEW d \in Discoveries, OaChanges(d) PROVE Shape'
    BY <1>1 DEF OaChanges, TypeOK, WorkerShape, ConsoleShape, payloadVars,
                deliveryVars, workerVars
  <1>2. ASSUME NEW mode \in ScanModes, Scan(mode) PROVE Shape'
    <2>1. tasks' \in [Discoveries -> Row]
      BY <1>2, <1>r, TasksTyped DEF Scan, TypeOK
    <2>2. occurrence' \in
             [status : {"unseen", "active", "inactive", "cleaned"},
              hash : Discoveries \cup {NoDiscovery},
              cleanup : {"not_eligible", "cleaned", "cleanup_failed"}]
      BY <1>2 DEF Scan, TypeOK
    <2>3. notify' \subseteq Discoveries
      BY <1>2 DEF Scan, TypeOK
    <2>4. TypeOK'
      BY <1>2, <2>1, <2>2, <2>3 DEF Scan, TypeOK, payloadVars, deliveryVars, workerVars
    <2>5. WorkerShape' /\ ConsoleShape'
      BY <1>2 DEF Scan, WorkerShape, ConsoleShape, workerVars
    <2> QED
      BY <2>4, <2>5
  <1>3. ASSUME ScanMissing PROVE Shape'
    BY <1>3 DEF ScanMissing, TypeOK, WorkerShape, ConsoleShape, payloadVars,
                deliveryVars, workerVars
  <1>4. ASSUME RetryFailed PROVE Shape'
    BY <1>4, <1>r, <1>tab, TasksTyped DEF RetryFailed
  <1>5. ASSUME NEW d \in Discoveries, BackoffElapses(d) PROVE Shape'
    BY <1>5, <1>r, <1>tab, TasksTyped DEF BackoffElapses
  <1>6. ASSUME Crash PROVE Shape'
    <2>1. crashes' \in 0..MaxCrashes
      BY <1>6 DEF Crash, TypeOK, SettingsAssumption
    <2>2. TypeOK'
      BY <1>6, <2>1, ReportsTyped
         DEF Crash, TypeOK, PCs, oaVars, payloadVars, deliveryVars
    <2>3. WorkerShape' /\ ConsoleShape'
      BY <1>6 DEF Crash, WorkerShape, ConsoleShape
    <2> QED
      BY <2>2, <2>3
  <1>7. ASSUME StartWorker PROVE Shape'
    <2>1. tasks' \in [Discoveries -> Row]
      BY <1>7, <1>r, TasksTyped DEF StartWorker
    <2>2. TypeOK'
      BY <1>7, <2>1 DEF StartWorker, TypeOK, PCs, oaVars, payloadVars, deliveryVars
    <2>3. WorkerShape' /\ ConsoleShape'
      BY <1>7 DEF StartWorker, WorkerShape, ConsoleShape
    <2> QED
      BY <2>2, <2>3
  <1>8. ASSUME NEW d \in Discoveries, Claim(d) PROVE Shape'
    <2>1. tasks' \in [Discoveries -> Row]
      BY <1>8, <1>r, TasksTyped DEF Claim
    <2>2. TypeOK'
      BY <1>8, <2>1 DEF Claim, TypeOK, PCs, oaVars, payloadVars, deliveryVars
    <2>3. WorkerShape' /\ ConsoleShape'
      BY <1>8 DEF Claim, WorkerShape, ConsoleShape
    <2> QED
      BY <2>2, <2>3
  <1>9. ASSUME Report PROVE Shape'
    <2>1. tasks' \in [Discoveries -> Row]
      <3>1. cur \in Discoveries /\ out \in Outcome
        BY <1>9 DEF Report, WorkerShape, TypeOK
      <3> QED
        BY <1>9, <1>r, <3>1, TasksTyped DEF Report
    <2>2. TypeOK'
      BY <1>9, <2>1, ReportsTyped
         DEF Report, TypeOK, PCs, oaVars, payloadVars, deliveryVars
    <2>3. WorkerShape' /\ ConsoleShape'
      BY <1>9 DEF Report, WorkerShape, ConsoleShape
    <2> QED
      BY <2>2, <2>3
  <1>10. ASSUME NEW transient \in Faults, Raise(transient) PROVE Shape'
    BY <1>10, <1>rep0, ReportsTyped DEF Raise, SettingsAssumption
  <1>11. ASSUME Handler PROVE Shape'
    <2> DEFINE Occurrence ==
           [status : {"unseen", "active", "inactive", "cleaned"},
            hash : Discoveries \cup {NoDiscovery},
            cleanup : {"not_eligible", "cleaned", "cleanup_failed"}]
    <2>a. /\ occurrence \in Occurrence
          /\ delivery \in [Messages -> DeliveryStatuses]
          /\ parses \in 0..MaxParses
          /\ 0 \in 0..MaxParses
      BY DEF TypeOK, SettingsAssumption
    <2>b. {"pending_parse", "pending_summary", "pending_cleanup"}
             \subseteq CORE_PIPELINE_STAGES
      BY DEF CORE_PIPELINE_STAGES
    <2>c. ASSUME ErasePayload
          PROVE  /\ snapshots' \in Seq(Contents)
                 /\ summaries' \in Seq(Messages)
                 /\ parses' \in 0..MaxParses
      BY <2>c, <2>a DEF ErasePayload
    <2>1. CASE Capture
      <3>1. snapshots' \in Seq(Contents)
        BY <2>1, <1>s DEF Capture, TypeOK, ContentOfAssumption
      <3>2. parses' \in 0..MaxParses
        BY <2>1 DEF Capture
      <3>3. /\ pc \notin {"down", "idle"}
            /\ UNCHANGED <<shown, notify, tasks, newest, console, accepted, crashes>>
            /\ UNCHANGED <<occurrence, delivery, summaries>>
            /\ Reports(Advanced("pending_parse"))
        BY <2>1 DEF Capture, At, oaVars, deliveryVars
      <3>4. Advanced("pending_parse") \in Outcome
        BY <2>b, ReportsTyped
      <3> QED
        BY <3>1, <3>2, <3>3, <3>4, <2>a, <1>s, <1>rep
    <2>2. CASE ParseOne
      <3>1. parses' \in 0..MaxParses
        BY <2>2, <2>a DEF ParseOne, SettingsAssumption
      <3>2. /\ pc \notin {"down", "idle"}
            /\ UNCHANGED <<shown, notify, tasks, newest, console, accepted, crashes>>
            /\ UNCHANGED <<occurrence, delivery, summaries, snapshots>>
            /\ Reports(Advanced("pending_parse"))
        BY <2>2 DEF ParseOne, At, oaVars, deliveryVars
      <3>3. Advanced("pending_parse") \in Outcome
        BY <2>b, ReportsTyped
      <3> QED
        BY <3>1, <3>2, <3>3, <2>a, <1>s, <1>rep
    <2>3. CASE ParsesDone
      BY <2>3, <2>b, <1>rep0, ReportsTyped DEF ParsesDone, At
    <2>4. CASE NoSnapshot
      BY <2>4, <1>rep0, ReportsTyped DEF NoSnapshot, At
    <2>5. ASSUME NEW e \in Evidence, KnownSummary(e) PROVE Shape'
      BY <2>5, <1>rep0, ReportsTyped DEF KnownSummary, At
    <2>6. ASSUME NEW e \in Evidence, BeginSummary(e) PROVE Shape'
      <3>1. msg' \in Messages
        BY <2>6, <1>s DEF BeginSummary, Messages
      <3>2. TypeOK'
        BY <2>6, <3>1 DEF BeginSummary, At, TypeOK, PCs, oaVars, payloadVars, deliveryVars
      <3>3. WorkerShape' /\ ConsoleShape'
        BY <2>6, <3>1 DEF BeginSummary, At, WorkerShape, ConsoleShape
      <3> QED
        BY <3>2, <3>3
    <2>7. CASE EndSummary
      <3>1. msg \in Messages
        BY <2>7 DEF EndSummary, WorkerShape
      <3>2. summaries' \in Seq(Messages)
        <4>1. summaries' = Append(summaries, msg) \/ summaries' = summaries
          BY <2>7 DEF EndSummary
        <4>2. Append(summaries, msg) \in Seq(Messages)
          BY <1>s, <3>1
        <4> QED
          BY <4>1, <4>2, <1>s
      <3>3. /\ pc \notin {"down", "idle"}
            /\ UNCHANGED <<shown, notify, tasks, newest, console, accepted, crashes>>
            /\ UNCHANGED <<occurrence, delivery, snapshots, parses>>
            /\ Reports(AfterSummary) \/ Reports(Failed(FALSE, TRUE, "other"))
        BY <2>7 DEF EndSummary, oaVars, deliveryVars
      <3>4. AfterSummary \in Outcome /\ Failed(FALSE, TRUE, "other") \in Outcome
        BY ReportsTyped
      <3> QED
        BY <3>2, <3>3, <3>4, <2>a, <1>s, <1>rep
    <2>8. ASSUME NEW f \in FeishuStates, SkipNotify(f) PROVE Shape'
      BY <2>8, <1>rep0, ReportsTyped DEF SkipNotify, At
    <2>9. CASE AlreadySent
      BY <2>9, <2>b, <1>rep0, ReportsTyped DEF AlreadySent, NotifyReady, At
    <2>10. CASE ParkUnknown
      <3>1. delivery' \in [Messages -> DeliveryStatuses]
        BY <2>10, <2>a DEF ParkUnknown, DeliveryStatuses
      <3>2. /\ pc \notin {"down", "idle"}
            /\ UNCHANGED <<shown, notify, tasks, newest, console, accepted, crashes>>
            /\ UNCHANGED <<occurrence, snapshots, parses, summaries>>
            /\ Reports(Failed(FALSE, FALSE, "other"))
        BY <2>10 DEF ParkUnknown, NotifyReady, At, oaVars, payloadVars
      <3>3. Failed(FALSE, FALSE, "other") \in Outcome
        BY ReportsTyped
      <3> QED
        BY <3>1, <3>2, <3>3, <2>a, <1>s, <1>rep
    <2>11. CASE BeginDelivery
      <3>1. msg' \in Messages
        BY <2>11, <1>s DEF BeginDelivery, NotifyReady
      <3>2. delivery' \in [Messages -> DeliveryStatuses]
        BY <2>11, <2>a DEF BeginDelivery, DeliveryStatuses
      <3>3. newest' \in Messages \cup {NoMessage}
        BY <2>11, <3>1 DEF BeginDelivery, TypeOK
      <3>4. TypeOK'
        BY <2>11, <3>1, <3>2, <3>3
           DEF BeginDelivery, TypeOK, PCs, oaVars, payloadVars
      <3>5. WorkerShape' /\ ConsoleShape'
        BY <2>11, <3>1 DEF BeginDelivery, NotifyReady, At, WorkerShape, ConsoleShape
      <3> QED
        BY <3>4, <3>5
    <2>12. ASSUME NEW r \in Results, NEW n \in {0, 1}, Post(r, n) PROVE Shape'
      <3>1. msg \in Messages
        BY <2>12 DEF Post, WorkerShape
      <3>2. accepted' \in [Messages -> 0..2]
        BY <2>12, <3>1, ShowTyped DEF Post, TypeOK
      <3>3. TypeOK'
        BY <2>12, <3>2 DEF Post, TypeOK, PCs, oaVars, payloadVars, deliveryVars
      <3>4. WorkerShape' /\ ConsoleShape'
        BY <2>12, <3>1 DEF Post, WorkerShape, ConsoleShape
      <3> QED
        BY <3>3, <3>4
    <2>13. CASE RecordDelivery
      <3>1. delivery' \in [Messages -> DeliveryStatuses]
        <4>1. delivery_status_for_result(result) \in DeliveryStatuses
          BY <2>13, StatusTyped DEF RecordDelivery, WorkerShape
        <4> QED
          BY <2>13, <2>a, <4>1 DEF RecordDelivery
      <3>2. /\ pc \notin {"down", "idle"}
            /\ UNCHANGED <<shown, notify, tasks, newest, console, accepted, crashes>>
            /\ UNCHANGED <<occurrence, snapshots, parses, summaries>>
            /\ Reports(AfterDelivery(result))
        BY <2>13 DEF RecordDelivery, oaVars, payloadVars
      <3>3. AfterDelivery(result) \in Outcome
        BY ReportsTyped
      <3> QED
        BY <3>1, <3>2, <3>3, <2>a, <1>s, <1>rep
    <2>14. CASE AlreadyCleaned
      BY <2>14, <1>rep0, ReportsTyped DEF AlreadyCleaned, At
    <2>15. CASE CleanupRefused
      BY <2>15, <1>rep0, ReportsTyped DEF CleanupRefused, At
    <2>16. CASE Cleanup
      <3>1. occurrence' \in Occurrence
        BY <2>16, <2>a DEF Cleanup, Erase
      <3>2. /\ pc \notin {"down", "idle"}
            /\ UNCHANGED <<shown, notify, tasks, newest, console, accepted, crashes>>
            /\ UNCHANGED delivery
            /\ ErasePayload
            /\ Reports(Completed)
        BY <2>16 DEF Cleanup, Erase, At, deliveryVars
      <3>3. Completed \in Outcome
        BY ReportsTyped
      <3> QED
        BY <3>1, <3>2, <3>3, <2>a, <2>c, <1>rep
    <2>17. CASE CleanupFails
      <3>1. occurrence' \in Occurrence
        BY <2>17, <2>a DEF CleanupFails
      <3>2. /\ pc \notin {"down", "idle"}
            /\ UNCHANGED <<shown, notify, tasks, newest, console, accepted, crashes>>
            /\ UNCHANGED delivery
            /\ UNCHANGED payloadVars \/ ErasePayload
            /\ Reports(Failed(FALSE, TRUE, "other"))
        BY <2>17 DEF CleanupFails, At, deliveryVars
      <3>3. Failed(FALSE, TRUE, "other") \in Outcome
        BY ReportsTyped
      <3>4. /\ snapshots' \in Seq(Contents)
            /\ summaries' \in Seq(Messages)
            /\ parses' \in 0..MaxParses
        BY <3>2, <2>a, <2>c, <1>s DEF payloadVars
      <3> QED
        BY <3>1, <3>2, <3>3, <3>4, <2>a, <1>rep
    <2> QED
      BY <1>11, <2>1, <2>2, <2>3, <2>4, <2>5, <2>6, <2>7, <2>8, <2>9, <2>10,
         <2>11, <2>12, <2>13, <2>14, <2>15, <2>16, <2>17 DEF Handler
  <1>12. ASSUME ConsoleCleanup PROVE Shape'
    <2>a. /\ snapshots' \in Seq(Contents) /\ summaries' \in Seq(Messages)
          /\ parses' \in 0..MaxParses
      BY <1>12 DEF ConsoleCleanup, Erase, ErasePayload, SettingsAssumption
    <2>b. occurrence' \in
             [status : {"unseen", "active", "inactive", "cleaned"},
              hash : Discoveries \cup {NoDiscovery},
              cleanup : {"not_eligible", "cleaned", "cleanup_failed"}]
      BY <1>12 DEF ConsoleCleanup, Erase, TypeOK
    <2>1. TypeOK'
      BY <1>12, <2>a, <2>b DEF ConsoleCleanup, TypeOK, deliveryVars, workerVars
    <2>2. WorkerShape' /\ ConsoleShape'
      BY <1>12 DEF ConsoleCleanup, WorkerShape, ConsoleShape, workerVars
    <2> QED
      BY <2>1, <2>2
  <1>13. ASSUME Reconcile PROVE Shape'
    <2>1. delivery' \in [Messages -> DeliveryStatuses]
      BY <1>13 DEF Reconcile, TypeOK, DeliveryStatuses
    <2>2. TypeOK'
      BY <1>13, <2>1 DEF Reconcile, TypeOK, oaVars, payloadVars, workerVars
    <2>3. WorkerShape' /\ ConsoleShape'
      BY <1>13 DEF Reconcile, WorkerShape, ConsoleShape, workerVars
    <2> QED
      BY <2>2, <2>3
  <1>14. ASSUME NEW t \in Threads, ConsoleRetry(t) PROVE Shape'
    <2>1. /\ newest \in Messages
          /\ Newest(summaries) \in Messages
      BY <1>14, <1>s DEF ConsoleRetry, TypeOK
    <2> DEFINE req == [NoRequest EXCEPT !.pc = "posting", !.entry = newest,
                                        !.msg = Newest(summaries)]
    <2>2. /\ req \in Request /\ req.entry \in Messages /\ req.msg \in Messages
          /\ req.pc = "posting"
      BY <2>1 DEF NoRequest, Request
    <2>3. console' = [console EXCEPT ![t] = req]
      BY <1>14 DEF ConsoleRetry
    <2> HIDE DEF req
    <2>4. console' \in [Threads -> Request]
      BY <2>2, <2>3 DEF TypeOK
    <2>5. TypeOK'
      BY <1>14, <2>4 DEF ConsoleRetry, TypeOK, oaVars, payloadVars, deliveryVars,
                         workerVars
    <2>6. WorkerShape' /\ ConsoleShape'
      BY <1>14, <2>2, <2>3 DEF ConsoleRetry, TypeOK, WorkerShape, ConsoleShape, workerVars
    <2> QED
      BY <2>5, <2>6
  <1>15. ASSUME NEW t \in Threads, NEW r \in Results, NEW n \in {0, 1},
                ConsolePost(t, r, n)
         PROVE  Shape'
    <2>1. console[t].msg \in Messages /\ console[t] \in Request
      BY <1>15 DEF ConsolePost, ConsoleShape, TypeOK
    <2>2. accepted' \in [Messages -> 0..2]
      BY <1>15, <2>1, ShowTyped DEF ConsolePost, TypeOK
    <2>3. console' = [console EXCEPT ![t] =
                         [console[t] EXCEPT !.pc = "answered", !.result = r]]
      BY <1>15 DEF ConsolePost, TypeOK
    <2>4. /\ [console[t] EXCEPT !.pc = "answered", !.result = r] \in Request
          /\ [console[t] EXCEPT !.pc = "answered", !.result = r].result = r
          /\ [console[t] EXCEPT !.pc = "answered", !.result = r].entry = console[t].entry
          /\ [console[t] EXCEPT !.pc = "answered", !.result = r].msg = console[t].msg
      BY <2>1 DEF Request
    <2>5. console' \in [Threads -> Request]
      BY <2>3, <2>4 DEF TypeOK
    <2>6. TypeOK'
      BY <1>15, <2>2, <2>5 DEF ConsolePost, TypeOK, oaVars, payloadVars,
                               deliveryVars, workerVars
    <2>7. WorkerShape'
      BY <1>15 DEF ConsolePost, WorkerShape, workerVars
    <2>8. ConsoleShape'
      BY <1>15, <2>1, <2>3, <2>4 DEF ConsolePost, ConsoleShape, TypeOK
    <2> QED
      BY <2>6, <2>7, <2>8
  <1>16. ASSUME NEW t \in Threads, ConsoleRecord(t) PROVE Shape'
    <2>1. delivery' \in [Messages -> DeliveryStatuses]
      <3>1. /\ console[t].entry \in Messages
            /\ delivery_status_for_result(console[t].result) \in DeliveryStatuses
        BY <1>16, StatusTyped DEF ConsoleRecord, ConsoleShape
      <3> QED
        BY <1>16, <3>1 DEF ConsoleRecord, TypeOK
    <2>2. NoRequest \in Request /\ NoRequest.pc = "idle"
      BY DEF NoRequest, Request
    <2>3. console' \in [Threads -> Request]
      BY <1>16, <2>2 DEF ConsoleRecord, TypeOK
    <2>4. TypeOK'
      BY <1>16, <2>1, <2>3 DEF ConsoleRecord, TypeOK, oaVars, payloadVars, workerVars
    <2>5. WorkerShape' /\ ConsoleShape'
      BY <1>16, <2>2 DEF ConsoleRecord, TypeOK, WorkerShape, ConsoleShape, workerVars
    <2> QED
      BY <2>4, <2>5
  <1>17. CASE UNCHANGED vars
    BY <1>17, <1>tab, <1>r DEF vars
  <1> QED
    BY <1>1, <1>2, <1>3, <1>4, <1>5, <1>6, <1>7, <1>8, <1>9, <1>10, <1>11, <1>12,
       <1>13, <1>14, <1>15, <1>16, <1>17 DEF Next, WorkerStep, ConsoleStep

-----------------------------------------------------------------------------
(* At most once.                                                           *)

\* Without ambiguous transport errors and without console requests no step
\* breaks the agreement of the delivery rows with what Feishu has shown.
LEMMA LedgerInductive ==
    ASSUME Ambiguous = FALSE, Threads = {}
    PROVE  IInv /\ [Next]_vars => (Ledger /\ InFlight)'
  <1> SUFFICES ASSUME IInv, [Next]_vars PROVE (Ledger /\ InFlight)'
    OBVIOUS
  <1> USE DEF IInv
  <1>t. /\ delivery \in [Messages -> DeliveryStatuses]
        /\ accepted \in [Messages -> 0..2]
        /\ pc \in {"posting", "answered"} => msg \in Messages
        /\ pc = "answered" => result \in Results
    BY DEF Shape, TypeOK, WorkerShape
  \* Steps that leave the ledger and the message in flight alone.
  <1>q. ASSUME UNCHANGED <<delivery, accepted>>,
               \/ pc' \notin {"posting", "answered"}
               \/ UNCHANGED <<pc, msg, result>>
        PROVE  (Ledger /\ InFlight)'
    BY <1>q DEF Ledger, InFlight, MayShow
  <1>1. ASSUME \/ \E d \in Discoveries : OaChanges(d)
               \/ \E mode \in ScanModes : Scan(mode)
               \/ ScanMissing
               \/ \E d \in Discoveries : BackoffElapses(d)
               \/ RetryFailed
               \/ ConsoleCleanup
               \/ UNCHANGED vars
        PROVE  (Ledger /\ InFlight)'
    <2>1. UNCHANGED <<delivery, accepted, pc, msg, result>>
      BY <1>1 DEF OaChanges, Scan, ScanMissing, BackoffElapses, RetryFailed,
                  ConsoleCleanup, deliveryVars, workerVars, vars
    <2> QED
      BY <2>1, <1>q
  <1>2. ASSUME \/ Crash
               \/ StartWorker
               \/ \E d \in Discoveries : Claim(d)
               \/ Report
               \/ \E transient \in Faults : Raise(transient)
        PROVE  (Ledger /\ InFlight)'
    <2>1. UNCHANGED <<delivery, accepted>> /\ pc' \notin {"posting", "answered"}
      BY <1>2 DEF Crash, StartWorker, Claim, Report, Raise, Reports, deliveryVars
    <2> QED
      BY <2>1, <1>q
  <1>3. ASSUME \/ Capture \/ ParseOne \/ ParsesDone \/ NoSnapshot
               \/ \E e \in Evidence : KnownSummary(e) \/ BeginSummary(e)
               \/ EndSummary
               \/ \E f \in FeishuStates : SkipNotify(f)
               \/ AlreadySent \/ AlreadyCleaned \/ CleanupRefused
               \/ Cleanup \/ CleanupFails
        PROVE  (Ledger /\ InFlight)'
    <2>1. UNCHANGED <<delivery, accepted>> /\ pc' \notin {"posting", "answered"}
      BY <1>3 DEF Capture, ParseOne, ParsesDone, NoSnapshot, KnownSummary,
                  BeginSummary, EndSummary, SkipNotify, AlreadySent,
                  AlreadyCleaned, CleanupRefused, Cleanup, CleanupFails, Reports,
                  deliveryVars
    <2> QED
      BY <2>1, <1>q
  \* sending becomes unknown: nothing is claimed about either.
  <1>4. CASE ParkUnknown
    <2> DEFINE m == Newest(summaries)
    <2>1. /\ delivery' = [delivery EXCEPT ![m] = "unknown"]
          /\ accepted' = accepted
          /\ pc' = "reporting"
      BY <1>4 DEF ParkUnknown, Reports
    <2> HIDE DEF m
    <2>2. Ledger'
      BY <2>1, <1>t DEF Ledger
    <2>3. InFlight'
      BY <2>1 DEF InFlight
    <2> QED
      BY <2>2, <2>3
  \* The delivery goes to sending from a status of messages never shown.
  <1>5. CASE BeginDelivery
    <2>1. /\ msg' \in Messages
          /\ delivery[msg'] \notin {"sending", "unknown", "sent"}
          /\ delivery' = [delivery EXCEPT ![msg'] = "sending"]
          /\ accepted' = accepted
          /\ pc' = "posting"
      BY <1>5, NewestTyped
         DEF BeginDelivery, NotifyReady, InDoubt, Shape, TypeOK
    <2>2. delivery[msg'] \in {"none", "failed", "retry_wait"}
      BY <2>1, <1>t DEF DeliveryStatuses
    <2>3. Ledger'
      BY <2>1, <1>t DEF Ledger
    <2>4. InFlight'
      BY <2>1, <2>2, <1>t DEF Ledger, InFlight
    <2> QED
      BY <2>3, <2>4
  \* The message of a delivery being sent has not been shown before.
  <1>6. ASSUME NEW r \in Results, NEW n \in {0, 1}, Post(r, n)
        PROVE  (Ledger /\ InFlight)'
    <2>1. /\ msg \in Messages
          /\ delivery[msg] = "sending"
          /\ accepted[msg] = 0
          /\ Show(msg, n)
          /\ n \in MayShow(r)
      BY <1>6, <1>t DEF Post, InFlight
    <2>2. /\ accepted' \in [Messages -> 0..2]
          /\ accepted'[msg] = n
          /\ \A x \in Messages : x # msg => accepted'[x] = accepted[x]
      BY <2>1, <1>t, ShowTyped
    <2>3. delivery' = delivery /\ msg' = msg /\ result' = r /\ pc' = "answered"
      BY <1>6 DEF Post, deliveryVars
    <2>4. Ledger'
      BY <2>1, <2>2, <2>3 DEF Ledger
    <2>5. InFlight'
      BY <2>1, <2>2, <2>3 DEF InFlight, MayShow
    <2> QED
      BY <2>4, <2>5
  \* The recorded status agrees with what the answer says of the message.
  <1>7. CASE RecordDelivery
    <2>1. /\ msg \in Messages
          /\ result \in Results
          /\ accepted[msg] \in MayShow(result)
          /\ delivery' = [delivery EXCEPT ![msg] = delivery_status_for_result(result)]
          /\ accepted' = accepted
          /\ pc' = "reporting"
      BY <1>7, <1>t DEF RecordDelivery, Reports, InFlight
    <2>2. /\ delivery_status_for_result(result) = "sent" => accepted[msg] = 1
          /\ delivery_status_for_result(result) \in {"none", "failed", "retry_wait"}
                => accepted[msg] = 0
      BY <2>1 DEF MayShow, delivery_status_for_result, Results
    <2>3. Ledger'
      BY <2>1, <2>2, <1>t DEF Ledger
    <2>4. InFlight'
      BY <2>1 DEF InFlight
    <2> QED
      BY <2>3, <2>4
  \* The operator turns unknown into what Feishu shows; it is not in flight.
  <1>8. CASE Reconcile
    <2> DEFINE s == IF accepted[newest] > 0 THEN "sent" ELSE "failed"
    <2>1. /\ newest \in Messages
          /\ delivery[newest] = "unknown"
          /\ delivery' = [delivery EXCEPT ![newest] = s]
          /\ UNCHANGED <<accepted, pc, msg, result>>
      BY <1>8 DEF Reconcile, workerVars, Shape, TypeOK
    <2>2. accepted[newest] \in {0, 1}
      BY <2>1 DEF Ledger
    <2>3. /\ s = "sent" => accepted[newest] = 1
          /\ s = "failed" => accepted[newest] = 0
          /\ s \in {"sent", "failed"}
      BY <2>2
    <2> HIDE DEF s
    <2>4. Ledger'
      BY <2>1, <2>3, <1>t DEF Ledger
    <2>5. InFlight'
      BY <2>1, <1>t DEF InFlight, MayShow
    <2> QED
      BY <2>4, <2>5
  <1> QED
    BY <1>1, <1>2, <1>3, <1>4, <1>5, <1>6, <1>7, <1>8
       DEF Next, WorkerStep, ConsoleStep, Handler

-----------------------------------------------------------------------------
\* The columns and the memory of the worker keep their types and shapes in
\* every behaviour, console requests and ambiguous errors included.
THEOREM PendingTypes == Spec => []TypeOK
  <1>1. Init => Shape
    BY InitIInv DEF IInv
  <1>2. Shape /\ [Next]_vars => Shape'
    BY ShapeInductive
  <1>3. Shape => TypeOK
    BY DEF Shape
  <1> QED
    BY <1>1, <1>2, <1>3, PTL DEF Spec

\* Whatever the scans, crashes, retries and erasures, a version of the item is
\* shown in Feishu at most once, and only a shown one counts as sent, when no
\* transport error hides a shown message and the console re-sends nothing.
THEOREM PendingAtMostOnce ==
    ASSUME Ambiguous = FALSE, Threads = {}
    PROVE  Spec => [](AtMostOnce /\ SentMeansShown)
  <1>1. Init => IInv
    BY InitIInv
  <1>2. IInv /\ [Next]_vars => IInv'
    BY ShapeInductive, LedgerInductive DEF IInv
  <1>3. IInv => AtMostOnce /\ SentMeansShown
    BY DEF IInv, Ledger, AtMostOnce, SentMeansShown
  <1> QED
    BY <1>1, <1>2, <1>3, PTL DEF Spec

-----------------------------------------------------------------------------
(* Sent means shown, also when transport errors are ambiguous.             *)

SentInv ==
    /\ SentMeansShown
    /\ pc = "answered" /\ result = "sent" => accepted[msg] > 0

\* A recorded "sent" follows an answer that says so, or the operator who has seen
\* the message.
LEMMA SentInductive ==
    ASSUME Threads = {}, Shape, SentInv, [Next]_vars
    PROVE  SentInv'
  <1>t. /\ delivery \in [Messages -> DeliveryStatuses]
        /\ accepted \in [Messages -> 0..2]
        /\ pc \in {"posting", "answered"} => msg \in Messages
        /\ pc = "answered" => result \in Results
    BY DEF Shape, TypeOK, WorkerShape
  <1>q. ASSUME UNCHANGED <<delivery, accepted>>,
               pc' # "answered" \/ UNCHANGED <<pc, msg, result>>
        PROVE  SentInv'
    BY <1>q DEF SentInv, SentMeansShown
  <1>1. CASE \/ \E d \in Discoveries : OaChanges(d) \/ BackoffElapses(d)
             \/ \E mode \in ScanModes : Scan(mode)
             \/ ScanMissing \/ RetryFailed \/ ConsoleCleanup \/ UNCHANGED vars
    BY <1>1, <1>q DEF OaChanges, Scan, ScanMissing, BackoffElapses, RetryFailed,
                      ConsoleCleanup, deliveryVars, workerVars, vars
  <1>2. CASE \/ Crash \/ StartWorker \/ Report
             \/ \E d \in Discoveries : Claim(d)
             \/ \E transient \in Faults : Raise(transient)
    BY <1>2, <1>q DEF Crash, StartWorker, Claim, Report, Raise, Reports, deliveryVars
  <1>3. CASE \/ Capture \/ ParseOne \/ ParsesDone \/ NoSnapshot
             \/ \E e \in Evidence : KnownSummary(e) \/ BeginSummary(e)
             \/ EndSummary
             \/ \E f \in FeishuStates : SkipNotify(f)
             \/ AlreadySent \/ AlreadyCleaned \/ CleanupRefused
             \/ Cleanup \/ CleanupFails
    BY <1>3, <1>q DEF Capture, ParseOne, ParsesDone, NoSnapshot, KnownSummary,
                      BeginSummary, EndSummary, SkipNotify, AlreadySent,
                      AlreadyCleaned, CleanupRefused, Cleanup, CleanupFails, Reports,
                      deliveryVars
  \* Parking and sending write other statuses.
  <1>4. ASSUME NEW m, NEW status, status # "sent",
               delivery' = [delivery EXCEPT ![m] = status], accepted' = accepted,
               pc' # "answered"
        PROVE  SentInv'
    BY <1>t, <1>4 DEF SentInv, SentMeansShown
  <1>5. CASE ParkUnknown
    BY <1>4, <1>5 DEF ParkUnknown, Reports
  <1>6. CASE BeginDelivery
    BY <1>4, <1>6 DEF BeginDelivery
  <1>7. ASSUME NEW r \in Results, NEW n \in {0, 1}, Post(r, n)
        PROVE  SentInv'
    <2>1. /\ msg \in Messages /\ Show(msg, n) /\ (r = "sent" => n = 1)
          /\ delivery' = delivery /\ msg' = msg /\ result' = r
      BY <1>7, <1>t DEF Post, MayShow, deliveryVars
    <2>2. /\ \A m \in Messages : accepted'[m] >= accepted[m] /\ accepted[m] \in 0..2
          /\ n = 1 => accepted'[msg] > 0
      BY <1>t, <2>1 DEF Show
    <2>3. SentMeansShown'
      <3>1. \A m \in Messages : accepted'[m] \in 0..2
        BY <1>t, <2>1 DEF Show
      <3>2. QED
        BY <2>1, <2>2, <3>1 DEF SentInv, SentMeansShown
    <2>4. QED
      BY <2>1, <2>2, <2>3 DEF SentInv
  <1>8. CASE RecordDelivery
    <2>1. /\ msg \in Messages /\ result \in Results /\ accepted' = accepted
          /\ delivery' = [delivery EXCEPT ![msg] = delivery_status_for_result(result)]
          /\ (result = "sent" => accepted[msg] > 0) /\ pc' # "answered"
      BY <1>8, <1>t DEF RecordDelivery, Reports, SentInv
    <2>2. delivery_status_for_result(result) = "sent" => result = "sent"
      BY <2>1 DEF delivery_status_for_result, Results
    <2>3. QED
      BY <1>t, <2>1, <2>2 DEF SentInv, SentMeansShown
  <1>9. CASE Reconcile
    <2> DEFINE status == IF accepted[newest] > 0 THEN "sent" ELSE "failed"
    <2>1. /\ delivery' = [delivery EXCEPT ![newest] = status]
          /\ UNCHANGED <<accepted, pc, msg, result>>
      BY <1>9 DEF Reconcile, workerVars
    <2>2. QED
      BY <1>t, <2>1 DEF SentInv, SentMeansShown
  <1>10. QED
    BY <1>1, <1>2, <1>3, <1>5, <1>6, <1>7, <1>8, <1>9
       DEF Next, WorkerStep, ConsoleStep, Handler

\* A delivery recorded as sent was shown by Feishu, whatever the scans, crashes,
\* retries and erasures, and also when a connection breaks after the message was
\* accepted; only a console request that re-sends is excluded (feishu_service.py,
\* delivery_status_for_result; pending_cleanup.py).
THEOREM PendingSentMeansShown ==
    ASSUME Threads = {}
    PROVE  Spec => []SentMeansShown
  <1>1. Init => Shape /\ SentInv
    BY InitIInv DEF IInv, Init, SentInv, SentMeansShown
  <1>2. Shape /\ SentInv /\ [Next]_vars => (Shape /\ SentInv)'
    BY ShapeInductive, SentInductive
  <1>3. Shape /\ SentInv => SentMeansShown
    BY DEF SentInv
  <1>4. QED
    BY <1>1, <1>2, <1>3, PTL DEF Spec
=============================================================================
