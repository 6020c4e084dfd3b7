-------------------------- MODULE DoneDeliveryProofs --------------------------
(***************************************************************************)
(* TypeOK for any files, listings, requests and trouble (DoneTypes), and   *)
(* QuietMeansDelivered (QuietDelivered) as long as OA only adds            *)
(* attachments, captures get what they ask for, and neither texts nor      *)
(* products are lost.                                                      *)
(*                                                                         *)
(* TypeOK is made inductive by what is true of every row (TInv).           *)
(* QuietMeansDelivered follows from what the rows of the item stand for:   *)
(* the row of what OA shows exists (KnownInv), each row is at a stage for  *)
(* which everything is there and is completed only when everything is done *)
(* (RowsInv, WorkerInv), and what is done stays done, because the archive, *)
(* the parses and the documents never hold anything else (FilesInv,        *)
(* ParsesInv, ExportsInv): the facts only grow (StaysReady).               *)
(***************************************************************************)
EXTENDS DoneDelivery, WellFoundedInduction, TLAPS

Bytes == Contents \cup {NoContent}

Key ==
    ({"realtime-done", "ui-archive", "ui-markdown", "manual-classification"} \X Nat)
        \cup {<<"converge-markdown">>, <<"converge-download">>}
        \cup ({"markdown"} \X (Nat \X [Files -> Bytes]))

Task == [key : Key, queue : {"realtime_done", "markdown_delivery"}, row : Row]

SourceOK == shown \in 1..Len(Listings) /\ kind \in [Files -> Kinds]

ArchiveOK ==
    /\ manifest \in
           [status : {"absent", "pending_download", "downloaded", "no_attachment",
                      "download_failed", "depth_limit_reached"},
            hash : 0..Len(Listings), confirmed : BOOLEAN, excluded : BOOLEAN]
    /\ archive \in [Files -> [status : {"absent", "failed", "verified"},
                               content : Bytes, object : Bytes]]
    /\ item \in BOOLEAN
    /\ disk \in [Files -> {"intact", "lost", "changed"}]

ParseOK ==
    /\ job \in [Files -> {"none", "queued", "completed", "failed", "skipped"}]
    /\ made \in [Files -> Bytes]
    /\ artifact \in [Contents -> [life : {"none", "valid", "rejected", "superseded"},
                                   body : Bytes]]
    /\ products \subseteq Contents

ExportOK ==
    /\ export \in [Files -> [status : {"none", "success", "failed"},
                              content : Bytes, body : Bytes]]
    /\ published \subseteq Files
    /\ index \in {"none", "success", "lost"}

QueueOK == tasks \in Seq(Task) /\ requests \in Nat

WorkerOK ==
    /\ pc \in {"idle", "executing", "capturing", "handing", "publishing", "reporting"}
    /\ cur \in 0..Len(tasks) /\ (pc = "idle" <=> cur = 0)
    /\ out \in Outcome
    /\ sig \in Nat \X [Files -> Bytes]

\* A file is verified with its bytes, and what is parsed has a content object:
\* a row that has a parse job is never deleted.
JobsHaveObjects ==
    \A f \in Files :
        /\ archive[f].status = "verified" => archive[f].content # NoContent
        /\ job[f] # "none" => archive[f].object # NoContent

TInv ==
    SourceOK /\ ArchiveOK /\ ParseOK /\ ExportOK /\ QueueOK /\ WorkerOK /\ JobsHaveObjects

-----------------------------------------------------------------------------
(* What the provers need to know about the queue and the answers.          *)

\* The column updates of the queue keep a row well typed.
LEMMA RowUpdatesTyped ==
    ASSUME NEW row \in Row
    PROVE  /\ \A p \in Pids : ClaimRow(row, p) \in Row
           /\ RecoverRow(row) \in Row
           /\ RetryRow(row) \in Row
           /\ CompleteRow(row) \in Row
           /\ \A s \in Stages : AdvanceRow(row, s, FALSE) \in Row
  <1>1. \A n \in 0..MaxAttempts : Bump(n) \in 0..MaxAttempts
    BY MaxAttemptsAssumption DEF Bump, MaxAttemptsAssumption
  <1>2. 0 \in 0..MaxAttempts
    BY MaxAttemptsAssumption DEF MaxAttemptsAssumption
  <1>3. \A p \in Pids : ClaimRow(row, p) \in Row
    BY <1>1 DEF ClaimRow, Row, Statuses
  <1>4. RecoverRow(row) \in Row
    BY DEF RecoverRow, Row, Statuses
  <1>5. RetryRow(row) \in Row /\ CompleteRow(row) \in Row
    BY <1>2 DEF RetryRow, CompleteRow, Row, Statuses, ErrorCodes
  <1>6. \A s \in Stages : AdvanceRow(row, s, FALSE) \in Row
    BY <1>2 DEF AdvanceRow, Waiting, Row, Statuses, ErrorCodes
  <1>7. QED
    BY <1>3, <1>4, <1>5, <1>6

\* What decides who may work on a row, after a claim, a recovery and a retry.
LEMMA RowUpdateFields ==
    ASSUME NEW row \in Row
    PROVE  /\ \A p : /\ ClaimRow(row, p).status = "running"
                     /\ ClaimRow(row, p).stage = row.stage
           /\ RecoverRow(row).status = "queued"
           /\ RecoverRow(row).stage = row.stage
           /\ RetryRow(row).status = "queued"
           /\ RetryRow(row).stage = row.stage
  <1>1. \A p : ClaimRow(row, p).status = "running" /\ ClaimRow(row, p).stage = row.stage
    BY DEF ClaimRow, Row
  <1>2. RecoverRow(row).status = "queued" /\ RecoverRow(row).stage = row.stage
    BY DEF RecoverRow, Row
  <1>3. RetryRow(row).status = "queued" /\ RetryRow(row).stage = row.stage
    BY DEF RetryRow, Row
  <1>4. QED
    BY <1>1, <1>2, <1>3

\* A failed row is well typed too.
LEMMA FailRowTyped ==
    ASSUME NEW row \in Row, NEW n \in 0..MaxAttempts, NEW u \in BOOLEAN,
           NEW c \in BOOLEAN, NEW e \in ErrorCodes, NEW l \in BOOLEAN
    PROVE  FailRow(row, n, u, c, e, l) \in Row
  <1>1. CanRetry(n, u, c) \in BOOLEAN
    BY DEF CanRetry
  <1>2. QED
    BY <1>1 DEF FailRow, Row, Waiting, Statuses, ErrorCodes

\* Committing a result keeps the row well typed.
LEMMA ResultRowTyped ==
    ASSUME NEW row \in Row, NEW o \in Outcome,
           NEW c \in [stage : Stages, attempts : 0..MaxAttempts]
    PROVE  ResultRow(row, c, o, FALSE) \in Row
  <1>1. FailRow(row, c.attempts, o.unbounded, o.recoverable, o.error, FALSE) \in Row
    BY FailRowTyped DEF Outcome
  <1>2. AdvanceRow(row, o.stage, FALSE) \in Row /\ CompleteRow(row) \in Row
    BY RowUpdatesTyped DEF Outcome, Stages
  <1>3. QED
    BY <1>1, <1>2 DEF ResultRow, Outcome

LEMMA AnswersTyped ==
    /\ \A s \in CORE_PIPELINE_STAGES : Advanced(s) \in Outcome
    /\ Completed \in Outcome /\ NoOutcome \in Outcome /\ Refused \in Outcome
    /\ Failed(FALSE, TRUE, "other") \in Outcome
  BY DEF Advanced, Completed, Failed, Refused, NoOutcome, Outcome, ErrorCodes,
         CORE_PIPELINE_STAGES

LEMMA StagesAreCore ==
    DownloadStages \subseteq CORE_PIPELINE_STAGES /\ MarkdownStages \subseteq CORE_PIPELINE_STAGES
  BY DEF DownloadStages, MarkdownStages, CORE_PIPELINE_STAGES

LEMMA RowTyped ==
  ASSUME tasks \in Seq(Task), NEW i \in DOMAIN tasks
  PROVE  /\ i \in 1..Len(tasks) /\ tasks[i] \in Task
         /\ tasks[i].row \in Row /\ tasks[i].key \in Key
         /\ tasks[i].queue \in {"realtime_done", "markdown_delivery"}
  <1>1. i \in 1..Len(tasks) /\ tasks[i] \in Task
    OBVIOUS
  <1> QED
    BY <1>1 DEF Task

\* One row is written.
LEMMA RowWritten ==
  ASSUME tasks \in Seq(Task), NEW j \in DOMAIN tasks, NEW r \in Row,
         tasks' = [tasks EXCEPT ![j].row = r]
  PROVE  /\ tasks' \in Seq(Task) /\ Len(tasks') = Len(tasks)
         /\ DOMAIN tasks' = DOMAIN tasks
         /\ tasks'[j].row = r
         /\ \A i \in DOMAIN tasks : tasks'[i].key = tasks[i].key /\ tasks'[i].queue = tasks[i].queue
         /\ \A i \in DOMAIN tasks \ {j} : tasks'[i] = tasks[i]
  <1>1. tasks[j] \in Task /\ DOMAIN tasks = 1..Len(tasks) /\ Len(tasks) \in Nat
    OBVIOUS
  <1>2. [tasks[j] EXCEPT !.row = r] \in Task
    BY <1>1 DEF Task
  <1>3. /\ [tasks[j] EXCEPT !.row = r].row = r
        /\ [tasks[j] EXCEPT !.row = r].key = tasks[j].key
        /\ [tasks[j] EXCEPT !.row = r].queue = tasks[j].queue
    BY <1>1 DEF Task
  <1>4. tasks' = [tasks EXCEPT ![j] = [tasks[j] EXCEPT !.row = r]]
    BY <1>1
  <1>5. /\ tasks' \in Seq(Task) /\ Len(tasks') = Len(tasks) /\ DOMAIN tasks' = DOMAIN tasks
    BY <1>1, <1>2, <1>4
  <1>6. /\ tasks'[j] = [tasks[j] EXCEPT !.row = r]
        /\ \A i \in DOMAIN tasks \ {j} : tasks'[i] = tasks[i]
    BY <1>1, <1>4
  <1> QED
    BY <1>3, <1>5, <1>6

\* One row is added.
LEMMA RowAdded ==
  ASSUME tasks \in Seq(Task), NEW t \in Task, tasks' = Append(tasks, t)
  PROVE  /\ tasks' \in Seq(Task) /\ Len(tasks') = Len(tasks) + 1
         /\ DOMAIN tasks' = DOMAIN tasks \cup {Len(tasks) + 1}
         /\ tasks'[Len(tasks) + 1] = t
         /\ \A i \in DOMAIN tasks : tasks'[i] = tasks[i]
  OBVIOUS

\* The rows the enqueues write are well typed.
LEMMA NewRows ==
  ASSUME NEW s \in CORE_PIPELINE_STAGES
  PROVE  /\ EnqueueRow(s, FALSE) \in Row
         /\ EnqueueRow(s, FALSE).status = "queued" /\ EnqueueRow(s, FALSE).stage = s
         /\ \A b \in BOOLEAN : [EnqueueRow(s, FALSE) EXCEPT !.recoverable = b] \in Row
         /\ \A b \in BOOLEAN :
               /\ [EnqueueRow(s, FALSE) EXCEPT !.recoverable = b].status = "queued"
               /\ [EnqueueRow(s, FALSE) EXCEPT !.recoverable = b].stage = s
  <1>1. s \in Stages /\ 0 \in 0..MaxAttempts
    BY MaxAttemptsAssumption DEF Stages, MaxAttemptsAssumption
  <1> QED
    BY <1>1 DEF EnqueueRow, AbsentRow, Waiting, Row, Statuses, ErrorCodes

\* What an idempotent enqueue does to the queue.
LEMMA EnqueuedTyped ==
  ASSUME tasks \in Seq(Task), NEW key \in Key, NEW s \in CORE_PIPELINE_STAGES,
         NEW queue \in {"realtime_done", "markdown_delivery"},
         tasks' = Enqueued(queue, key, s)
  PROVE  /\ tasks' \in Seq(Task) /\ Len(tasks) \in Nat
         /\ Len(tasks') \in {Len(tasks), Len(tasks) + 1}
  <1>1. [key |-> key, queue |-> queue, row |-> EnqueueRow(s, FALSE)] \in Task
    BY NewRows DEF Task
  <1> QED
    BY <1>1, RowAdded DEF Enqueued

-----------------------------------------------------------------------------
LEMMA InitTInv == Init => TInv
  <1> SUFFICES ASSUME Init PROVE TInv
    OBVIOUS
  <1>1. SourceOK
    BY ListingsAssumption DEF Init, SourceOK, ListingsAssumption
  <1>2. ArchiveOK
    <2>1. 0 \in 0..Len(Listings)
      BY ListingsAssumption DEF ListingsAssumption
    <2>2. NoFile \in [status : {"absent", "failed", "verified"}, content : Bytes, object : Bytes]
      BY DEF NoFile, Bytes
    <2>3. /\ archive \in [Files -> [status : {"absent", "failed", "verified"},
                                    content : Bytes, object : Bytes]]
          /\ item \in BOOLEAN /\ disk \in [Files -> {"intact", "lost", "changed"}]
      BY <2>2 DEF Init
    <2> QED
      BY <2>1, <2>3 DEF Init, ArchiveOK
  <1>3. ParseOK
    BY DEF Init, ParseOK, NoArtifact, Bytes
  <1>4. ExportOK
    BY DEF Init, ExportOK, NoExport, Bytes
  <1>5. QueueOK
    BY DEF Init, QueueOK
  <1>6. WorkerOK
    BY AnswersTyped DEF Init, WorkerOK, NoSignature, Bytes
  <1>7. JobsHaveObjects
    BY DEF Init, JobsHaveObjects, NoFile
  <1> QED
    BY <1>1, <1>2, <1>3, <1>4, <1>5, <1>6, <1>7 DEF TInv

\* What is left alone stays well typed.
LEMMA LeftAlone ==
  ASSUME TInv
  PROVE  /\ UNCHANGED sourceVars => SourceOK'
         /\ UNCHANGED archiveVars => ArchiveOK'
         /\ UNCHANGED parseVars => ParseOK'
         /\ UNCHANGED exportVars => ExportOK'
         /\ UNCHANGED <<tasks, requests>> => QueueOK'
         /\ UNCHANGED <<archive, job>> => JobsHaveObjects'
         /\ UNCHANGED workerVars /\ Len(tasks) \in Nat /\ Len(tasks') \in Nat
               /\ Len(tasks) <= Len(tasks') => WorkerOK'
  <1>1. UNCHANGED sourceVars => SourceOK'
    BY DEF TInv, SourceOK, sourceVars
  <1>2. UNCHANGED archiveVars => ArchiveOK'
    BY DEF TInv, ArchiveOK, archiveVars
  <1>3. UNCHANGED parseVars => ParseOK'
    BY DEF TInv, ParseOK, parseVars
  <1>4. UNCHANGED exportVars => ExportOK'
    BY DEF TInv, ExportOK, exportVars
  <1>5. UNCHANGED <<tasks, requests>> => QueueOK'
    BY DEF TInv, QueueOK
  <1>6. UNCHANGED <<archive, job>> => JobsHaveObjects'
    BY DEF TInv, JobsHaveObjects
  <1>7. ASSUME UNCHANGED workerVars, Len(tasks) \in Nat, Len(tasks') \in Nat,
               Len(tasks) <= Len(tasks')
        PROVE  WorkerOK'
    BY <1>7 DEF TInv, WorkerOK, workerVars
  <1> QED
    BY <1>1, <1>2, <1>3, <1>4, <1>5, <1>6, <1>7

\* A handler answers, or goes on to its next part.
LEMMA WorkerTyped ==
  ASSUME TInv, tasks' = tasks, pc # "idle"
  PROVE  /\ \A o \in Outcome : Answer(o) => WorkerOK'
         /\ pc' \in {"capturing", "publishing"} /\ UNCHANGED <<cur, out, sig>> => WorkerOK'
  <1>1. \A o \in Outcome : Answer(o) => WorkerOK'
    <2> SUFFICES ASSUME NEW o \in Outcome, Answer(o) PROVE WorkerOK'
      OBVIOUS
    <2>1. NoSignature \in Nat \X [Files -> Bytes]
      BY DEF NoSignature, Bytes
    <2> QED
      BY <2>1 DEF Answer, TInv, WorkerOK
  <1>2. pc' \in {"capturing", "publishing"} /\ UNCHANGED <<cur, out, sig>> => WorkerOK'
    BY DEF TInv, WorkerOK
  <1> QED
    BY <1>1, <1>2

\* Writing a row that is not there changes nothing.
LEMMA NoSuchRow ==
  ASSUME tasks \in Seq(Task), NEW j, j \notin DOMAIN tasks, NEW t
  PROVE  [tasks EXCEPT ![j] = t] = tasks
  OBVIOUS

-----------------------------------------------------------------------------
(* TInv is inductive.                                                      *)

LEMMA SourceSteps ==
  ASSUME TInv, OaChanges \/ Exclude PROVE TInv'
  <1>1. CASE OaChanges
    <2>1. SourceOK'
      BY <1>1, ListingsAssumption DEF OaChanges, TInv, SourceOK, ListingsAssumption
    <2> QED
      BY <1>1, <2>1, LeftAlone DEF OaChanges, TInv, archiveVars, parseVars, boundVars, workerVars, QueueOK, WorkerOK
  <1>2. CASE Exclude
    <2>1. ArchiveOK'
      BY <1>2 DEF Exclude, TInv, ArchiveOK
    <2> QED
      BY <1>2, <2>1, LeftAlone DEF Exclude, TInv, parseVars, boundVars, workerVars, QueueOK, WorkerOK
  <1> QED
    BY <1>1, <1>2

LEMMA ScanStep ==
  ASSUME TInv, NEW mode \in {"hourly", "nightly"}, Scan(mode) PROVE TInv'
  <1>1. shown \in 0..Len(Listings) /\ shown \in Nat
    BY ListingsAssumption DEF TInv, SourceOK, ListingsAssumption
  <1>2. manifest' \in
           [status : {"absent", "pending_download", "downloaded", "no_attachment",
                      "download_failed", "depth_limit_reached"},
            hash : 0..Len(Listings), confirmed : BOOLEAN, excluded : BOOLEAN]
    <2>1. manifest \in
           [status : {"absent", "pending_download", "downloaded", "no_attachment",
                      "download_failed", "depth_limit_reached"},
            hash : 0..Len(Listings), confirmed : BOOLEAN, excluded : BOOLEAN]
      BY DEF TInv, ArchiveOK
    <2> DEFINE m == IF manifest.excluded \/ (mode = "hourly" /\ manifest.status # "absent" /\ manifest.hash = shown)
                    THEN manifest ELSE Reviewed(manifest)
    <2>2. m \in
           [status : {"absent", "pending_download", "downloaded", "no_attachment",
                      "download_failed", "depth_limit_reached"},
            hash : 0..Len(Listings), confirmed : BOOLEAN, excluded : BOOLEAN]
      BY <2>1 DEF Reviewed
    <2>3. manifest' = [m EXCEPT !.hash = shown]
      BY DEF Scan
    <2> HIDE DEF m
    <2> QED
      BY <1>1, <2>2, <2>3
  <1>3. tasks' \in Seq(Task) /\ Len(tasks) \in Nat /\ Len(tasks') \in {Len(tasks), Len(tasks) + 1}
    <2>1. CASE tasks' = tasks
      BY <2>1 DEF TInv, QueueOK
    <2>2. CASE tasks' = Enqueued("realtime_done", <<"realtime-done", shown>>, "done_capture_and_archive")
      <3>1. <<"realtime-done", shown>> \in Key
        BY <1>1 DEF Key
      <3> QED
        BY <2>2, <3>1, EnqueuedTyped DEF TInv, QueueOK, CORE_PIPELINE_STAGES
    <2> QED
      BY <2>1, <2>2 DEF Scan
  <1>4. ArchiveOK'
    BY <1>2 DEF Scan, TInv, ArchiveOK
  <1>5. QueueOK' /\ WorkerOK'
    BY <1>3, LeftAlone DEF Scan, TInv, QueueOK, boundVars
  <1> QED
    BY <1>4, <1>5, LeftAlone DEF Scan, TInv, parseVars

LEMMA ClaimStep ==
  ASSUME TInv, NEW i \in DOMAIN tasks, Claim(i) PROVE TInv'
  <1>1. tasks[i].row \in Row /\ i \in 1..Len(tasks)
    BY RowTyped DEF TInv, QueueOK
  <1>2. ClaimRow(tasks[i].row, Worker) \in Row
    BY <1>1, RowUpdatesTyped, ChoiceAssumption DEF ChoiceAssumption
  <1>3. tasks' \in Seq(Task) /\ Len(tasks') = Len(tasks)
    BY <1>2, RowWritten DEF Claim, TInv, QueueOK
  <1>4. QueueOK' /\ WorkerOK'
    BY <1>1, <1>3 DEF Claim, TInv, QueueOK, WorkerOK, boundVars
  <1> QED
    BY <1>4, LeftAlone DEF Claim, TInv, archiveVars, parseVars

\* The row of the worker is written when the worker becomes idle.
LEMMA RowGivenUp ==
  ASSUME TInv, pc # "idle", NEW r \in Row, tasks' = [tasks EXCEPT ![cur].row = r], Idle,
         requests' = requests
  PROVE  QueueOK' /\ WorkerOK'
  <1>1. cur \in DOMAIN tasks
    BY DEF TInv, WorkerOK, QueueOK
  <1>2. tasks' \in Seq(Task) /\ Len(tasks') = Len(tasks)
    BY <1>1, RowWritten DEF TInv, QueueOK
  <1>3. NoSignature \in Nat \X [Files -> Bytes]
    BY DEF NoSignature, Bytes
  <1> QED
    BY <1>2, <1>3, AnswersTyped DEF Idle, TInv, QueueOK, WorkerOK

LEMMA RowOfWorker ==
  ASSUME TInv, pc # "idle"
  PROVE  cur \in DOMAIN tasks /\ tasks[cur] \in Task /\ tasks[cur].row \in Row
  <1>1. cur \in DOMAIN tasks
    BY DEF TInv, WorkerOK, QueueOK
  <1> QED
    BY <1>1, RowTyped DEF TInv, QueueOK

LEMMA ReportStep ==
  ASSUME TInv, Report PROVE TInv'
  <1>1. pc # "idle"
    BY DEF Report
  <1> DEFINE r == ResultRow(tasks[cur].row, tasks[cur].row, out, FALSE)
  <1>2. r \in Row
    <2>1. tasks[cur].row \in [stage : Stages, attempts : 0..MaxAttempts] \/
          ResultRow(tasks[cur].row, tasks[cur].row, out, FALSE)
             = ResultRow(tasks[cur].row, [stage |-> tasks[cur].row.stage, attempts |-> tasks[cur].row.attempts], out, FALSE)
      BY DEF ResultRow
    <2>2. [stage |-> tasks[cur].row.stage, attempts |-> tasks[cur].row.attempts] \in [stage : Stages, attempts : 0..MaxAttempts]
      BY <1>1, RowOfWorker DEF Row
    <2> QED
      BY <1>1, <2>1, <2>2, RowOfWorker, ResultRowTyped DEF TInv, WorkerOK
  <1>3. QueueOK' /\ WorkerOK'
    BY <1>1, <1>2, RowGivenUp DEF Report, boundVars
  <1> QED
    BY <1>3, LeftAlone DEF Report, TInv, archiveVars, parseVars

LEMMA CrashStep ==
  ASSUME TInv, Crash PROVE TInv'
  <1>1. RecoverRow(tasks[cur].row) \in Row
    BY RowOfWorker, RowUpdatesTyped DEF Crash
  <1>2. QueueOK' /\ WorkerOK'
    BY <1>1, RowGivenUp DEF Crash, Trouble
  <1> QED
    BY <1>2, LeftAlone DEF Crash, TInv, archiveVars, parseVars

\* The handlers that only answer, and the losses of files.
LEMMA QuietSteps ==
  ASSUME TInv, \/ BeginCapture \/ ParsesDone \/ SourcePublish \/ Fault
               \/ \E f \in Files : LoseOriginal(f) \/ LosePublished(f)
               \/ \E c \in Contents : LoseProduct(c)
               \/ LoseIndex \/ Converge
  PROVE  TInv'
  <1>1. CASE BeginCapture
    <2>1. pc # "idle" /\ tasks' = tasks
      BY <1>1 DEF BeginCapture, At
    <2>2. WorkerOK'
      BY <1>1, <2>1, WorkerTyped, AnswersTyped DEF BeginCapture
    <2> QED
      BY <1>1, <2>2, LeftAlone DEF BeginCapture, TInv, archiveVars, parseVars, boundVars
  <1>2. CASE ParsesDone
    <2>1. pc # "idle" /\ tasks' = tasks
      BY <1>2 DEF ParsesDone, At
    <2>2. WorkerOK'
      BY <1>2, <2>1, WorkerTyped, AnswersTyped DEF ParsesDone, CORE_PIPELINE_STAGES
    <2> QED
      BY <1>2, <2>2, LeftAlone DEF ParsesDone, TInv, archiveVars, parseVars, boundVars
  <1>3. CASE SourcePublish
    <2>1. pc # "idle" /\ tasks' = tasks
      BY <1>3 DEF SourcePublish, At
    <2>2. \E o \in Outcome : Answer(o)
      BY <1>3, AnswersTyped DEF SourcePublish, CORE_PIPELINE_STAGES
    <2>3. WorkerOK'
      BY <2>1, <2>2, WorkerTyped
    <2> QED
      BY <1>3, <2>3, LeftAlone DEF SourcePublish, TInv, archiveVars, parseVars, boundVars
  <1>4. CASE Fault
    <2>1. pc # "idle" /\ tasks' = tasks
      BY <1>4 DEF Fault
    <2>2. WorkerOK'
      BY <1>4, <2>1, WorkerTyped, AnswersTyped DEF Fault
    <2> QED
      BY <1>4, <2>2, LeftAlone DEF Fault, TInv, archiveVars, parseVars, Trouble
  <1>5. ASSUME NEW f \in Files, LoseOriginal(f) PROVE TInv'
    <2>1. ArchiveOK'
      BY <1>5 DEF LoseOriginal, TInv, ArchiveOK
    <2>2. Len(tasks) \in Nat
      BY DEF TInv, QueueOK
    <2> QED
      BY <1>5, <2>1, <2>2, LeftAlone DEF LoseOriginal, TInv, parseVars, Trouble
  <1>6. ASSUME NEW f \in Files, LosePublished(f) PROVE TInv'
    <2>1. ExportOK'
      BY <1>6 DEF LosePublished, TInv, ExportOK
    <2>2. Len(tasks) \in Nat
      BY DEF TInv, QueueOK
    <2> QED
      BY <1>6, <2>1, <2>2, LeftAlone DEF LosePublished, TInv, archiveVars, parseVars, Trouble
  <1>7. ASSUME NEW c \in Contents, LoseProduct(c) PROVE TInv'
    <2>1. ParseOK'
      BY <1>7 DEF LoseProduct, TInv, ParseOK
    <2>2. Len(tasks) \in Nat
      BY DEF TInv, QueueOK
    <2> QED
      BY <1>7, <2>1, <2>2, LeftAlone DEF LoseProduct, TInv, archiveVars, Trouble
  <1>8. CASE LoseIndex
    <2>1. ExportOK'
      BY <1>8 DEF LoseIndex, TInv, ExportOK
    <2>2. Len(tasks) \in Nat
      BY DEF TInv, QueueOK
    <2> QED
      BY <1>8, <2>1, <2>2, LeftAlone DEF LoseIndex, TInv, archiveVars, parseVars, Trouble
  <1>9. CASE Converge
    <2>1. Len(tasks) \in Nat
      BY DEF TInv, QueueOK
    <2> QED
      BY <1>9, <2>1, LeftAlone DEF Converge, TInv, archiveVars, parseVars, boundVars
  <1> QED
    BY <1>1, <1>2, <1>3, <1>4, <1>5, <1>6, <1>7, <1>8, <1>9

LEMMA EndCaptureStep ==
  ASSUME TInv, NEW failed \in SUBSET Files, NEW deep \in BOOLEAN, EndCapture(failed, deep)
  PROVE  TInv'
  <1>1. pc # "idle" /\ tasks' = tasks /\ requests' = requests /\ UNCHANGED <<sourceVars, parseVars, exportVars>>
    BY DEF EndCapture, Trouble, boundVars
  <1>2. WorkerOK'
    <2>1. \E o \in Outcome : Answer(o)
      BY AnswersTyped DEF EndCapture, CORE_PIPELINE_STAGES
    <2> QED
      BY <1>1, <2>1, WorkerTyped
  <1>3. Listings[shown] \in [Files -> Bytes]
    BY ListingsAssumption DEF TInv, SourceOK, ListingsAssumption, Bytes
  <1>4. disk' \in [Files -> {"intact", "lost", "changed"}]
    BY DEF EndCapture, TInv, ArchiveOK
  <1>5. CASE Undeletable # {}
    <2>1. UNCHANGED <<archive, item, manifest>>
      BY <1>5 DEF EndCapture
    <2>2. ArchiveOK' /\ JobsHaveObjects'
      BY <1>1, <1>4, <2>1 DEF TInv, ArchiveOK, JobsHaveObjects, parseVars
    <2> QED
      BY <1>1, <1>2, <2>2, LeftAlone DEF TInv
  <1>6. CASE Undeletable = {}
    <2>1. archive' = [f \in Files |-> Archived(f, failed)] /\ item' = TRUE
      BY <1>6 DEF EndCapture
    <2>2. manifest' \in
           [status : {"absent", "pending_download", "downloaded", "no_attachment",
                      "download_failed", "depth_limit_reached"},
            hash : 0..Len(Listings), confirmed : BOOLEAN, excluded : BOOLEAN]
      BY <1>6 DEF EndCapture, TInv, ArchiveOK
    <2>3. ASSUME NEW f \in Files
          PROVE  /\ Archived(f, failed) \in [status : {"absent", "failed", "verified"},
                                             content : Bytes, object : Bytes]
                 /\ Archived(f, failed).status = "verified" => Archived(f, failed).content # NoContent
                 /\ job[f] # "none" => Archived(f, failed).object # NoContent
      <3>1. archive[f] \in [status : {"absent", "failed", "verified"}, content : Bytes, object : Bytes]
        BY DEF TInv, ArchiveOK
      <3>2. NoFile \in [status : {"absent", "failed", "verified"}, content : Bytes, object : Bytes]
             /\ NoFile.status = "absent"
        BY DEF NoFile, Bytes
      <3>3. Listings[shown][f] \in Bytes
        BY <1>3
      <3>4. CASE Listings[shown][f] = NoContent /\ archive[f].status = "failed"
        <4>1. job[f] = "none"
          BY <1>6, <3>4 DEF Undeletable
        <4> QED
          BY <3>2, <3>4, <4>1 DEF Archived
      <3>5. CASE Listings[shown][f] = NoContent /\ archive[f].status # "failed"
        BY <3>1, <3>5 DEF Archived, TInv, JobsHaveObjects
      <3>6. CASE Listings[shown][f] # NoContent
        BY <3>1, <3>3, <3>6 DEF Archived, TInv, JobsHaveObjects
      <3> QED
        BY <3>4, <3>5, <3>6
    <2>4. ArchiveOK'
      BY <1>4, <2>1, <2>2, <2>3 DEF ArchiveOK
    <2>5. JobsHaveObjects'
      BY <1>1, <2>1, <2>3 DEF JobsHaveObjects, parseVars
    <2> QED
      BY <1>1, <1>2, <2>4, <2>5, LeftAlone DEF TInv
  <1> QED
    BY <1>5, <1>6

LEMMA VerifyStep ==
  ASSUME TInv, VerifyArchive PROVE TInv'
  <1>1. pc # "idle" /\ tasks' = tasks
    BY DEF VerifyArchive, At
  <1>2. ArchiveOK'
    BY DEF VerifyArchive, TInv, ArchiveOK
  <1>3. WorkerOK'
    <2>1. CASE ArchiveVerified
      <3>1. manifest.hash \in Nat /\ \A f \in Files : archive[f].content \in Bytes
        BY ListingsAssumption DEF TInv, ArchiveOK, ListingsAssumption
      <3>2. Signature \in Nat \X [Files -> Bytes]
        BY <3>1 DEF Signature
      <3> QED
        BY <1>1, <2>1, <3>2 DEF VerifyArchive, TInv, WorkerOK
    <2>2. CASE ~ArchiveVerified
      <3>1. Answer(Refused)
        BY <2>2 DEF VerifyArchive
      <3> QED
        BY <1>1, <3>1, WorkerTyped, AnswersTyped
    <2> QED
      BY <2>1, <2>2
  <1> QED
    BY <1>2, <1>3, LeftAlone DEF VerifyArchive, TInv, parseVars, boundVars

LEMMA HandOverStep ==
  ASSUME TInv, HandOver PROVE TInv'
  <1>1. <<"markdown", sig>> \in Key
    BY DEF TInv, WorkerOK, Key
  <1>2. tasks' \in Seq(Task) /\ Len(tasks) \in Nat /\ Len(tasks') \in {Len(tasks), Len(tasks) + 1}
    BY <1>1, EnqueuedTyped DEF HandOver, TInv, QueueOK, CORE_PIPELINE_STAGES
  <1>3. NoSignature \in Nat \X [Files -> Bytes]
    BY DEF NoSignature, Bytes
  <1>4. WorkerOK'
    BY <1>2, <1>3, AnswersTyped DEF HandOver, Answer, TInv, WorkerOK
  <1> QED
    BY <1>2, <1>4, LeftAlone DEF HandOver, TInv, QueueOK, archiveVars, parseVars, boundVars

LEMMA InventoryStep ==
  ASSUME TInv, Inventory PROVE TInv'
  <1>1. pc # "idle" /\ tasks' = tasks
    BY DEF Inventory, At
  <1>2. WorkerOK'
    <2>1. \E o \in Outcome : Answer(o)
      BY AnswersTyped DEF Inventory, CORE_PIPELINE_STAGES
    <2> QED
      BY <1>1, <2>1, WorkerTyped
  <1>3. CASE UNCHANGED <<archive, job, artifact>>
    BY <1>2, <1>3, LeftAlone DEF Inventory, TInv, archiveVars, parseVars, boundVars
  <1>4. CASE ~UNCHANGED <<archive, job, artifact>>
    <2> DEFINE fresh == {f \in Files : FirstJob(f) \/ ProductGone(f)}
    <2>1. /\ job' = [f \in Files |-> IF f \in fresh THEN "queued" ELSE job[f]]
          /\ archive' = [f \in Files |-> IF f \in fresh THEN [archive[f] EXCEPT !.object = archive[f].content]
                                         ELSE archive[f]]
          /\ artifact' = [c \in Contents |-> IF \E f \in fresh : ProductGone(f) /\ made[f] = c
                                             THEN [artifact[c] EXCEPT !.life = "superseded"] ELSE artifact[c]]
          /\ UNCHANGED <<sourceVars, manifest, item, disk, made, products, exportVars, tasks, boundVars>>
      BY <1>4 DEF Inventory
    <2>2. \A f \in fresh : archive[f].status = "verified"
      BY DEF FirstJob, ProductGone, Requested, Verified
    <2> HIDE DEF fresh
    <2>3. ArchiveOK'
      BY <2>1 DEF TInv, ArchiveOK
    <2>4. ParseOK'
      <3>1. job' \in [Files -> {"none", "queued", "completed", "failed", "skipped"}]
        BY <2>1 DEF TInv, ParseOK
      <3>2. artifact' \in [Contents -> [life : {"none", "valid", "rejected", "superseded"}, body : Bytes]]
        BY <2>1 DEF TInv, ParseOK
      <3> QED
        BY <2>1, <3>1, <3>2 DEF TInv, ParseOK
    <2>5. JobsHaveObjects'
      <3>1. SUFFICES ASSUME NEW f \in Files
                     PROVE  /\ archive'[f].status = "verified" => archive'[f].content # NoContent
                            /\ job'[f] # "none" => archive'[f].object # NoContent
        BY DEF JobsHaveObjects
      <3>2. archive[f] \in [status : {"absent", "failed", "verified"}, content : Bytes, object : Bytes]
        BY DEF TInv, ArchiveOK
      <3>3. CASE f \in fresh
        BY <2>1, <2>2, <3>2, <3>3 DEF TInv, JobsHaveObjects
      <3>4. CASE f \notin fresh
        BY <2>1, <3>4 DEF TInv, JobsHaveObjects
      <3> QED
        BY <3>3, <3>4
    <2> QED
      BY <1>2, <2>1, <2>3, <2>4, <2>5, LeftAlone DEF TInv, boundVars
  <1> QED
    BY <1>3, <1>4

LEMMA ParseStep ==
  ASSUME TInv, NEW f \in Files, ParseOne(f) PROVE TInv'
  <1>1. pc # "idle" /\ tasks' = tasks
    BY DEF ParseOne, At
  <1>2. WorkerOK'
    <2>1. \E o \in Outcome : Answer(o)
      BY AnswersTyped DEF ParseOne, CORE_PIPELINE_STAGES
    <2> QED
      BY <1>1, <2>1, WorkerTyped
  <1>3. archive[f].object \in Contents /\ archive[f].content \in Bytes
    BY DEF ParseOne, TInv, JobsHaveObjects, ArchiveOK, Bytes
  <1>4. ParseResult(f).job \in {"queued", "completed", "failed", "skipped"}
    BY DEF ParseResult
  <1>5. job' = [job EXCEPT ![f] = ParseResult(f).job]
    BY DEF ParseOne
  <1>6. job' \in [Files -> {"none", "queued", "completed", "failed", "skipped"}]
    BY <1>4, <1>5 DEF TInv, ParseOK
  <1>7. ParseOK'
    <2>1. CASE ParseResult(f).job = "completed"
      <3>1. [life |-> IF kind[f] = "garbled" THEN "rejected" ELSE "valid", body |-> archive[f].content]
              \in [life : {"none", "valid", "rejected", "superseded"}, body : Bytes]
        BY <1>3
      <3>2. made' \in [Files -> Bytes] /\ products' \subseteq Contents
        BY <1>3, <2>1 DEF ParseOne, TInv, ParseOK, Bytes
      <3>3. artifact' \in [Contents -> [life : {"none", "valid", "rejected", "superseded"}, body : Bytes]]
        BY <1>3, <2>1, <3>1 DEF ParseOne, TInv, ParseOK
      <3> QED
        BY <1>6, <3>2, <3>3 DEF ParseOK
    <2>2. CASE ParseResult(f).job # "completed"
      BY <1>6, <2>2 DEF ParseOne, TInv, ParseOK
    <2> QED
      BY <2>1, <2>2
  <1>8. JobsHaveObjects'
    <2>1. \A g \in Files : job'[g] # "none" => job[g] # "none"
      BY <1>5 DEF ParseOne, TInv, ParseOK
    <2> QED
      BY <2>1 DEF ParseOne, archiveVars, TInv, JobsHaveObjects
  <1> QED
    BY <1>2, <1>7, <1>8, LeftAlone DEF ParseOne, TInv, boundVars

LEMMA ClassifyStep ==
  ASSUME TInv, NEW verdict \in Verdicts, Classify(verdict) PROVE TInv'
  <1>1. pc # "idle" /\ tasks' = tasks
    BY DEF Classify, At
  <1>2. WorkerOK'
    BY <1>1, WorkerTyped, AnswersTyped DEF Classify
  <1> QED
    BY <1>2, LeftAlone DEF Classify, TInv, archiveVars, parseVars, boundVars

LEMMA PublishStep ==
  ASSUME TInv, Publish PROVE TInv'
  <1>1. pc # "idle" /\ tasks' = tasks /\ index' = index
    BY DEF Publish
  <1>2. WorkerOK'
    <2>1. \E o \in Outcome : Answer(o)
      BY AnswersTyped DEF Publish, CORE_PIPELINE_STAGES
    <2> QED
      BY <1>1, <2>1, WorkerTyped
  <1>3. ASSUME NEW f \in Files, HasArtifact(f)
        PROVE  artifact[archive[f].object].body \in Bytes
    BY <1>3 DEF HasArtifact, TInv, ArchiveOK, ParseOK, Bytes
  <1>4. ExportOK'
    <2>1. CASE UNCHANGED <<export, published>>
      BY <1>1, <2>1 DEF TInv, ExportOK
    <2>2. CASE ~UNCHANGED <<export, published>>
      <3> DEFINE written == {f \in {g \in Verified : HasArtifact(g)} : ~UpToDate(f)}
      <3>1. /\ export' = [f \in Files |->
                   IF f \in written
                   THEN [status |-> IF kind[f] = "lossy" THEN "failed" ELSE "success",
                         content |-> archive[f].content,
                         body |-> artifact[archive[f].object].body]
                   ELSE export[f]]
            /\ published' = published \cup written
        BY <2>2 DEF Publish
      <3>2. \A f \in written : f \in Files /\ HasArtifact(f)
        BY DEF Verified
      <3> HIDE DEF written
      <3>3. \A f \in Files : archive[f].content \in Bytes
        BY DEF TInv, ArchiveOK
      <3>4. \A f \in written : artifact[archive[f].object].body \in Bytes
        BY <1>3, <3>2
      <3>5. ASSUME NEW f \in Files
            PROVE  export'[f] \in [status : {"none", "success", "failed"}, content : Bytes, body : Bytes]
        BY <3>1, <3>3, <3>4 DEF TInv, ExportOK
      <3>6. export' \in [Files -> [status : {"none", "success", "failed"}, content : Bytes, body : Bytes]]
        BY <3>1, <3>5
      <3> QED
        BY <1>1, <3>1, <3>2, <3>6 DEF TInv, ExportOK
    <2> QED
      BY <2>1, <2>2
  <1> QED
    BY <1>2, <1>4, LeftAlone DEF Publish, TInv, archiveVars, parseVars, boundVars

LEMMA IndexStep ==
  ASSUME TInv, IndexPublish PROVE TInv'
  <1>1. pc # "idle" /\ tasks' = tasks
    BY DEF IndexPublish, At
  <1>2. WorkerOK'
    <2>1. \E o \in Outcome : Answer(o)
      BY AnswersTyped DEF IndexPublish
    <2> QED
      BY <1>1, <2>1, WorkerTyped
  <1>3. ExportOK'
    BY DEF IndexPublish, TInv, ExportOK
  <1> QED
    BY <1>2, <1>3, LeftAlone DEF IndexPublish, TInv, archiveVars, parseVars, boundVars

\* A row that is failed or finished is written again, or one is added.
LEMMA RowRestarted ==
  ASSUME TInv, NEW j, NEW r, j \in DOMAIN tasks => r \in Row,
         tasks' = [tasks EXCEPT ![j].row = r]
  PROVE  tasks' \in Seq(Task) /\ Len(tasks) \in Nat /\ Len(tasks') = Len(tasks)
  <1>1. tasks \in Seq(Task) /\ Len(tasks) \in Nat
    BY DEF TInv, QueueOK
  <1>2. CASE j \in DOMAIN tasks
    <2>1. r \in Row
      BY <1>2
    <2>2. tasks' \in Seq(Task) /\ Len(tasks') = Len(tasks)
      BY <1>1, <1>2, <2>1, RowWritten
    <2> QED
      BY <1>1, <2>2
  <1>3. CASE j \notin DOMAIN tasks
    <2>1. tasks' = tasks
      BY <1>1, <1>3, NoSuchRow
    <2> QED
      BY <1>1, <2>1
  <1> QED
    BY <1>2, <1>3

LEMMA JobsResetTyped ==
  ASSUME TInv, job' \in {job, JobsReset}, UNCHANGED <<archive, made, artifact, products>>
  PROVE  ParseOK' /\ JobsHaveObjects'
  <1>1. ParseOK'
    BY DEF TInv, ParseOK, JobsReset
  <1>2. \A f \in Files : job'[f] # "none" => job[f] # "none"
    BY DEF JobsReset, TInv, ParseOK
  <1> QED
    BY <1>1, <1>2 DEF TInv, JobsHaveObjects

LEMMA ApplyStep ==
  ASSUME TInv, Apply PROVE TInv'
  <1>1. tasks' \in Seq(Task) /\ Len(tasks) \in Nat /\ Len(tasks') \in {Len(tasks), Len(tasks) + 1}
    <2>1. CASE tasks' = tasks
      BY <2>1 DEF TInv, QueueOK
    <2>2. CASE \/ tasks' = Enqueued("markdown_delivery", PhaseKey("markdown"), "attachment_inventory")
               \/ tasks' = Enqueued("realtime_done", PhaseKey("download"), "done_capture_and_archive")
      <3>1. PhaseKey("markdown") \in Key /\ PhaseKey("download") \in Key
        BY DEF PhaseKey, Key
      <3> QED
        BY <2>2, <3>1, EnqueuedTyped DEF TInv, QueueOK, CORE_PIPELINE_STAGES
    <2>3. CASE tasks' = [tasks EXCEPT ![plan.row].row = RetryRow(tasks[plan.row].row)]
      <3>1. plan.row \in DOMAIN tasks => RetryRow(tasks[plan.row].row) \in Row
        BY RowTyped, RowUpdatesTyped DEF TInv, QueueOK
      <3> QED
        BY <2>3, <3>1, RowRestarted
    <2> QED
      BY <2>1, <2>2, <2>3 DEF Apply
  <1>2. job' \in {job, JobsReset}
    BY DEF Apply
  <1>3. ParseOK' /\ JobsHaveObjects'
    BY <1>2, JobsResetTyped DEF Apply, archiveVars
  <1>4. QueueOK' /\ WorkerOK'
    BY <1>1, LeftAlone DEF Apply, TInv, QueueOK, boundVars
  <1> QED
    BY <1>3, <1>4, LeftAlone DEF Apply, TInv

LEMMA RetryMarkdownStep ==
  ASSUME TInv, RetryMarkdown PROVE TInv'
  <1> DEFINE i == Newest(MarkdownStages)
             restart == [EnqueueRow("attachment_inventory", FALSE) EXCEPT
                            !.recoverable = IF i # 0 /\ tasks[i].row.status = "failed"
                                            THEN tasks[i].row.recoverable ELSE TRUE]
  <1>1. i \in DOMAIN tasks => restart \in Row
    <2>1. i \in DOMAIN tasks => tasks[i].row.recoverable \in BOOLEAN
      BY RowTyped DEF TInv, QueueOK, Row
    <2> HIDE DEF i
    <2> QED
      BY <2>1, NewRows DEF CORE_PIPELINE_STAGES
  <1>2. ~(i # 0 /\ tasks[i].row.status = "failed") => restart \in Row
    <2> HIDE DEF i
    <2> QED
      BY NewRows DEF CORE_PIPELINE_STAGES
  <1>3. tasks' = IF i # 0 /\ tasks[i].row.status = "failed"
                 THEN [tasks EXCEPT ![i].row = restart]
                 ELSE Append(tasks, [key |-> <<"ui-markdown", requests>>,
                                     queue |-> "markdown_delivery", row |-> restart])
    BY DEF RetryMarkdown
  <1>4. <<"ui-markdown", requests>> \in Key
    BY DEF Key, TInv, QueueOK
  <1> HIDE DEF i, restart
  <1>5. tasks' \in Seq(Task) /\ Len(tasks) \in Nat /\ Len(tasks') \in {Len(tasks), Len(tasks) + 1}
    <2>1. CASE i # 0 /\ tasks[i].row.status = "failed"
      BY <1>1, <1>3, <2>1, RowRestarted
    <2>2. CASE ~(i # 0 /\ tasks[i].row.status = "failed")
      <3>1. [key |-> <<"ui-markdown", requests>>, queue |-> "markdown_delivery", row |-> restart] \in Task
        BY <1>2, <1>4, <2>2 DEF Task
      <3> QED
        BY <1>3, <2>2, <3>1, RowAdded DEF TInv, QueueOK
    <2> QED
      BY <2>1, <2>2
  <1>6. ParseOK' /\ JobsHaveObjects'
    BY JobsResetTyped DEF RetryMarkdown, archiveVars
  <1>7. QueueOK' /\ WorkerOK'
    BY <1>5, LeftAlone DEF RetryMarkdown, Request, TInv, QueueOK
  <1> QED
    BY <1>6, <1>7, LeftAlone DEF RetryMarkdown, TInv

LEMMA RetryArchiveStep ==
  ASSUME TInv, RetryArchive PROVE TInv'
  <1>1. [key |-> <<"ui-archive", requests>>, queue |-> "realtime_done",
         row |-> EnqueueRow("done_capture_and_archive", FALSE)] \in Task
    <2>1. <<"ui-archive", requests>> \in Key
      BY DEF Key, TInv, QueueOK
    <2>2. EnqueueRow("done_capture_and_archive", FALSE) \in Row
      BY NewRows DEF CORE_PIPELINE_STAGES
    <2> QED
      BY <2>1, <2>2 DEF Task
  <1>2. tasks' \in Seq(Task) /\ Len(tasks) \in Nat /\ Len(tasks') = Len(tasks) + 1
    BY <1>1, RowAdded DEF RetryArchive, TInv, QueueOK
  <1>3. QueueOK' /\ WorkerOK'
    BY <1>2, LeftAlone DEF RetryArchive, Request, TInv, QueueOK
  <1> QED
    BY <1>3, LeftAlone DEF RetryArchive, TInv, archiveVars, parseVars

LEMMA DecideStep ==
  ASSUME TInv, NEW queued \in BOOLEAN, Decide(queued) PROVE TInv'
  <1>1. [key |-> <<"manual-classification", requests>>, queue |-> "markdown_delivery",
         row |-> EnqueueRow("classify", FALSE)] \in Task
    <2>1. <<"manual-classification", requests>> \in Key
      BY DEF Key, TInv, QueueOK
    <2>2. EnqueueRow("classify", FALSE) \in Row
      BY NewRows DEF CORE_PIPELINE_STAGES
    <2> QED
      BY <2>1, <2>2 DEF Task
  <1>2. tasks' \in Seq(Task) /\ Len(tasks) \in Nat /\ Len(tasks') \in {Len(tasks), Len(tasks) + 1}
    BY <1>1, RowAdded DEF Decide, TInv, QueueOK
  <1>3. QueueOK' /\ WorkerOK'
    BY <1>2, LeftAlone DEF Decide, Request, TInv, QueueOK
  <1> QED
    BY <1>3, LeftAlone DEF Decide, TInv, archiveVars, parseVars

LEMMA NextTInv == TInv /\ [Next]_vars => TInv'
  <1> SUFFICES ASSUME TInv, [Next]_vars PROVE TInv'
    OBVIOUS
  <1>1. CASE UNCHANGED vars
    <2>1. Len(tasks) \in Nat
      BY DEF TInv, QueueOK
    <2> QED
      BY <1>1, <2>1, LeftAlone
         DEF TInv, vars, sourceVars, archiveVars, parseVars, exportVars, workerVars, boundVars
  <1>2. CASE HandlerStep
    BY <1>2, QuietSteps, EndCaptureStep, VerifyStep, HandOverStep, InventoryStep, ParseStep,
       ClassifyStep, PublishStep, IndexStep DEF HandlerStep
  <1>3. CASE OaChanges \/ Exclude \/ Report \/ Damage \/ Converge
    BY <1>3, SourceSteps, ReportStep, CrashStep, QuietSteps DEF Damage
  <1>4. CASE Apply \/ RetryMarkdown \/ RetryArchive \/ \E queued \in BOOLEAN : Decide(queued)
    BY <1>4, ApplyStep, RetryMarkdownStep, RetryArchiveStep, DecideStep
  <1>5. CASE (\E mode \in {"hourly", "nightly"} : Scan(mode)) \/ (\E i \in DOMAIN tasks : Claim(i))
    BY <1>5, ScanStep, ClaimStep
  <1> QED
    BY <1>1, <1>2, <1>3, <1>4, <1>5 DEF Next

\* Every table of the done chain keeps its declared shape, and the worker
\* always works on a row that exists: for any attachments, listings and
\* interleaving of scans, convergence, console, faults and losses.
THEOREM DoneTypes == Spec => []TypeOK
  <1>1. TInv => TypeOK
    <2> SUFFICES ASSUME TInv PROVE TypeOK
      OBVIOUS
    <2>1. \A i \in DOMAIN tasks : tasks[i].row \in Row
      BY RowTyped DEF TInv, QueueOK
    <2> QED
      BY <2>1 DEF TInv, TypeOK, SourceOK, ArchiveOK, ParseOK, ExportOK, WorkerOK, Bytes
  <1> QED
    BY InitTInv, NextTInv, <1>1, PTL DEF Spec

-----------------------------------------------------------------------------
(* Nothing is lost on the way.                                             *)

\* OA only ever adds attachments to the item.
ListingsGrow ==
    \A v, w \in 1..Len(Listings), f \in Files :
        v <= w /\ Listings[v][f] # NoContent => Listings[w][f] = Listings[v][f]

\* Some attachment cannot be downloaded.
CaptureFails ==
    \E failed \in SUBSET Files, deep \in BOOLEAN : failed # {} /\ EndCapture(failed, deep)

\* The archive holds what OA shows, and never anything else.
FilesInv ==
    \A f \in Files :
        /\ archive[f].content \in {NoContent, Listings[shown][f]}
        /\ archive[f].status = IF archive[f].content = NoContent THEN "absent" ELSE "verified"
        /\ archive[f].object \in {NoContent, archive[f].content}

\* A finished parse has a product, and what is valid was made from its bytes.
ParsesInv ==
    /\ \A f \in Files : job[f] = "completed" => made[f] = archive[f].object /\ made[f] \in products
    /\ \A c \in Contents :
           artifact[c].life = "none" \/ (artifact[c].life = "valid" /\ artifact[c].body = c)
    /\ \A c \in products : artifact[c].life = "valid"

ExportsInv ==
    \A f \in Files : export[f].status # "none" =>
        /\ archive[f].content # NoContent
        /\ export[f].content = archive[f].content /\ export[f].body = archive[f].content

\* The facts the rows of the item stand for.  k is the key of a row: the
\* version it was enqueued for, or the signature it was handed.
Captured(v) ==
    \A f \in Files : Listings[v][f] # NoContent => archive[f].content = Listings[v][f]
Gone(f) == job[f] = "skipped" \/ kind[f] = "unsupported"
Covered(s) == \A f \in Files : s[2][f] # NoContent => f \in Verified
Prepared(s) == \A f \in Files : s[2][f] # NoContent => HasArtifact(f) \/ Gone(f)
Written(s) == \A f \in Files : s[2][f] # NoContent => export[f].status # "none" \/ Gone(f)
HandedOver(v) ==
    \E i \in DOMAIN tasks :
        /\ tasks[i].key[1] = "markdown"
        /\ \A f \in Files : Listings[v][f] # NoContent => tasks[i].key[2][2][f] # NoContent

Ready(k, stage) ==
    /\ k[1] = "realtime-done" =>
           /\ k[2] \in 1..shown
           /\ stage \in DownloadStages
           /\ stage = "archive_verify" => Captured(k[2])
    /\ k[1] = "markdown" =>
           /\ stage \in MarkdownStages /\ Covered(k[2])
           /\ stage = "classify" => Prepared(k[2])
           /\ stage = "index_publish" => Written(k[2])

Finished(k) ==
    /\ k[1] = "realtime-done" => Captured(k[2]) /\ HandedOver(k[2])
    /\ k[1] = "markdown" => Written(k[2]) /\ index # "none"

\* The row for what OA shows exists as long as the item is not excluded.
KnownInv ==
    ~manifest.excluded /\ manifest.hash # 0 => <<"realtime-done", manifest.hash>> \in Keys

\* A row is at a stage for which everything is there, and has completed only
\* when everything is done.
Sound(i) ==
    \A k \in Key, st \in Stages : k = tasks[i].key /\ st = tasks[i].row.stage =>
        /\ Ready(k, st)
        /\ tasks[i].row.status = "completed" /\ ~manifest.excluded => Finished(k)
RowsInv == \A i \in DOMAIN tasks : Sound(i)

WorkerInv ==
    pc # "idle" =>
        /\ tasks[cur].row.status = "running"
        /\ pc = "capturing" => tasks[cur].row.stage = "done_capture_and_archive"
        /\ pc = "handing" =>
               /\ tasks[cur].row.stage = "archive_verify"
               /\ \A f \in Files : sig[2][f] = archive[f].content
        /\ pc = "publishing" => tasks[cur].row.stage = "classify"
        /\ pc = "reporting" => out.op # "none"
        /\ \A k \in Key, st \in Stages :
               pc = "reporting" /\ k = tasks[cur].key /\ st = out.stage =>
               /\ out.op = "advance" => Ready(k, st)
               /\ out.op = "complete" /\ ~manifest.excluded => Finished(k)

QInv ==
    /\ TInv /\ FilesInv /\ ParsesInv /\ ExportsInv
    /\ KnownInv /\ RowsInv /\ WorkerInv

\* What no step takes back.
Grows ==
    /\ shown <= shown'
    /\ manifest.excluded => manifest'.excluded
    /\ \A f \in Files :
           /\ archive[f].content # NoContent => archive'[f].content = archive[f].content
           /\ f \in Verified => f \in Verified'
           /\ HasArtifact(f) => HasArtifact(f)'
           /\ Gone(f) => Gone(f)'
           /\ export[f].status # "none" => export'[f].status # "none"
    /\ index # "none" => index' # "none"
    /\ \A i \in DOMAIN tasks : i \in DOMAIN tasks' /\ tasks'[i].key = tasks[i].key

\* So a row stays ready and finished.
LEMMA StaysReady ==
  ASSUME TInv, TInv', Grows, NEW k \in Key, NEW st \in Stages
  PROVE  /\ Ready(k, st) => Ready(k, st)'
         /\ Finished(k) => Finished(k)'
  <1>1. ASSUME NEW v, Captured(v) PROVE Captured(v)'
    BY <1>1 DEF Captured, Grows
  <1>2. ASSUME NEW v, HandedOver(v) PROVE HandedOver(v)'
    <2>1. PICK i \in DOMAIN tasks :
              /\ tasks[i].key[1] = "markdown"
              /\ \A f \in Files : Listings[v][f] # NoContent => tasks[i].key[2][2][f] # NoContent
      BY <1>2 DEF HandedOver
    <2>2. i \in DOMAIN tasks' /\ tasks'[i].key = tasks[i].key
      BY DEF Grows
    <2> QED
      BY <2>1, <2>2 DEF HandedOver
  <1>3. ASSUME NEW s PROVE /\ Covered(s) => Covered(s)'
                           /\ Prepared(s) => Prepared(s)'
                           /\ Written(s) => Written(s)'
    BY DEF Covered, Prepared, Written, Grows
  <1>4. shown \in Nat /\ shown' \in Nat /\ shown <= shown'
    BY DEF TInv, SourceOK, Grows
  <1>5. index # "none" => index' # "none"
    BY DEF Grows
  <1>6. Ready(k, st) => Ready(k, st)'
    BY <1>1, <1>3, <1>4 DEF Ready
  <1>7. Finished(k) => Finished(k)'
    BY <1>1, <1>2, <1>3, <1>5 DEF Finished
  <1> QED
    BY <1>6, <1>7

\* Rows that keep their stage, and finish only when they had finished, stay
\* sound.
LEMMA RowsStaySound ==
  ASSUME TInv, TInv', Grows, RowsInv,
         \A i \in DOMAIN tasks' :
             \/ /\ i \in DOMAIN tasks
                /\ tasks'[i].row.stage = tasks[i].row.stage
                /\ tasks'[i].row.status = "completed" => tasks[i].row.status = "completed"
             \/ Sound(i)'
  PROVE  RowsInv'
  <1> SUFFICES ASSUME NEW i \in DOMAIN tasks', i \in DOMAIN tasks,
                      tasks'[i].row.stage = tasks[i].row.stage,
                      tasks'[i].row.status = "completed" => tasks[i].row.status = "completed"
               PROVE  Sound(i)'
    BY DEF RowsInv
  <1>1. Sound(i) /\ tasks'[i].key = tasks[i].key
    BY DEF RowsInv, Grows
  <1> SUFFICES ASSUME NEW k \in Key, NEW st \in Stages,
                      k = tasks'[i].key, st = tasks'[i].row.stage
               PROVE  /\ Ready(k, st)'
                      /\ tasks'[i].row.status = "completed" /\ ~manifest'.excluded => Finished(k)'
    BY DEF Sound
  <1>2. /\ Ready(k, st)
        /\ tasks[i].row.status = "completed" /\ ~manifest.excluded => Finished(k)
    BY <1>1 DEF Sound
  <1>3. manifest.excluded => manifest'.excluded
    BY DEF Grows
  <1> QED
    BY <1>2, <1>3, StaysReady

\* A handler may answer what is true.
LEMMA Answered ==
  ASSUME WorkerInv, pc # "idle", tasks'[cur] = tasks[cur], NEW o, Answer(o),
         o.op # "none",
         \A k \in Key, st \in Stages : k = tasks[cur].key /\ st = o.stage =>
             /\ o.op = "advance" => Ready(k, st)'
             /\ o.op = "complete" /\ ~manifest'.excluded => Finished(k)'
  PROVE  WorkerInv'
  <1>1. pc' = "reporting" /\ out' = o /\ cur' = cur
    BY DEF Answer
  <1> QED
    BY <1>1 DEF WorkerInv

\* The worker is not disturbed by what happens beside it.
LEMMA WorkerUntouched ==
  ASSUME TInv, TInv', Grows, WorkerInv, UNCHANGED workerVars,
         \A f \in Files : archive'[f].content = archive[f].content,
         pc # "idle" => /\ tasks'[cur].row.status = tasks[cur].row.status
                        /\ tasks'[cur].row.stage = tasks[cur].row.stage
  PROVE  WorkerInv'
  <1> SUFFICES ASSUME pc # "idle" PROVE WorkerInv'
    BY DEF WorkerInv, workerVars
  <1>1. UNCHANGED <<pc, cur, out, sig>>
    BY DEF workerVars
  <1>2. tasks'[cur].key = tasks[cur].key
    BY RowOfWorker DEF Grows
  <1>4. ASSUME NEW k \in Key, NEW st \in Stages, k = tasks'[cur].key, st = out'.stage, pc = "reporting"
        PROVE  /\ out.op = "advance" => Ready(k, st)'
               /\ out.op = "complete" /\ ~manifest'.excluded => Finished(k)'
    <2>1. /\ out.op = "advance" => Ready(k, st)
          /\ out.op = "complete" /\ ~manifest.excluded => Finished(k)
      BY <1>1, <1>2, <1>4 DEF WorkerInv
    <2>2. manifest.excluded => manifest'.excluded
      BY DEF Grows
    <2> QED
      BY <2>1, <2>2, StaysReady
  <1> QED
    BY <1>1, <1>4 DEF WorkerInv

LEMMA KnownStays ==
  ASSUME Grows, KnownInv, manifest'.hash = manifest.hash
  PROVE  KnownInv'
  <1>1. Keys \subseteq Keys'
    BY DEF Grows, Keys
  <1> QED
    BY <1>1 DEF Grows, KnownInv

\* Nothing but the queue, the index, the manifest and the disk changes.
LEMMA FactsKept ==
  ASSUME QInv, UNCHANGED <<sourceVars, archive, parseVars, export>>,
         manifest.excluded => manifest'.excluded,
         index # "none" => index' # "none",
         \A i \in DOMAIN tasks : i \in DOMAIN tasks' /\ tasks'[i].key = tasks[i].key
  PROVE  Grows /\ FilesInv' /\ ParsesInv' /\ ExportsInv'
  <1>1. UNCHANGED <<shown, kind, archive, job, made, artifact, products, export>>
    BY DEF sourceVars, parseVars
  <1>2. FilesInv'
    BY <1>1 DEF QInv, FilesInv
  <1>3. ParsesInv'
    BY <1>1 DEF QInv, ParsesInv
  <1>4. ExportsInv'
    BY <1>1 DEF QInv, ExportsInv
  <1>5. Grows
    <2>1. shown <= shown'
      BY <1>1 DEF QInv, TInv, SourceOK
    <2> QED
      BY <1>1, <2>1 DEF Grows, Verified, HasArtifact, Valid, Gone
  <1> QED
    BY <1>2, <1>3, <1>4, <1>5

\* The rows of an idempotent enqueue.
LEMMA EnqueuedRows ==
  ASSUME tasks \in Seq(Task), NEW key \in Key, NEW s \in CORE_PIPELINE_STAGES,
         NEW queue \in {"realtime_done", "markdown_delivery"},
         tasks' = Enqueued(queue, key, s)
  PROVE  /\ \A i \in DOMAIN tasks : i \in DOMAIN tasks' /\ tasks'[i] = tasks[i]
         /\ \A i \in DOMAIN tasks' \ DOMAIN tasks :
                /\ tasks'[i].key = key /\ tasks'[i].row.stage = s
                /\ tasks'[i].row.status = "queued"
         /\ \E i \in DOMAIN tasks' : tasks'[i].key = key
  <1> DEFINE t == [key |-> key, queue |-> queue, row |-> EnqueueRow(s, FALSE)]
  <1>1. /\ t \in Task /\ t.key = key
        /\ t.row.stage = s /\ t.row.status = "queued"
    BY NewRows DEF Task
  <1>2. CASE key \in Keys
    BY <1>2 DEF Enqueued, Keys
  <1>3. CASE key \notin Keys
    <2>1. tasks' = Append(tasks, t)
      BY <1>3 DEF Enqueued
    <2> HIDE DEF t
    <2>2. /\ DOMAIN tasks' = DOMAIN tasks \cup {Len(tasks) + 1}
          /\ tasks'[Len(tasks) + 1] = t
          /\ \A i \in DOMAIN tasks : tasks'[i] = tasks[i]
      BY <1>1, <2>1, RowAdded
    <2> QED
      BY <1>1, <2>2
  <1> QED
    BY <1>2, <1>3

\* Rows that are added with everything there leave all rows sound.
LEMMA RowsAdded ==
  ASSUME TInv, TInv', Grows, RowsInv,
         \A i \in DOMAIN tasks : tasks'[i] = tasks[i],
         \A i \in DOMAIN tasks' \ DOMAIN tasks :
             /\ tasks'[i].row.status # "completed"
             /\ \A k \in Key, st \in Stages :
                    k = tasks'[i].key /\ st = tasks'[i].row.stage => Ready(k, st)'
  PROVE  RowsInv'
  <1>1. ASSUME NEW i \in DOMAIN tasks' \ DOMAIN tasks PROVE Sound(i)'
    BY <1>1 DEF Sound
  <1> QED
    BY <1>1, RowsStaySound

\* The rows the console and the convergence create stand for nothing.
LEMMA OtherRowsAdded ==
  ASSUME TInv, TInv', Grows, RowsInv,
         \A i \in DOMAIN tasks : tasks'[i] = tasks[i],
         \A i \in DOMAIN tasks' \ DOMAIN tasks :
             /\ tasks'[i].row.status # "completed"
             /\ tasks'[i].key[1] \notin {"realtime-done", "markdown"}
  PROVE  RowsInv'
  <1>1. \A k \in Key, st \in Stages :
            k[1] \notin {"realtime-done", "markdown"} => Ready(k, st)'
    BY DEF Ready
  <1> QED
    BY <1>1, RowsAdded

LEMMA SourceQuiet ==
  ASSUME QInv, TInv', ListingsGrow, OaChanges \/ Exclude PROVE QInv'
  <1>1. CASE OaChanges
    <2>1. UNCHANGED <<kind, manifest, archive, job, made, artifact, products, export, index, tasks>>
          /\ UNCHANGED workerVars /\ shown' = shown + 1 /\ shown' \in 1..Len(Listings) /\ shown \in 1..Len(Listings)
      BY <1>1 DEF OaChanges, archiveVars, parseVars, exportVars, QInv, TInv, SourceOK
    <2>2. Grows
      BY <2>1 DEF Grows, Verified, HasArtifact, Valid, Gone
    <2>3. FilesInv'
      <3>1. \A f \in Files : Listings[shown][f] # NoContent => Listings[shown'][f] = Listings[shown][f]
        BY <2>1 DEF ListingsGrow
      <3> QED
        BY <2>1, <3>1 DEF QInv, FilesInv
    <2>4. ParsesInv' /\ ExportsInv'
      BY <2>1 DEF QInv, ParsesInv, ExportsInv
    <2>5. KnownInv' /\ RowsInv' /\ WorkerInv'
      BY <2>1, <2>2, KnownStays, RowsStaySound, WorkerUntouched DEF QInv
    <2> QED
      BY <2>3, <2>4, <2>5 DEF QInv
  <1>2. CASE Exclude
    <2>1. UNCHANGED <<sourceVars, archive, parseVars, export, index, tasks, workerVars>>
          /\ manifest'.excluded /\ manifest'.hash = manifest.hash
      BY <1>2 DEF Exclude, exportVars, QInv, TInv, ArchiveOK
    <2>2. Grows /\ FilesInv' /\ ParsesInv' /\ ExportsInv'
      BY <2>1, FactsKept
    <2>3. KnownInv' /\ RowsInv' /\ WorkerInv'
      BY <2>1, <2>2, KnownStays, RowsStaySound, WorkerUntouched DEF QInv
    <2> QED
      BY <2>2, <2>3 DEF QInv
  <1> QED
    BY <1>1, <1>2

LEMMA ScanQuiet ==
  ASSUME QInv, TInv', NEW mode \in {"hourly", "nightly"}, Scan(mode) PROVE QInv'
  <1>1. UNCHANGED <<sourceVars, archive, parseVars, export, index, workerVars>>
    BY DEF Scan, exportVars
  <1>2. manifest'.hash = shown /\ manifest'.excluded = manifest.excluded
    BY DEF Scan, Reviewed, QInv, TInv, ArchiveOK
  <1>3. shown \in Nat /\ shown >= 1 /\ <<"realtime-done", shown>> \in Key
    BY ListingsAssumption DEF QInv, TInv, SourceOK, ListingsAssumption, Key
  <1> DEFINE key == <<"realtime-done", shown>>
             enqueues == tasks' = Enqueued("realtime_done", key, "done_capture_and_archive")
  <1>4. \/ tasks' = tasks /\ (~manifest.excluded => manifest.hash = shown)
        \/ enqueues
    BY DEF Scan
  <1>5. /\ \A i \in DOMAIN tasks : i \in DOMAIN tasks' /\ tasks'[i] = tasks[i]
        /\ \A i \in DOMAIN tasks' \ DOMAIN tasks :
               /\ tasks'[i].key = key /\ tasks'[i].row.stage = "done_capture_and_archive"
               /\ tasks'[i].row.status = "queued"
        /\ enqueues => \E i \in DOMAIN tasks' : tasks'[i].key = key
    BY <1>3, <1>4, EnqueuedRows DEF CORE_PIPELINE_STAGES, QInv, TInv, QueueOK
  <1> HIDE DEF enqueues
  <1>6. Grows /\ FilesInv' /\ ParsesInv' /\ ExportsInv'
    BY <1>1, <1>2, <1>5, FactsKept
  <1>7. KnownInv'
    <2>1. CASE enqueues
      BY <1>2, <1>5, <2>1 DEF KnownInv, Keys
    <2>2. CASE ~enqueues
      <3>1. ~manifest.excluded => manifest.hash = shown
        BY <1>4, <2>2
      <3>2. Keys \subseteq Keys'
        BY <1>6 DEF Grows, Keys
      <3> QED
        BY <1>2, <1>3, <3>1, <3>2 DEF KnownInv, QInv
    <2> QED
      BY <2>1, <2>2
  <1>8. RowsInv'
    <2>1. shown' = shown
      BY <1>1 DEF sourceVars
    <2>2. \A k \in Key, st \in Stages :
              k = key /\ st = "done_capture_and_archive" => Ready(k, st)'
      BY <1>3, <2>1 DEF Ready, DownloadStages
    <2> QED
      BY <1>5, <1>6, <2>2, RowsAdded DEF QInv
  <1>9. WorkerInv'
    <2>1. pc # "idle" => tasks'[cur] = tasks[cur]
      BY <1>5, RowOfWorker DEF QInv
    <2> QED
      BY <1>1, <1>6, <2>1, WorkerUntouched DEF QInv
  <1> QED
    BY <1>6, <1>7, <1>8, <1>9 DEF QInv

LEMMA ClaimQuiet ==
  ASSUME QInv, TInv', NEW i \in DOMAIN tasks, Claim(i) PROVE QInv'
  <1>1. UNCHANGED <<sourceVars, manifest, archive, parseVars, export, index>>
    BY DEF Claim, archiveVars, exportVars
  <1>2. tasks[i].row \in Row /\ ClaimRow(tasks[i].row, Worker) \in Row
    BY RowTyped, RowUpdatesTyped, ChoiceAssumption DEF QInv, TInv, QueueOK, ChoiceAssumption
  <1>3. /\ tasks \in Seq(Task)
        /\ tasks' = [tasks EXCEPT ![i].row = ClaimRow(tasks[i].row, Worker)]
    BY DEF Claim, QInv, TInv, QueueOK
  <1>4. /\ DOMAIN tasks' = DOMAIN tasks
        /\ tasks'[i].row = ClaimRow(tasks[i].row, Worker)
        /\ \A j \in DOMAIN tasks : tasks'[j].key = tasks[j].key
        /\ \A j \in DOMAIN tasks \ {i} : tasks'[j] = tasks[j]
    BY <1>2, <1>3, RowWritten
  <1>5. tasks'[i].row.status = "running" /\ tasks'[i].row.stage = tasks[i].row.stage
    BY <1>2, <1>4, RowUpdateFields
  <1>6. Grows /\ FilesInv' /\ ParsesInv' /\ ExportsInv'
    BY <1>1, <1>4, FactsKept
  <1>7. KnownInv'
    BY <1>1, <1>6, KnownStays DEF QInv
  <1>8. RowsInv'
    BY <1>4, <1>5, <1>6, RowsStaySound DEF QInv
  <1>9. WorkerInv'
    BY <1>5 DEF Claim, WorkerInv
  <1> QED
    BY <1>6, <1>7, <1>8, <1>9 DEF QInv

\* Losses of originals, of published documents and of the index.
LEMMA DamageQuiet ==
  ASSUME QInv, TInv', "product" \notin Damages,
         \/ \E f \in Files : LoseOriginal(f) \/ LosePublished(f)
         \/ \E c \in Contents : LoseProduct(c)
         \/ LoseIndex \/ Converge
  PROVE  QInv'
  <1>1. UNCHANGED <<sourceVars, manifest, archive, parseVars, export, tasks, workerVars>>
        /\ (index # "none" => index' # "none")
    BY DEF LoseOriginal, LosePublished, LoseProduct, LoseIndex, Converge, archiveVars, parseVars, exportVars
  <1>2. Grows /\ FilesInv' /\ ParsesInv' /\ ExportsInv'
    BY <1>1, FactsKept
  <1>3. KnownInv' /\ RowsInv' /\ WorkerInv'
    BY <1>1, <1>2, KnownStays, RowsStaySound, WorkerUntouched DEF QInv
  <1> QED
    BY <1>2, <1>3 DEF QInv

LEMMA AnswerFields ==
  /\ \A s : Advanced(s).op = "advance" /\ Advanced(s).stage = s
  /\ Completed.op = "complete" /\ Refused.op = "fail"
  /\ Failed(FALSE, TRUE, "other").op = "fail"
  BY DEF Advanced, Completed, Refused, Failed, NoOutcome

\* The row of the worker is ready for the stage it is at.
LEMMA RowOfWorkerReady ==
  ASSUME QInv, pc # "idle", NEW k \in Key, k = tasks[cur].key
  PROVE  Ready(k, tasks[cur].row.stage) /\ tasks[cur].row.status = "running"
  <1>1. cur \in DOMAIN tasks /\ tasks[cur].row.stage \in Stages
    BY RowOfWorker DEF QInv, Row
  <1>2. Sound(cur)
    BY <1>1 DEF QInv, RowsInv
  <1> QED
    BY <1>1, <1>2 DEF Sound, QInv, WorkerInv

\* A handler that only answers, and answers what is true.
LEMMA OnlyAnswers ==
  ASSUME QInv, TInv', pc # "idle",
         UNCHANGED <<sourceVars, archive, parseVars, export, tasks>>,
         manifest'.hash = manifest.hash, manifest'.excluded = manifest.excluded,
         index # "none" => index' # "none",
         NEW o, Answer(o), o.op # "none",
         o.op = "complete" => manifest.excluded,
         \A k \in Key : Ready(k, tasks[cur].row.stage) /\ o.op = "advance" =>
             o.stage \in Stages /\ Ready(k, o.stage)
  PROVE  QInv'
  <1>1. Grows /\ FilesInv' /\ ParsesInv' /\ ExportsInv'
    BY FactsKept
  <1>2. KnownInv' /\ RowsInv'
    BY <1>1, KnownStays, RowsStaySound DEF QInv
  <1>3. WorkerInv'
    <2>1. \A k \in Key, st \in Stages : k = tasks[cur].key /\ st = o.stage =>
              /\ o.op = "advance" => Ready(k, st)'
              /\ o.op = "complete" /\ ~manifest'.excluded => Finished(k)'
      BY <1>1, RowOfWorkerReady, StaysReady DEF QInv
    <2> QED
      BY <2>1, Answered DEF QInv
  <1> QED
    BY <1>1, <1>2, <1>3 DEF QInv

\* A handler that goes on to its next part.
LEMMA GoesOn ==
  ASSUME QInv, TInv', pc # "idle",
         UNCHANGED <<sourceVars, manifest, archive, parseVars, export, index, tasks>>,
         \/ pc' = "capturing" /\ tasks[cur].row.stage = "done_capture_and_archive"
         \/ pc' = "publishing" /\ tasks[cur].row.stage = "classify",
         UNCHANGED <<cur, out, sig>>
  PROVE  QInv'
  <1>1. Grows /\ FilesInv' /\ ParsesInv' /\ ExportsInv'
    BY FactsKept
  <1>2. KnownInv' /\ RowsInv'
    BY <1>1, KnownStays, RowsStaySound DEF QInv
  <1>3. WorkerInv'
    BY DEF QInv, WorkerInv
  <1> QED
    BY <1>1, <1>2, <1>3 DEF QInv

\* From stage to stage.
LEMMA ReadyForNext ==
  ASSUME TInv, NEW k \in Key
  PROVE  /\ \A st \in MarkdownStages : Ready(k, st) =>
                /\ Ready(k, "attachment_inventory") /\ Ready(k, "parse")
                /\ Ready(k, "source_publish")
         /\ \A st \in MarkdownStages :
                Ready(k, st) /\ (Covered(k[2]) => Prepared(k[2])) => Ready(k, "classify")
         /\ \A st \in MarkdownStages :
                Ready(k, st) /\ (Covered(k[2]) => Written(k[2])) => Ready(k, "index_publish")
  BY DEF Ready, MarkdownStages, DownloadStages

LEMMA AnswersQuiet ==
  ASSUME QInv, TInv',
         BeginCapture \/ ParsesDone \/ SourcePublish \/ Fault
             \/ \E verdict \in Verdicts : Classify(verdict)
  PROVE  QInv'
  <1> USE AnswerFields
  <1>1. pc # "idle" /\ UNCHANGED <<sourceVars, manifest, archive, parseVars, export, index, tasks>>
    BY DEF BeginCapture, ParsesDone, SourcePublish, Fault, Classify, At, archiveVars, exportVars
  <1>2. CASE BeginCapture
    BY <1>1, <1>2, OnlyAnswers, GoesOn DEF BeginCapture, At
  <1>3. CASE ParsesDone
    <2>1. tasks[cur].row.stage = "parse" /\ "parse" \in MarkdownStages /\ "source_publish" \in Stages
      BY <1>3 DEF ParsesDone, At, MarkdownStages, Stages, CORE_PIPELINE_STAGES
    <2>2. Answer(Failed(FALSE, TRUE, "other")) \/ Answer(Advanced("source_publish"))
      BY <1>3 DEF ParsesDone
    <2> QED
      BY <1>1, <2>1, <2>2, OnlyAnswers, ReadyForNext DEF QInv
  <1>4. CASE SourcePublish
    <2>1. tasks[cur].row.stage = "source_publish" /\ "source_publish" \in MarkdownStages
          /\ "classify" \in Stages /\ "attachment_inventory" \in Stages
      BY <1>4 DEF SourcePublish, At, MarkdownStages, Stages, CORE_PIPELINE_STAGES
    <2>2. \/ Answer(Refused) \/ Answer(Advanced("attachment_inventory"))
          \/ Answer(Advanced("classify")) /\ \A f \in Verified : HasArtifact(f) \/ GivenUp(f)
      BY <1>4 DEF SourcePublish
    <2>3. ASSUME \A f \in Verified : HasArtifact(f) \/ GivenUp(f), NEW k \in Key, Covered(k[2])
          PROVE  Prepared(k[2])
      BY <2>3 DEF Covered, Prepared, GivenUp, Gone
    <2>4. CASE Answer(Advanced("classify")) /\ \A f \in Verified : HasArtifact(f) \/ GivenUp(f)
      <3>1. \A k \in Key : Ready(k, tasks[cur].row.stage) => Ready(k, "classify")
        BY <2>1, <2>3, <2>4, ReadyForNext DEF QInv
      <3> QED
        BY <1>1, <2>1, <2>4, <3>1, OnlyAnswers
    <2>5. CASE Answer(Refused) \/ Answer(Advanced("attachment_inventory"))
      BY <1>1, <2>1, <2>5, OnlyAnswers, ReadyForNext DEF QInv
    <2> QED
      BY <2>2, <2>4, <2>5
  <1>5. CASE Fault
    BY <1>1, <1>5, OnlyAnswers DEF Fault
  <1>6. ASSUME NEW verdict \in Verdicts, Classify(verdict) PROVE QInv'
    BY <1>1, <1>6, OnlyAnswers, GoesOn DEF Classify, At
  <1> QED
    BY <1>2, <1>3, <1>4, <1>5, <1>6

LEMMA IndexQuiet ==
  ASSUME QInv, TInv', IndexPublish PROVE QInv'
  <1> USE AnswerFields
  <1>1. /\ pc # "idle" /\ UNCHANGED <<sourceVars, manifest, archive, parseVars, export, tasks>>
        /\ index # "none" => index' # "none"
        /\ tasks[cur].row.stage = "index_publish"
    BY DEF IndexPublish, At, archiveVars
  <1>2. CASE Answer(Completed) /\ index' = "success"
    <2>1. Grows /\ FilesInv' /\ ParsesInv' /\ ExportsInv'
      BY <1>1, FactsKept
    <2>2. KnownInv' /\ RowsInv'
      BY <1>1, <2>1, KnownStays, RowsStaySound DEF QInv
    <2>3. ASSUME NEW k \in Key, k = tasks[cur].key PROVE Finished(k)'
      <3>1. Ready(k, "index_publish")
        BY <1>1, <2>3, RowOfWorkerReady
      <3>2. k[1] # "realtime-done" /\ (k[1] = "markdown" => Written(k[2]))
        BY <3>1 DEF Ready, DownloadStages
      <3>3. ASSUME NEW s, Written(s) PROVE Written(s)'
        BY <2>1, <3>3 DEF Written, Grows
      <3> QED
        BY <1>2, <3>2, <3>3 DEF Finished
    <2>4. WorkerInv'
      BY <1>1, <1>2, <2>3, Answered DEF QInv
    <2> QED
      BY <2>1, <2>2, <2>4 DEF QInv
  <1>3. CASE Answer(Failed(FALSE, TRUE, "other"))
    BY <1>1, <1>3, OnlyAnswers
  <1> QED
    BY <1>2, <1>3 DEF IndexPublish

\* A capture that gets every attachment, however deep it had to go.
LEMMA CaptureQuiet ==
  ASSUME QInv, TInv', ListingsGrow, NEW deep \in BOOLEAN, EndCapture({}, deep)
  PROVE  QInv'
  <1> USE AnswerFields
  <1>1. /\ pc # "idle" /\ pc = "capturing"
        /\ UNCHANGED <<shown, kind, job, made, artifact, products, export, index, tasks>>
    BY DEF EndCapture, sourceVars, parseVars, exportVars
  <1>2. Undeletable = {}
    BY DEF Undeletable, QInv, FilesInv
  <1>3. /\ archive' = [f \in Files |-> Archived(f, {})]
        /\ manifest'.hash = manifest.hash /\ manifest'.excluded = manifest.excluded
        /\ Answer(Refused) \/ Answer(Advanced("archive_verify"))
    BY <1>2 DEF EndCapture, QInv, TInv, ArchiveOK
  <1>4. ASSUME NEW f \in Files
        PROVE  /\ archive'[f].object = archive[f].object
               /\ archive[f].content # NoContent => archive'[f].content = archive[f].content
               /\ Listings[shown][f] # NoContent => archive'[f].content = Listings[shown][f]
               /\ archive'[f].content \in {NoContent, Listings[shown][f]}
               /\ archive'[f].status = IF archive'[f].content = NoContent THEN "absent" ELSE "verified"
    <2>1. archive[f] \in [status : {"absent", "failed", "verified"}, content : Bytes, object : Bytes]
      BY DEF QInv, TInv, ArchiveOK
    <2>2. /\ archive[f].content \in {NoContent, Listings[shown][f]}
          /\ archive[f].status = IF archive[f].content = NoContent THEN "absent" ELSE "verified"
      BY DEF QInv, FilesInv
    <2> QED
      BY <1>3, <2>1, <2>2 DEF Archived
  <1>5. FilesInv'
    BY <1>1, <1>4 DEF FilesInv, QInv
  <1>6. ParsesInv'
    BY <1>1, <1>4 DEF ParsesInv, QInv
  <1>7. ExportsInv'
    BY <1>1, <1>4 DEF ExportsInv, QInv
  <1>8. Grows
    <2>1. \A f \in Verified : f \in Verified'
      BY <1>4 DEF Verified, QInv, FilesInv
    <2>2. shown <= shown'
      BY <1>1 DEF QInv, TInv, SourceOK
    <2>3. \A f \in Files : HasArtifact(f) => HasArtifact(f)'
      BY <1>1, <1>4 DEF HasArtifact, Valid
    <2> QED
      BY <1>1, <1>3, <1>4, <2>1, <2>2, <2>3 DEF Grows, Gone
  <1>9. KnownInv' /\ RowsInv'
    BY <1>1, <1>3, <1>8, KnownStays, RowsStaySound DEF QInv
  <1>10. WorkerInv'
    <2>1. ASSUME NEW k \in Key, k = tasks[cur].key
          PROVE  Ready(k, "archive_verify")'
      <3>1. Ready(k, "done_capture_and_archive")
        BY <1>1, <2>1, RowOfWorkerReady DEF QInv, WorkerInv
      <3>2. k[1] # "markdown" /\ (k[1] = "realtime-done" => k[2] \in 1..shown)
        BY <3>1 DEF Ready, MarkdownStages
      <3>3. ASSUME k[1] = "realtime-done", NEW f \in Files, Listings[k[2]][f] # NoContent
            PROVE  archive'[f].content = Listings[k[2]][f]
        <4>1. k[2] \in 1..Len(Listings) /\ shown \in 1..Len(Listings) /\ k[2] <= shown
          BY <3>2, <3>3, ListingsAssumption DEF QInv, TInv, SourceOK, ListingsAssumption
        <4> QED
          BY <1>4, <3>3, <4>1 DEF ListingsGrow
      <3> QED
        BY <1>1, <3>2, <3>3 DEF Ready, Captured, DownloadStages
    <2> QED
      BY <1>1, <1>3, <2>1, Answered DEF QInv
  <1> QED
    BY <1>5, <1>6, <1>7, <1>8, <1>9, <1>10 DEF QInv

LEMMA VerifyQuiet ==
  ASSUME QInv, TInv', VerifyArchive PROVE QInv'
  <1> USE AnswerFields
  <1>1. /\ pc # "idle" /\ UNCHANGED <<sourceVars, archive, parseVars, export, index, tasks>>
        /\ tasks[cur].row.stage = "archive_verify"
        /\ manifest'.hash = manifest.hash /\ manifest'.excluded = manifest.excluded
    BY DEF VerifyArchive, At, exportVars, QInv, TInv, ArchiveOK
  <1>2. CASE ArchiveVerified
    <2>1. pc' = "handing" /\ sig' = Signature /\ UNCHANGED <<cur, out>>
      BY <1>2 DEF VerifyArchive
    <2>2. Grows /\ FilesInv' /\ ParsesInv' /\ ExportsInv'
      BY <1>1, FactsKept
    <2>3. KnownInv' /\ RowsInv'
      BY <1>1, <2>2, KnownStays, RowsStaySound DEF QInv
    <2>4. \A f \in Files : sig'[2][f] = archive[f].content
      BY <2>1 DEF Signature
    <2>5. WorkerInv'
      BY <1>1, <2>1, <2>4 DEF QInv, WorkerInv
    <2> QED
      BY <2>2, <2>3, <2>5 DEF QInv
  <1>3. CASE ~ArchiveVerified
    <2>1. Answer(Refused)
      BY <1>3 DEF VerifyArchive
    <2> QED
      BY <1>1, <2>1, OnlyAnswers
  <1> QED
    BY <1>2, <1>3

\* The row for the Markdown exists before the row of the capture completes.
LEMMA HandOverQuiet ==
  ASSUME QInv, TInv', HandOver PROVE QInv'
  <1> USE AnswerFields
  <1>1. /\ pc = "handing" /\ pc # "idle"
        /\ UNCHANGED <<sourceVars, manifest, archive, parseVars, export, index>>
        /\ tasks' = Enqueued("markdown_delivery", <<"markdown", sig>>, "attachment_inventory")
        /\ Answer(Completed)
    BY DEF HandOver, archiveVars, exportVars
  <1> DEFINE key == <<"markdown", sig>>
  <1>2. key \in Key /\ tasks \in Seq(Task)
    BY DEF QInv, TInv, WorkerOK, QueueOK, Key
  <1>3. /\ \A i \in DOMAIN tasks : i \in DOMAIN tasks' /\ tasks'[i] = tasks[i]
        /\ \A i \in DOMAIN tasks' \ DOMAIN tasks :
               /\ tasks'[i].key = key /\ tasks'[i].row.stage = "attachment_inventory"
               /\ tasks'[i].row.status = "queued"
        /\ \E i \in DOMAIN tasks' : tasks'[i].key = key
    <2>1. "attachment_inventory" \in CORE_PIPELINE_STAGES
      BY DEF CORE_PIPELINE_STAGES
    <2>2. tasks' = Enqueued("markdown_delivery", key, "attachment_inventory")
      BY <1>1
    <2> HIDE DEF key
    <2> QED
      BY <1>2, <2>1, <2>2, EnqueuedRows
  <1>4. Grows /\ FilesInv' /\ ParsesInv' /\ ExportsInv'
    BY <1>1, <1>3, FactsKept
  <1>5. \A f \in Files : sig[2][f] = archive[f].content
    BY <1>1 DEF QInv, WorkerInv
  <1>6. RowsInv'
    <2>1. \A f \in Files : sig[2][f] # NoContent => f \in Verified'
      BY <1>1, <1>5 DEF QInv, FilesInv, Verified
    <2>3. ASSUME NEW k \in Key, NEW st \in Stages, k = key, st = "attachment_inventory"
          PROVE  Ready(k, st)'
      <3>1. k[1] = "markdown" /\ k[2] = sig
        BY <2>3
      <3>2. Covered(k[2])'
        <4>1. \A f \in Files : k[2][2][f] # NoContent => f \in Verified'
          BY <2>1, <3>1
        <4> QED
          BY <4>1 DEF Covered
      <3> QED
        BY <2>3, <3>1, <3>2 DEF Ready, MarkdownStages
    <2> QED
      BY <1>3, <1>4, <2>3, RowsAdded DEF QInv
  <1>7. WorkerInv'
    <2>1. tasks'[cur] = tasks[cur]
      BY <1>1, <1>3, RowOfWorker DEF QInv
    <2>2. ASSUME NEW k \in Key, k = tasks[cur].key PROVE Finished(k)'
      <3>1. Ready(k, "archive_verify")
        BY <1>1, <2>2, RowOfWorkerReady DEF QInv, WorkerInv
      <3>2. k[1] # "markdown" /\ (k[1] = "realtime-done" => Captured(k[2]))
        BY <3>1 DEF Ready, MarkdownStages
      <3>3. k[1] = "realtime-done" => Captured(k[2])'
        BY <1>1, <3>2 DEF Captured
      <3>4. k[1] = "realtime-done" => HandedOver(k[2])'
        <4>1. PICK i \in DOMAIN tasks' : tasks'[i].key = key
          BY <1>3
        <4>2. tasks'[i].key[1] = "markdown" /\ tasks'[i].key[2] = sig
          BY <4>1
        <4>3. k[1] = "realtime-done" =>
                  \A f \in Files : Listings[k[2]][f] # NoContent => sig[2][f] # NoContent
          BY <1>5, <3>2 DEF Captured
        <4> QED
          BY <4>2, <4>3 DEF HandedOver
      <3> QED
        BY <3>2, <3>3, <3>4 DEF Finished
    <2> QED
      BY <1>1, <2>1, <2>2, Answered DEF QInv
  <1>8. KnownInv'
    BY <1>1, <1>4, KnownStays DEF QInv
  <1> QED
    BY <1>4, <1>6, <1>7, <1>8 DEF QInv

LEMMA InventoryQuiet ==
  ASSUME QInv, TInv', Inventory PROVE QInv'
  <1> USE AnswerFields
  <1>1. /\ pc # "idle" /\ tasks[cur].row.stage = "attachment_inventory"
        /\ UNCHANGED <<sourceVars, manifest, made, products, export, index, tasks>>
    BY DEF Inventory, At, exportVars
  <1>2. /\ "attachment_inventory" \in MarkdownStages
        /\ "parse" \in Stages /\ "classify" \in Stages
    BY DEF MarkdownStages, Stages, CORE_PIPELINE_STAGES
  <1>3. CASE UNCHANGED <<archive, job, artifact>>
               /\ \/ Answer(Completed) /\ manifest.excluded
                  \/ Answer(Failed(FALSE, TRUE, "other"))
    BY <1>1, <1>3, OnlyAnswers DEF parseVars
  <1> DEFINE fresh == {f \in Files : FirstJob(f) \/ ProductGone(f)}
             next == IF Verified = {} THEN "classify" ELSE "parse"
  <1>4. CASE /\ job' = [f \in Files |-> IF f \in fresh THEN "queued" ELSE job[f]]
             /\ archive' = [f \in Files |-> IF f \in fresh THEN [archive[f] EXCEPT !.object = archive[f].content]
                                            ELSE archive[f]]
             /\ artifact' = [c \in Contents |-> IF \E f \in fresh : ProductGone(f) /\ made[f] = c
                                                THEN [artifact[c] EXCEPT !.life = "superseded"] ELSE artifact[c]]
             /\ Answer(Advanced(next))
    <2>1. \A f \in fresh : f \in Files /\ job[f] = "none" /\ ~ProductGone(f)
      BY DEF FirstJob, ProductGone, QInv, ParsesInv
    <2> HIDE DEF fresh
    <2>2. artifact' = artifact
      BY <1>4, <2>1 DEF QInv, TInv, ParseOK
    <2>3. ASSUME NEW f \in Files
          PROVE  /\ archive'[f].status = archive[f].status
                 /\ archive'[f].content = archive[f].content
                 /\ archive'[f].object \in {archive[f].object, archive[f].content}
                 /\ job'[f] \in {job[f], "queued"}
                 /\ job'[f] # job[f] => job[f] = "none"
                 /\ job[f] # "none" => archive'[f].object = archive[f].object
      <3>1. archive[f] \in [status : {"absent", "failed", "verified"}, content : Bytes, object : Bytes]
        BY DEF QInv, TInv, ArchiveOK
      <3> QED
        BY <1>4, <2>1, <3>1
    <2>4. FilesInv'
      BY <1>1, <2>3 DEF sourceVars, FilesInv, QInv
    <2>5. ParsesInv'
      BY <1>1, <2>2, <2>3 DEF ParsesInv, QInv
    <2>6. ExportsInv'
      BY <1>1, <2>3 DEF ExportsInv, QInv
    <2>7. Grows
      <3>1. \A f \in Files : HasArtifact(f) => HasArtifact(f)'
        <4> SUFFICES ASSUME NEW f \in Files, archive[f].object # NoContent
                     PROVE  archive'[f].object = archive[f].object
          BY <2>2 DEF HasArtifact, Valid
        <4> QED
          BY <2>3 DEF QInv, FilesInv
      <3>2. shown <= shown' /\ kind' = kind
        BY <1>1 DEF QInv, TInv, SourceOK, sourceVars
      <3>3. \A f \in Files : Gone(f) => Gone(f)'
        BY <2>3, <3>2 DEF Gone
      <3> QED
        BY <1>1, <2>3, <3>1, <3>2, <3>3 DEF Grows, Verified
    <2>8. KnownInv' /\ RowsInv'
      BY <1>1, <2>7, KnownStays, RowsStaySound DEF QInv
    <2>9. WorkerInv'
      <3>1. ASSUME NEW k \in Key, k = tasks[cur].key PROVE Ready(k, next)
        <4>1. Ready(k, "attachment_inventory")
          BY <1>1, <3>1, RowOfWorkerReady
        <4>2. CASE Verified = {}
          BY <1>2, <4>1, <4>2, ReadyForNext DEF Covered, Prepared, QInv
        <4>3. CASE Verified # {}
          BY <1>2, <4>1, <4>3, ReadyForNext DEF QInv
        <4> QED
          BY <4>2, <4>3
      <3>2. PICK st \in Stages : st = next
        BY <1>2
      <3>3. Answer(Advanced(st)) /\ \A k \in Key : k = tasks[cur].key => Ready(k, st)
        BY <1>4, <3>1, <3>2
      <3> HIDE DEF next
      <3>4. \A k \in Key : k = tasks[cur].key => Ready(k, st)'
        BY <2>7, <3>3, StaysReady DEF QInv
      <3> QED
        BY <1>1, <3>3, <3>4, Answered DEF QInv
    <2> QED
      BY <2>4, <2>5, <2>6, <2>8, <2>9 DEF QInv
  <1> QED
    BY <1>3, <1>4 DEF Inventory

LEMMA ParseQuiet ==
  ASSUME QInv, TInv', "garbled" \notin Kinds, NEW f \in Files, ParseOne(f)
  PROVE  QInv'
  <1> USE AnswerFields
  <1>1. /\ pc # "idle" /\ tasks[cur].row.stage = "parse" /\ job[f] = "queued"
        /\ UNCHANGED <<sourceVars, manifest, archive, export, index, tasks>>
    BY DEF ParseOne, At, exportVars, archiveVars
  <1>2. /\ job' = [job EXCEPT ![f] = ParseResult(f).job]
        /\ Answer(Failed(FALSE, TRUE, "other")) \/ Answer(Advanced("parse"))
    BY DEF ParseOne
  <1>3. archive[f].object \in Contents /\ archive[f].object = archive[f].content
        /\ kind[f] # "garbled"
    BY <1>1 DEF QInv, TInv, JobsHaveObjects, ArchiveOK, SourceOK, FilesInv, Bytes
  <1>4. \A g \in Files : job'[g] = IF g = f THEN ParseResult(f).job ELSE job[g]
    BY <1>2 DEF QInv, TInv, ParseOK
  <1>5. /\ ParsesInv'
        /\ \A c \in Contents : artifact[c].life = "valid" => artifact'[c].life = "valid"
    <2>1. CASE ParseResult(f).job = "completed"
      <3>1. /\ made' = [made EXCEPT ![f] = archive[f].object]
            /\ artifact' = [artifact EXCEPT ![archive[f].object] =
                               [life |-> "valid", body |-> archive[f].content]]
            /\ products' = products \cup {archive[f].object}
        BY <1>3, <2>1 DEF ParseOne
      <3>2. /\ \A g \in Files : made'[g] = IF g = f THEN archive[f].object ELSE made[g]
            /\ \A c \in Contents : artifact'[c] = IF c = archive[f].object
                                                 THEN [life |-> "valid", body |-> archive[f].content]
                                                 ELSE artifact[c]
        BY <3>1 DEF QInv, TInv, ParseOK
      <3>3. \A g \in Files : job'[g] = "completed" => made'[g] = archive'[g].object /\ made'[g] \in products'
        BY <1>1, <1>4, <3>1, <3>2 DEF QInv, ParsesInv
      <3>4. \A c \in Contents : artifact'[c].life = "none" \/ (artifact'[c].life = "valid" /\ artifact'[c].body = c)
        BY <1>3, <3>2 DEF QInv, ParsesInv
      <3>5. \A c \in products' : artifact'[c].life = "valid"
        BY <1>3, <3>1, <3>2 DEF QInv, ParsesInv, TInv, ParseOK
      <3> QED
        BY <3>2, <3>3, <3>4, <3>5 DEF ParsesInv
    <2>2. CASE ParseResult(f).job # "completed"
      <3>1. UNCHANGED <<made, artifact, products>>
        BY <2>2 DEF ParseOne
      <3> QED
        BY <1>1, <1>4, <2>2, <3>1 DEF QInv, ParsesInv
    <2> QED
      BY <2>1, <2>2
  <1>6. FilesInv' /\ ExportsInv'
    BY <1>1 DEF QInv, FilesInv, ExportsInv, sourceVars
  <1>7. Grows
    <2>1. \A g \in Files : HasArtifact(g) => HasArtifact(g)'
      <3> SUFFICES ASSUME NEW g \in Files, HasArtifact(g) PROVE HasArtifact(g)'
        OBVIOUS
      <3>1. archive[g].object \in Contents
        BY DEF HasArtifact, QInv, TInv, ArchiveOK, Bytes
      <3> QED
        BY <1>1, <1>5, <3>1 DEF HasArtifact, Valid
    <2>2. \A g \in Files : Gone(g) => Gone(g)'
      BY <1>1, <1>4 DEF Gone, sourceVars
    <2>3. shown <= shown'
      BY <1>1 DEF QInv, TInv, SourceOK, sourceVars
    <2> QED
      BY <1>1, <2>1, <2>2, <2>3 DEF Grows, Verified
  <1>8. KnownInv' /\ RowsInv'
    BY <1>1, <1>7, KnownStays, RowsStaySound DEF QInv
  <1>9. WorkerInv'
    <2>1. "parse" \in Stages
      BY DEF Stages, CORE_PIPELINE_STAGES
    <2>2. \A k \in Key : k = tasks[cur].key => Ready(k, "parse")'
      BY <1>1, <1>7, <2>1, RowOfWorkerReady, StaysReady DEF QInv
    <2> QED
      BY <1>1, <1>2, <2>2, Answered DEF QInv
  <1> QED
    BY <1>5, <1>6, <1>8, <1>9 DEF QInv

LEMMA PublishQuiet ==
  ASSUME QInv, TInv', Publish PROVE QInv'
  <1> USE AnswerFields
  <1>1. /\ pc # "idle" /\ tasks[cur].row.stage = "classify"
        /\ UNCHANGED <<sourceVars, manifest, archive, parseVars, index, tasks>>
    BY DEF Publish, archiveVars, QInv, WorkerInv
  <1>2. /\ "classify" \in MarkdownStages
        /\ "attachment_inventory" \in Stages /\ "index_publish" \in Stages
    BY DEF MarkdownStages, Stages, CORE_PIPELINE_STAGES
  <1> DEFINE written == {f \in {g \in Verified : HasArtifact(g)} : ~UpToDate(f)}
  <1>3. CASE UNCHANGED export /\ Answer(Advanced("attachment_inventory"))
    BY <1>1, <1>2, <1>3, OnlyAnswers, ReadyForNext DEF QInv
  <1>4. CASE /\ export' = [f \in Files |->
                   IF f \in written
                   THEN [status |-> IF kind[f] = "lossy" THEN "failed" ELSE "success",
                         content |-> archive[f].content,
                         body |-> artifact[archive[f].object].body]
                   ELSE export[f]]
             /\ Answer(Advanced("index_publish"))
    <2>1. ASSUME NEW f \in Files, HasArtifact(f)
          PROVE  /\ archive[f].content # NoContent
                 /\ artifact[archive[f].object].body = archive[f].content
      BY <2>1 DEF HasArtifact, Valid, QInv, FilesInv, ParsesInv, TInv, ArchiveOK, Bytes
    <2>2. ASSUME NEW f \in Files
          PROVE  /\ export[f].status # "none" => export'[f].status # "none"
                 /\ f \in Verified /\ HasArtifact(f) => export'[f].status # "none"
      BY <1>4 DEF UpToDate
    <2>3. ExportsInv'
      <3> SUFFICES ASSUME NEW f \in Files, export'[f].status # "none"
                   PROVE  /\ archive[f].content # NoContent
                          /\ export'[f].content = archive[f].content
                          /\ export'[f].body = archive[f].content
        BY <1>1 DEF ExportsInv
      <3>1. CASE f \in written
        <4>1. HasArtifact(f)
          BY <3>1
        <4> QED
          BY <1>4, <2>1, <3>1, <4>1
      <3>2. CASE f \notin written
        BY <1>4, <3>2 DEF QInv, ExportsInv
      <3> QED
        BY <3>1, <3>2
    <2>4. FilesInv' /\ ParsesInv'
      BY <1>1 DEF QInv, FilesInv, ParsesInv, sourceVars, parseVars
    <2>5. Grows
      <3>1. shown <= shown'
        BY <1>1 DEF QInv, TInv, SourceOK, sourceVars
      <3> QED
        BY <1>1, <2>2, <3>1 DEF Grows, Verified, HasArtifact, Valid, Gone, sourceVars, parseVars
    <2>6. KnownInv' /\ RowsInv'
      BY <1>1, <2>5, KnownStays, RowsStaySound DEF QInv
    <2>7. ASSUME NEW k \in Key, k = tasks[cur].key PROVE Ready(k, "index_publish")'
      <3>1. Ready(k, "classify")
        BY <1>1, <2>7, RowOfWorkerReady
      <3>2. k[1] # "realtime-done" /\ (k[1] = "markdown" => Covered(k[2]) /\ Prepared(k[2]))
        BY <3>1 DEF Ready, DownloadStages
      <3>3. ASSUME NEW s, Covered(s), Prepared(s) PROVE Written(s)' /\ Covered(s)'
        <4>1. \A f \in Files : s[2][f] # NoContent => export'[f].status # "none" \/ Gone(f)'
          BY <1>1, <2>2, <3>3 DEF Covered, Prepared, Gone, sourceVars, parseVars
        <4>2. \A f \in Files : s[2][f] # NoContent => f \in Verified'
          BY <1>1, <3>3 DEF Covered, Verified
        <4> QED
          BY <4>1, <4>2 DEF Written, Covered
      <3> QED
        BY <3>2, <3>3 DEF Ready, MarkdownStages
    <2>8. WorkerInv'
      BY <1>1, <1>4, <2>7, Answered DEF QInv
    <2> QED
      BY <2>3, <2>4, <2>6, <2>8 DEF QInv
  <1> QED
    BY <1>3, <1>4 DEF Publish

\* The worker hands its row back.
LEMMA HandsBack ==
  ASSUME QInv, TInv', pc # "idle", pc' = "idle",
         UNCHANGED <<sourceVars, manifest, archive, parseVars, export, index>>,
         NEW r \in Row, tasks' = [tasks EXCEPT ![cur].row = r],
         \A k \in Key, st \in Stages : k = tasks[cur].key /\ st = r.stage =>
             /\ Ready(k, st)
             /\ r.status = "completed" /\ ~manifest.excluded => Finished(k)
  PROVE  QInv'
  <1>1. tasks \in Seq(Task) /\ cur \in DOMAIN tasks
    BY RowOfWorker DEF QInv, TInv, QueueOK
  <1>2. /\ DOMAIN tasks' = DOMAIN tasks
        /\ tasks'[cur].row = r
        /\ \A i \in DOMAIN tasks : tasks'[i].key = tasks[i].key
        /\ \A i \in DOMAIN tasks \ {cur} : tasks'[i] = tasks[i]
    BY <1>1, RowWritten
  <1>3. Grows /\ FilesInv' /\ ParsesInv' /\ ExportsInv'
    BY <1>2, FactsKept
  <1>4. KnownInv'
    BY <1>3, KnownStays DEF QInv
  <1>5. RowsInv'
    <2> SUFFICES ASSUME NEW i \in DOMAIN tasks', i = cur PROVE Sound(i)'
      BY <1>2, <1>3, RowsStaySound DEF QInv
    <2> SUFFICES ASSUME NEW k \in Key, NEW st \in Stages,
                        k = tasks'[i].key, st = tasks'[i].row.stage
                 PROVE  /\ Ready(k, st)'
                        /\ tasks'[i].row.status = "completed" /\ ~manifest'.excluded => Finished(k)'
      BY DEF Sound
    <2> QED
      BY <1>1, <1>2, <1>3, StaysReady DEF QInv
  <1>6. WorkerInv'
    BY DEF WorkerInv
  <1> QED
    BY <1>3, <1>4, <1>5, <1>6 DEF QInv

LEMMA ReportQuiet ==
  ASSUME QInv, TInv', Report PROVE QInv'
  <1>1. /\ pc = "reporting" /\ pc # "idle" /\ pc' = "idle"
        /\ UNCHANGED <<sourceVars, manifest, archive, parseVars, export, index>>
    BY DEF Report, Idle, archiveVars, exportVars
  <1> DEFINE row == tasks[cur].row
             r == ResultRow(row, row, out, FALSE)
  <1>2. row \in Row /\ out \in Outcome /\ out.op # "none"
    BY <1>1, RowOfWorker DEF QInv, TInv, WorkerOK, WorkerInv
  <1>3. r \in Row
    <2>1. r = ResultRow(row, [stage |-> row.stage, attempts |-> row.attempts], out, FALSE)
      BY DEF ResultRow
    <2>2. [stage |-> row.stage, attempts |-> row.attempts] \in [stage : Stages, attempts : 0..MaxAttempts]
      BY <1>2 DEF Row
    <2> HIDE DEF row, r
    <2> QED
      BY <1>2, <2>1, <2>2, ResultRowTyped
  <1>4. /\ out.op = "advance" => r.stage = out.stage /\ r.status = "queued"
        /\ out.op = "complete" => r.stage = row.stage
        /\ out.op = "fail" => r.stage = row.stage /\ r.status # "completed"
    <2> HIDE DEF row
    <2> QED
      BY <1>2 DEF ResultRow, AdvanceRow, CompleteRow, FailRow, Waiting, Row
  <1>5. out.op \in {"advance", "complete", "fail"}
    BY <1>2 DEF Outcome
  <1>6. ASSUME NEW k \in Key, NEW st \in Stages, k = tasks[cur].key, st = r.stage
        PROVE  /\ Ready(k, st)
               /\ r.status = "completed" /\ ~manifest.excluded => Finished(k)
    <2>1. Ready(k, row.stage)
      BY <1>1, <1>6, RowOfWorkerReady
    <2>2. /\ out.op = "advance" /\ st = out.stage => Ready(k, st)
          /\ out.op = "complete" /\ ~manifest.excluded => Finished(k)
      <3>1. out.stage \in Stages
        BY <1>2 DEF Outcome, Stages
      <3> QED
        BY <1>1, <1>6, <3>1 DEF QInv, WorkerInv
    <2> HIDE DEF r, row
    <2> QED
      BY <1>4, <1>5, <1>6, <2>1, <2>2
  <1>7. tasks' = [tasks EXCEPT ![cur].row = r]
    BY DEF Report
  <1> HIDE DEF r
  <1> QED
    BY <1>1, <1>3, <1>6, <1>7, HandsBack

LEMMA CrashQuiet ==
  ASSUME QInv, TInv', Crash PROVE QInv'
  <1>1. /\ pc # "idle" /\ pc' = "idle"
        /\ UNCHANGED <<sourceVars, manifest, archive, parseVars, export, index>>
        /\ tasks' = [tasks EXCEPT ![cur].row = RecoverRow(tasks[cur].row)]
    BY DEF Crash, Idle, archiveVars, exportVars
  <1>2. /\ RecoverRow(tasks[cur].row) \in Row
        /\ RecoverRow(tasks[cur].row).status = "queued"
        /\ RecoverRow(tasks[cur].row).stage = tasks[cur].row.stage
    BY <1>1, RowOfWorker, RowUpdatesTyped, RowUpdateFields DEF QInv
  <1> QED
    BY <1>1, <1>2, RowOfWorkerReady, HandsBack

\* The parse jobs that failed start over; nothing is lost by it.
LEMMA ResetKeepsFacts ==
  ASSUME QInv, UNCHANGED <<sourceVars, manifest, archive, made, artifact, products, export, index>>,
         job' \in {job, JobsReset},
         \A i \in DOMAIN tasks : i \in DOMAIN tasks' /\ tasks'[i].key = tasks[i].key
  PROVE  Grows /\ FilesInv' /\ ParsesInv' /\ ExportsInv' /\ KnownInv'
  <1>1. \A f \in Files : \/ job'[f] = job[f]
                         \/ job[f] = "failed" /\ job'[f] = "queued"
    BY DEF JobsReset
  <1>2. ParsesInv'
    BY <1>1 DEF QInv, ParsesInv
  <1>3. FilesInv' /\ ExportsInv'
    BY DEF QInv, FilesInv, ExportsInv, sourceVars
  <1>4. Grows
    <2>1. shown <= shown'
      BY DEF QInv, TInv, SourceOK, sourceVars
    <2>2. \A f \in Files : Gone(f) => Gone(f)'
      BY <1>1 DEF Gone, sourceVars
    <2> QED
      BY <2>1, <2>2 DEF Grows, Verified, HasArtifact, Valid
  <1> QED
    BY <1>2, <1>3, <1>4, KnownStays DEF QInv

\* A row that nobody works on is queued again.
LEMMA Restarted ==
  ASSUME QInv, TInv', UNCHANGED workerVars,
         UNCHANGED <<sourceVars, manifest, archive, made, artifact, products, export, index>>,
         job' \in {job, JobsReset},
         NEW j \in DOMAIN tasks, tasks[j].row.status # "running",
         NEW r \in Row, r.status = "queued", tasks' = [tasks EXCEPT ![j].row = r],
         \A k \in Key : Ready(k, tasks[j].row.stage) => Ready(k, r.stage)
  PROVE  QInv'
  <1>1. tasks \in Seq(Task)
    BY DEF QInv, TInv, QueueOK
  <1>2. /\ DOMAIN tasks' = DOMAIN tasks
        /\ tasks'[j].row = r
        /\ \A i \in DOMAIN tasks : tasks'[i].key = tasks[i].key
        /\ \A i \in DOMAIN tasks \ {j} : tasks'[i] = tasks[i]
    BY <1>1, RowWritten
  <1>3. Grows /\ FilesInv' /\ ParsesInv' /\ ExportsInv' /\ KnownInv'
    BY <1>2, ResetKeepsFacts
  <1>4. RowsInv'
    <2> SUFFICES ASSUME NEW i \in DOMAIN tasks', i = j PROVE Sound(i)'
      BY <1>2, <1>3, RowsStaySound DEF QInv
    <2>1. Sound(j) /\ tasks[j].row.stage \in Stages
      BY <1>1, RowTyped DEF QInv, RowsInv, Row
    <2> SUFFICES ASSUME NEW k \in Key, NEW st \in Stages,
                        k = tasks'[i].key, st = tasks'[i].row.stage
                 PROVE  Ready(k, st)'
      BY <1>2 DEF Sound
    <2>2. Ready(k, st)
      BY <1>2, <2>1 DEF Sound
    <2> QED
      BY <1>3, <2>2, StaysReady DEF QInv
  <1>5. WorkerInv'
    <2>1. pc # "idle" => cur # j /\ cur \in DOMAIN tasks
      BY RowOfWorker DEF QInv, WorkerInv
    <2>2. pc # "idle" => tasks'[cur] = tasks[cur]
      BY <1>2, <2>1
    <2> QED
      BY <1>3, <2>2, WorkerUntouched DEF QInv
  <1> QED
    BY <1>3, <1>4, <1>5 DEF QInv

\* A row that stands for nothing is added, or none is.
LEMMA Added ==
  ASSUME QInv, TInv', UNCHANGED workerVars,
         UNCHANGED <<sourceVars, manifest, archive, made, artifact, products, export, index>>,
         job' \in {job, JobsReset},
         \A i \in DOMAIN tasks : i \in DOMAIN tasks' /\ tasks'[i] = tasks[i],
         \A i \in DOMAIN tasks' \ DOMAIN tasks :
             /\ tasks'[i].row.status # "completed"
             /\ tasks'[i].key[1] \notin {"realtime-done", "markdown"}
  PROVE  QInv'
  <1>1. Grows /\ FilesInv' /\ ParsesInv' /\ ExportsInv' /\ KnownInv'
    BY ResetKeepsFacts
  <1>2. RowsInv'
    BY <1>1, OtherRowsAdded DEF QInv
  <1>3. WorkerInv'
    <2>1. pc # "idle" => tasks'[cur] = tasks[cur]
      BY RowOfWorker DEF QInv
    <2> QED
      BY <1>1, <2>1, WorkerUntouched DEF QInv
  <1> QED
    BY <1>1, <1>2, <1>3 DEF QInv

LEMMA ApplyQuiet ==
  ASSUME QInv, TInv', Apply PROVE QInv'
  <1>1. /\ UNCHANGED <<sourceVars, manifest, archive, made, artifact, products, export, index>>
        /\ UNCHANGED workerVars /\ job' \in {job, JobsReset} /\ tasks \in Seq(Task)
    BY DEF Apply, archiveVars, exportVars, QInv, TInv, QueueOK
  <1>2. CASE tasks' = tasks
    BY <1>1, <1>2, Added
  <1>3. CASE \/ tasks' = Enqueued("markdown_delivery", PhaseKey("markdown"), "attachment_inventory")
             \/ tasks' = Enqueued("realtime_done", PhaseKey("download"), "done_capture_and_archive")
    <2>1. PICK key \in Key, s \in CORE_PIPELINE_STAGES, queue \in {"realtime_done", "markdown_delivery"} :
              tasks' = Enqueued(queue, key, s) /\ key[1] \notin {"realtime-done", "markdown"}
      <3>1. /\ PhaseKey("markdown") \in Key /\ PhaseKey("markdown")[1] \notin {"realtime-done", "markdown"}
            /\ PhaseKey("download") \in Key /\ PhaseKey("download")[1] \notin {"realtime-done", "markdown"}
        BY DEF PhaseKey, Key
      <3> QED
        BY <1>3, <3>1 DEF CORE_PIPELINE_STAGES
    <2>2. /\ \A i \in DOMAIN tasks : i \in DOMAIN tasks' /\ tasks'[i] = tasks[i]
          /\ \A i \in DOMAIN tasks' \ DOMAIN tasks :
                 tasks'[i].key = key /\ tasks'[i].row.status = "queued"
      BY <1>1, <2>1, EnqueuedRows
    <2> QED
      BY <1>1, <2>1, <2>2, Added
  <1>4. CASE /\ tasks' = [tasks EXCEPT ![plan.row].row = RetryRow(tasks[plan.row].row)]
             /\ ~Active(tasks[plan.row].row)
    <2>1. CASE plan.row \in DOMAIN tasks
      <3>1. PICK j \in DOMAIN tasks : j = plan.row
        BY <2>1
      <3>2. PICK r \in Row : r = RetryRow(tasks[j].row)
        BY <1>1, RowTyped, RowUpdatesTyped
      <3>3. r.status = "queued" /\ r.stage = tasks[j].row.stage
        BY <1>1, <3>2, RowTyped, RowUpdateFields
      <3>4. tasks[j].row.status # "running" /\ tasks' = [tasks EXCEPT ![j].row = r]
        BY <1>4, <3>1, <3>2 DEF Active
      <3> QED
        BY <1>1, <3>3, <3>4, Restarted
    <2>2. CASE plan.row \notin DOMAIN tasks
      BY <1>1, <1>2, <1>4, <2>2, NoSuchRow
    <2> QED
      BY <2>1, <2>2
  <1> QED
    BY <1>2, <1>3, <1>4 DEF Apply

\* The newest row of some stages is one of them.
LEMMA NewestIsOne ==
  ASSUME TInv, NEW stages, Newest(stages) # 0
  PROVE  Newest(stages) \in DOMAIN tasks /\ tasks[Newest(stages)].row.stage \in stages
  <1> DEFINE those == {i \in DOMAIN tasks : tasks[i].row.stage \in stages}
             n == Len(tasks)
             back == {m \in Nat : m <= n /\ n - m \in those}
  <1>1. those # {} /\ those \subseteq 1..n /\ n \in Nat
    BY DEF Newest, TInv, QueueOK
  <1>2. \E i \in those : \A j \in those : j <= i
    <2> HIDE DEF those, n
    <2>1. \A i \in those : n - i \in back /\ n - (n - i) = i
      BY <1>1
    <2>2. back # {} /\ back \subseteq Nat
      BY <1>1, <2>1
    <2>3. PICK m \in back : \A l \in back : <<l, m>> \notin OpToRel(<, Nat)
      <3> HIDE DEF back
      <3> QED
        BY <2>2, NatLessThanWellFounded, WFMin
    <2>4. \A j \in those : j <= n - m
      <3> SUFFICES ASSUME NEW j \in those, n - m < j PROVE FALSE
        BY <1>1
      <3>1. n - j \in back /\ n - j < m /\ n - j \in Nat /\ m \in Nat
        BY <1>1, <2>1
      <3>2. <<n - j, m>> \in OpToRel(<, Nat)
        BY <3>1 DEF OpToRel
      <3> QED
        BY <2>3, <3>1, <3>2
    <2> QED
      BY <2>4
  <1>3. Newest(stages) = CHOOSE i \in those : \A j \in those : j <= i
    BY <1>1 DEF Newest
  <1>4. Newest(stages) \in those
    <2> HIDE DEF those
    <2> QED
      BY <1>2, <1>3
  <1> QED
    BY <1>4

LEMMA RetryMarkdownQuiet ==
  ASSUME QInv, TInv', RetryMarkdown PROVE QInv'
  <1>1. /\ UNCHANGED <<sourceVars, manifest, archive, made, artifact, products, export, index>>
        /\ UNCHANGED workerVars /\ job' \in {job, JobsReset} /\ tasks \in Seq(Task)
    BY DEF RetryMarkdown, archiveVars, exportVars, QInv, TInv, QueueOK
  <1> DEFINE i == Newest(MarkdownStages)
             restart == [EnqueueRow("attachment_inventory", FALSE) EXCEPT
                            !.recoverable = IF i # 0 /\ tasks[i].row.status = "failed"
                                            THEN tasks[i].row.recoverable ELSE TRUE]
  <1>2. tasks' = IF i # 0 /\ tasks[i].row.status = "failed"
                 THEN [tasks EXCEPT ![i].row = restart]
                 ELSE Append(tasks, [key |-> <<"ui-markdown", requests>>,
                                     queue |-> "markdown_delivery", row |-> restart])
    BY DEF RetryMarkdown
  <1>3. i # 0 => i \in DOMAIN tasks /\ tasks[i].row.stage \in MarkdownStages
    BY NewestIsOne DEF QInv
  <1>4. restart \in Row /\ restart.status = "queued" /\ restart.stage = "attachment_inventory"
    <2> HIDE DEF i
    <2>1. i # 0 => tasks[i].row.recoverable \in BOOLEAN
      BY <1>1, <1>3, RowTyped DEF Row
    <2>2. "attachment_inventory" \in CORE_PIPELINE_STAGES
      BY DEF CORE_PIPELINE_STAGES
    <2>3. PICK b \in BOOLEAN :
              b = IF i # 0 /\ tasks[i].row.status = "failed" THEN tasks[i].row.recoverable ELSE TRUE
      BY <2>1
    <2>4. restart = [EnqueueRow("attachment_inventory", FALSE) EXCEPT !.recoverable = b]
      BY <2>3
    <2> HIDE DEF restart
    <2> QED
      BY <2>2, <2>4, NewRows
  <1> HIDE DEF i, restart
  <1>5. CASE i # 0 /\ tasks[i].row.status = "failed"
    <2>1. PICK j \in DOMAIN tasks : j = i
      BY <1>3, <1>5
    <2>2. PICK r \in Row : r = restart
      BY <1>4
    <2>3. \A k \in Key : Ready(k, tasks[j].row.stage) => Ready(k, r.stage)
      BY <1>3, <1>4, <1>5, <2>1, <2>2, ReadyForNext DEF QInv
    <2>4. tasks' = [tasks EXCEPT ![j].row = r] /\ tasks[j].row.status # "running" /\ r.status = "queued"
      BY <1>2, <1>4, <1>5, <2>1, <2>2
    <2> QED
      BY <1>1, <2>3, <2>4, Restarted
  <1>6. CASE ~(i # 0 /\ tasks[i].row.status = "failed")
    <2> DEFINE t == [key |-> <<"ui-markdown", requests>>, queue |-> "markdown_delivery", row |-> restart]
    <2>1. t \in Task /\ t.key[1] = "ui-markdown" /\ t.row.status = "queued"
      BY <1>4 DEF Task, Key, QInv, TInv, QueueOK
    <2>2. tasks' = Append(tasks, t)
      BY <1>2, <1>6
    <2> HIDE DEF t
    <2>3. /\ \A l \in DOMAIN tasks : l \in DOMAIN tasks' /\ tasks'[l] = tasks[l]
          /\ \A l \in DOMAIN tasks' \ DOMAIN tasks : tasks'[l] = t
      BY <1>1, <2>1, <2>2, RowAdded
    <2> QED
      BY <1>1, <2>1, <2>3, Added
  <1> QED
    BY <1>5, <1>6

LEMMA ConsoleQuiet ==
  ASSUME QInv, TInv', RetryArchive \/ \E queued \in BOOLEAN : Decide(queued) PROVE QInv'
  <1>1. /\ UNCHANGED <<sourceVars, manifest, archive, job, made, artifact, products, export, index>>
        /\ UNCHANGED workerVars /\ tasks \in Seq(Task) /\ requests \in Nat
    BY DEF RetryArchive, Decide, archiveVars, parseVars, exportVars, QInv, TInv, QueueOK
  <1>2. \/ tasks' = tasks
        \/ \E t \in Task : /\ tasks' = Append(tasks, t) /\ t.row.status = "queued"
                           /\ t.key[1] \in {"ui-archive", "manual-classification"}
    <2>1. ASSUME NEW head \in {"ui-archive", "manual-classification"},
                 NEW queue \in {"realtime_done", "markdown_delivery"}, NEW s \in CORE_PIPELINE_STAGES
          PROVE  LET t == [key |-> <<head, requests>>, queue |-> queue, row |-> EnqueueRow(s, FALSE)]
                 IN  t \in Task /\ t.row.status = "queued" /\ t.key[1] = head
      BY <1>1, NewRows DEF Task, Key
    <2>2. {"done_capture_and_archive", "classify"} \subseteq CORE_PIPELINE_STAGES
      BY DEF CORE_PIPELINE_STAGES
    <2>3. CASE RetryArchive
      <3>1. tasks' = Append(tasks, [key |-> <<"ui-archive", requests>>, queue |-> "realtime_done",
                                    row |-> EnqueueRow("done_capture_and_archive", FALSE)])
        BY <2>3 DEF RetryArchive
      <3> QED
        BY <2>1, <2>2, <3>1
    <2>4. ASSUME NEW queued \in BOOLEAN, Decide(queued), tasks' # tasks
          PROVE  \E t \in Task : /\ tasks' = Append(tasks, t) /\ t.row.status = "queued"
                                 /\ t.key[1] \in {"ui-archive", "manual-classification"}
      <3>1. tasks' = Append(tasks, [key |-> <<"manual-classification", requests>>, queue |-> "markdown_delivery",
                                    row |-> EnqueueRow("classify", FALSE)])
        BY <2>4 DEF Decide
      <3> QED
        BY <2>1, <2>2, <3>1
    <2> QED
      BY <2>3, <2>4
  <1>3. CASE tasks' = tasks
    BY <1>1, <1>3, Added
  <1>4. ASSUME NEW t \in Task, tasks' = Append(tasks, t), t.row.status = "queued",
               t.key[1] \in {"ui-archive", "manual-classification"}
        PROVE  QInv'
    <2>1. /\ \A l \in DOMAIN tasks : l \in DOMAIN tasks' /\ tasks'[l] = tasks[l]
          /\ \A l \in DOMAIN tasks' \ DOMAIN tasks : tasks'[l] = t
      BY <1>1, <1>4, RowAdded
    <2> QED
      BY <1>1, <1>4, <2>1, Added
  <1> QED
    BY <1>2, <1>3, <1>4

LEMMA InitQInv == Init => QInv
  <1> SUFFICES ASSUME Init PROVE QInv
    OBVIOUS
  <1>1. FilesInv /\ ExportsInv
    BY DEF Init, FilesInv, ExportsInv, NoFile, NoExport
  <1>2. ParsesInv
    BY DEF Init, ParsesInv, NoArtifact
  <1>3. KnownInv /\ RowsInv /\ WorkerInv
    BY DEF Init, KnownInv, RowsInv, WorkerInv
  <1> QED
    BY <1>1, <1>2, <1>3, InitTInv DEF QInv

LEMMA NextQInv ==
  ASSUME ListingsGrow, "garbled" \notin Kinds, "product" \notin Damages,
         QInv, [Next]_vars, [~CaptureFails]_vars
  PROVE  QInv'
  <1>1. TInv'
    BY NextTInv DEF QInv
  <1>2. CASE UNCHANGED vars
    <2>1. /\ UNCHANGED <<sourceVars, manifest, archive, job, made, artifact, products, export, index>>
          /\ UNCHANGED workerVars /\ tasks' = tasks
      BY <1>2 DEF vars, archiveVars, parseVars, exportVars
    <2> QED
      BY <1>1, <2>1, Added
  <1>3. CASE Next /\ ~CaptureFails
    <2>1. CASE HandlerStep
      <3>1. ASSUME NEW failed \in SUBSET Files, NEW deep \in BOOLEAN, EndCapture(failed, deep) PROVE QInv'
        <4>1. failed = {}
          BY <1>3, <3>1 DEF CaptureFails
        <4> QED
          BY <1>1, <3>1, <4>1, CaptureQuiet
      <3> QED
        BY <1>1, <2>1, <3>1, AnswersQuiet, VerifyQuiet, HandOverQuiet, InventoryQuiet,
           ParseQuiet, PublishQuiet, IndexQuiet DEF HandlerStep
    <2>2. CASE OaChanges \/ Exclude \/ Report \/ Damage \/ Converge
      BY <1>1, <2>2, SourceQuiet, ReportQuiet, CrashQuiet, AnswersQuiet, DamageQuiet DEF Damage
    <2>3. CASE Apply \/ RetryMarkdown \/ RetryArchive \/ \E queued \in BOOLEAN : Decide(queued)
      BY <1>1, <2>3, ApplyQuiet, RetryMarkdownQuiet, ConsoleQuiet
    <2>4. CASE (\E mode \in {"hourly", "nightly"} : Scan(mode)) \/ (\E i \in DOMAIN tasks : Claim(i))
      BY <1>1, <2>4, ScanQuiet, ClaimQuiet
    <2> QED
      BY <1>3, <2>1, <2>2, <2>3, <2>4 DEF Next
  <1> QED
    BY <1>2, <1>3

LEMMA QuietFromQInv == QInv => QuietMeansDelivered
  <1> SUFFICES ASSUME QInv, Quiet, ~manifest.excluded
               PROVE  /\ \A f \in Files : Listings[shown][f] # NoContent =>
                             archive[f].content = Listings[shown][f] /\ Settled(f)
                      /\ index # "none"
    BY DEF QuietMeansDelivered
  <1>1. manifest.hash = shown /\ shown # 0 /\ \A i \in DOMAIN tasks : tasks[i].row.status = "completed"
    BY ListingsAssumption DEF Quiet, QInv, TInv, SourceOK, ListingsAssumption
  <1>2. ASSUME NEW i \in DOMAIN tasks, NEW k \in Key, k = tasks[i].key PROVE Finished(k)
    <2>1. tasks[i].row.stage \in Stages
      BY RowTyped DEF QInv, TInv, QueueOK, Row
    <2> QED
      BY <1>1, <1>2, <2>1 DEF QInv, RowsInv, Sound
  <1>3. Captured(shown) /\ HandedOver(shown)
    <2>1. PICK i \in DOMAIN tasks : tasks[i].key = <<"realtime-done", shown>>
      BY <1>1 DEF QInv, KnownInv, Keys
    <2>2. tasks[i].key \in Key
      BY RowTyped DEF QInv, TInv, QueueOK
    <2>3. Finished(<<"realtime-done", shown>>)
      BY <1>2, <2>1, <2>2
    <2> QED
      BY <2>3 DEF Finished
  <1>4. PICK i \in DOMAIN tasks :
            /\ tasks[i].key[1] = "markdown"
            /\ \A f \in Files : Listings[shown][f] # NoContent => tasks[i].key[2][2][f] # NoContent
    BY <1>3 DEF HandedOver
  <1>5. Written(tasks[i].key[2]) /\ index # "none"
    <2>1. PICK k \in Key : k = tasks[i].key
      BY RowTyped DEF QInv, TInv, QueueOK
    <2> QED
      BY <1>2, <1>4, <2>1 DEF Finished
  <1>6. ASSUME NEW f \in Files, Listings[shown][f] # NoContent
        PROVE  archive[f].content = Listings[shown][f] /\ Settled(f)
    <2>1. archive[f].content = Listings[shown][f]
      BY <1>3, <1>6 DEF Captured
    <2>2. export[f].status # "none" \/ Gone(f)
      BY <1>4, <1>5, <1>6 DEF Written
    <2>3. export[f].status \in {"none", "success", "failed"}
      BY DEF QInv, TInv, ExportOK
    <2> QED
      BY <2>1, <2>2, <2>3 DEF Settled, Gone, QInv, ExportsInv
  <1> QED
    BY <1>5, <1>6

\* A done item that everybody takes for done is done: whatever the listings,
\* the scans, the convergence, the console, faults, crashes and losses of
\* originals and documents do in between, as long as OA only adds attachments,
\* every capture gets what it asks for, no text is rejected as garbled and no
\* parse product disappears.
THEOREM QuietDelivered ==
  ASSUME ListingsGrow, "garbled" \notin Kinds, "product" \notin Damages
  PROVE  Spec /\ [][~CaptureFails]_vars => []QuietMeansDelivered
  <1>1. QInv /\ [Next]_vars /\ [~CaptureFails]_vars => QInv'
    BY NextQInv
  <1> QED
    BY InitQInv, QuietFromQInv, <1>1, PTL DEF Spec
=============================================================================
