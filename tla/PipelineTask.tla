---------------------------- MODULE PipelineTask ----------------------------
(***************************************************************************)
(* One row of the table pipeline_tasks and the column updates that         *)
(* ProductionQueue (production_pipeline.py) makes to it.                   *)
(*                                                                         *)
(* Kept: status, stage, lease owner, lease and back-off deadlines relative *)
(* to now, the attempt counter, recoverable, and the error codes that some *)
(* later condition reads.  Progress columns, error texts, time stamps and  *)
(* the PipelineEvent log are never read back by the queue and are left out.*)
(***************************************************************************)
EXTENDS Naturals

CONSTANTS
    MaxAttempts,   \* max_attempts of a row (3, or 5 for a pending item)
    Pids,          \* process ids; lease_owner is "worker-<pid>"
    NoPid          \* lease_owner IS NULL

ASSUME MaxAttemptsAssumption == MaxAttempts \in Nat \ {0}
ASSUME NoPidAssumption == NoPid \notin Pids

QueueNames ==
    {"realtime_pending", "realtime_done", "markdown_delivery",
     "historical_done_backfill"}

RealtimeQueues == {"realtime_pending", "realtime_done"}

\* The stages of the three production chains; only these may be executed.
CORE_PIPELINE_STAGES ==
    {"detail_sync", "pending_parse", "pending_summary", "notify_feishu",
     "pending_cleanup", "oa_resync", "done_capture_and_archive",
     "archive_verify", "attachment_inventory", "parse", "source_publish",
     "classify", "index_publish"}

\* Stages that only rows written by older releases, or by
\* enqueue_stale_curation, still carry.
RetiredStages == {"curation", "ollama_extract"}

Stages == CORE_PIPELINE_STAGES \cup RetiredStages

Statuses ==
    {"absent", "queued", "local_queued", "running", "completed", "failed"}

\* "review" is ONLINE_AUDIT_REVIEW_REQUIRED, "retired" is RETIRED_STAGE.
ErrorCodes == {"none", "retired", "review", "other"}

Row ==
    [status      : Statuses,
     stage       : Stages,
     owner       : Pids \cup {NoPid},
     lease       : {"none", "live", "expired"},
     attempts    : 0..MaxAttempts,
     recoverable : BOOLEAN,
     error       : ErrorCodes,
     backoff     : BOOLEAN]

-----------------------------------------------------------------------------
(* Column updates, one operator per ProductionQueue method.                *)

AbsentRow(stage) ==
    [status |-> "absent", stage |-> stage, owner |-> NoPid, lease |-> "none",
     attempts |-> 0, recoverable |-> TRUE, error |-> "none", backoff |-> FALSE]

\* The status a waiting row goes to: a local_delivery payload is parked in a
\* status that claim() does not select.
Waiting(local) == IF local THEN "local_queued" ELSE "queued"

EnqueueRow(stage, local) == [AbsentRow(stage) EXCEPT !.status = Waiting(local)]

\* attempts is only ever compared with max_attempts, so it saturates there.
Bump(n) == IF n < MaxAttempts THEN n + 1 ELSE n

ClaimRow(row, owner) ==
    [row EXCEPT !.status = "running", !.owner = owner, !.lease = "live",
                !.attempts = Bump(@)]

RecoverRow_KeepsOwner(row) ==
    [row EXCEPT !.status = "queued", !.lease = "none"]

RecoverRow(row) ==
    [row EXCEPT !.status = "queued", !.owner = NoPid, !.lease = "none"]

RetireRow(row) ==
    [row EXCEPT !.status = "failed", !.recoverable = FALSE, !.error = "retired",
                !.backoff = FALSE, !.owner = NoPid, !.lease = "none"]

RetryRow(row) ==
    [row EXCEPT !.status = "queued", !.attempts = 0, !.error = "none",
                !.recoverable = TRUE, !.backoff = FALSE, !.owner = NoPid,
                !.lease = "none"]

AdvanceRow(row, stage, local) ==
    [row EXCEPT !.stage = stage, !.status = Waiting(local), !.attempts = 0,
                !.error = "none", !.backoff = FALSE, !.owner = NoPid,
                !.lease = "none"]

CompleteRow(row) ==
    [row EXCEPT !.status = "completed", !.error = "none", !.backoff = FALSE,
                !.owner = NoPid, !.lease = "none"]

\* Authentication and transient codes are retried without bound, every other
\* recoverable error until the attempts of this stage are used up.
CanRetry(attempts, unbounded, recoverable) ==
    recoverable /\ (unbounded \/ attempts < MaxAttempts)

\* attempts is the value fail() read, which may be older than row.
FailRow(row, attempts, unbounded, recoverable, error, local) ==
    LET retry == CanRetry(attempts, unbounded, recoverable)
    IN  [row EXCEPT !.status = IF retry THEN Waiting(local) ELSE "failed",
                    !.recoverable = recoverable, !.error = error,
                    !.backoff = retry, !.owner = NoPid, !.lease = "none"]

-----------------------------------------------------------------------------
(* The order in which claim() serves waiting rows.                         *)

QUEUE_PRIORITY(queue) ==
    CASE queue = "realtime_pending"         -> 0
      [] queue = "realtime_done"            -> 10
      [] queue = "markdown_delivery"        -> 50
      [] queue = "historical_done_backfill" -> 100

RealtimeDoneStage(queue, stage) ==
    IF queue # "realtime_done" THEN 0
    ELSE CASE stage = "attachment_inventory" -> 1
           [] stage = "parse"                -> 2
           [] stage = "source_publish"       -> 3
           [] stage \in RetiredStages        -> 4
           [] OTHER                          -> 0

HistoryStage(stage) ==
    CASE stage = "attachment_inventory" -> 0
      [] stage = "parse"                -> 1
      [] stage = "source_publish"       -> 2
      [] stage = "curation"             -> 3
      [] stage = "ollama_extract"       -> 4
      [] stage = "notify_feishu"        -> 5
      [] OTHER                          -> 6

\* The sort key before the history wave and the time stamps; each column
\* weighs more than all the later ones together.
ClaimRank(queue, stage) ==
    100 * QUEUE_PRIORITY(queue) + 10 * RealtimeDoneStage(queue, stage)
        + HistoryStage(stage)

-----------------------------------------------------------------------------
(* What executing a stage may report (the _pipeline_* handlers).           *)

\* A handler that hands its row to a stage that is no longer admitted.
Successors_ToRetired(stage) ==
    IF stage = "notify_feishu" THEN {"curation"} ELSE {}

\* The stages a handler may advance its row to.
Successors(stage) ==
    CASE stage = "detail_sync"              -> {"pending_parse"}
      [] stage = "pending_parse"            -> {"pending_parse", "pending_summary"}
      [] stage = "pending_summary"          -> {"notify_feishu"}
      [] stage = "notify_feishu"            -> {"pending_cleanup"}
      [] stage = "done_capture_and_archive" -> {"archive_verify"}
      [] stage = "attachment_inventory"     -> {"parse", "classify"}
      [] stage = "parse"                    -> {"parse", "source_publish"}
      [] stage = "source_publish"           -> {"attachment_inventory", "classify"}
      [] stage = "classify"                 -> {"attachment_inventory", "index_publish"}
      [] OTHER                              -> {}

\* The stages whose handler may complete the row.
MayComplete == RetiredStages \cup
    {"pending_summary", "notify_feishu", "pending_cleanup", "oa_resync",
     "done_capture_and_archive", "archive_verify", "attachment_inventory",
     "classify", "index_publish"}

\* The stages whose handler may fail with recoverable=False.
MayReject ==
    {"detail_sync", "notify_feishu", "pending_cleanup", "oa_resync",
     "done_capture_and_archive", "archive_verify", "source_publish",
     "classify"}

Outcome ==
    [op          : {"none", "advance", "complete", "fail"},
     stage       : CORE_PIPELINE_STAGES,
     unbounded   : BOOLEAN,
     recoverable : BOOLEAN,
     error       : ErrorCodes]

NoOutcome ==
    [op |-> "none", stage |-> "detail_sync", unbounded |-> FALSE,
     recoverable |-> FALSE, error |-> "none"]

Advanced(stage) == [NoOutcome EXCEPT !.op = "advance", !.stage = stage]

Completed == [NoOutcome EXCEPT !.op = "complete"]

Failed(unbounded, recoverable, error) ==
    [NoOutcome EXCEPT !.op = "fail", !.unbounded = unbounded,
                      !.recoverable = recoverable, !.error = error]

\* What the handler of a stage may report; any handler may raise, which is
\* reported as a recoverable failure, transient or not.
HandlerOutcomes(stage) ==
    {Advanced(s) : s \in Successors(stage)}
        \cup {o \in {Completed} : stage \in MayComplete}
        \cup {Failed(u, TRUE, "other") : u \in BOOLEAN}
        \cup {o \in {Failed(FALSE, FALSE, "other")} : stage \in MayReject}

Outcomes_NoDispatchGuard(stage) == HandlerOutcomes(stage)

\* _execute_pipeline_task refuses a retired stage before dispatching it.
Outcomes(stage) ==
    IF stage \in CORE_PIPELINE_STAGES
    THEN HandlerOutcomes(stage)
    ELSE {Failed(FALSE, FALSE, "retired")}

\* The row after the commit of advance, complete or fail; seen is the row that
\* _owned() read.
ResultRow(row, seen, outcome, local) ==
    CASE outcome.op = "advance"  -> AdvanceRow(row, outcome.stage, local)
      [] outcome.op = "complete" -> CompleteRow(row)
      [] outcome.op = "fail"     ->
            FailRow(row, seen.attempts, outcome.unbounded, outcome.recoverable,
                    outcome.error, local)
      [] OTHER                   -> row
=============================================================================
