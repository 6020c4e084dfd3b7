--------------------------- MODULE ProductionQueue ---------------------------
(***************************************************************************)
(* The durable task queue and the processes that work on it: the operation *)
(* worker ("main", at most one, it holds operation-worker.lock), the local *)
(* delivery worker ("local", at most one, it holds local-delivery.lock)    *)
(* and the web console, which enqueues and retries rows of the same SQLite *)
(* table at any time.                                                      *)
(*                                                                         *)
(* Every session reads in autocommit mode and opens its write transaction  *)
(* with the first UPDATE, so a method that reads a row and then writes it  *)
(* is two steps here wherever another process may write in between:        *)
(* recover_abandoned and the ownership check of advance, complete, fail.   *)
(* The local worker's claim runs under BEGIN IMMEDIATE and is one step.    *)
(*                                                                         *)
(* Not here: the historical queue with its audit gate, and the three paths *)
(* that look at a done item before they put one of its rows, neither       *)
(* queued nor running, back to queued (done convergence, retry_markdown_   *)
(* item, retry_source_review).                                             *)
(***************************************************************************)
EXTENDS PipelineTask

CONSTANTS
    Tasks,        \* row ids, one per idempotency key
    NoTask,
    QueueOf,      \* [Tasks -> QueueNames]
    EntryStage,   \* [Tasks -> Stages], the stage a row is created with
    LocalTasks,   \* rows whose payload says local_delivery
    PidReuse,     \* may a restarted process get the pid of a dead owner?
    LeaseExpiry,  \* may a lease run out while its owner is alive?
    MaxCrashes    \* bound on crashes

Roles == {"main", "local"}

ASSUME TasksAssumption == Tasks \subseteq Nat /\ NoTask \notin Tasks
ASSUME QueueOfAssumption == QueueOf \in [Tasks -> QueueNames \ {"historical_done_backfill"}]
ASSUME EntryStageAssumption == EntryStage \in [Tasks -> Stages]
ASSUME LocalTasksAssumption ==
    LocalTasks \subseteq {t \in Tasks : EntryStage[t] \notin RetiredStages}
ASSUME FlagsAssumption == PidReuse \in BOOLEAN /\ LeaseExpiry \in BOOLEAN
ASSUME MaxCrashesAssumption == MaxCrashes \in Nat

VARIABLES
    rows,     \* the table: Tasks -> Row
    pid,      \* Roles -> pid of the running process, NoPid when it is down
    pc,       \* Roles -> where the process is
    cur,      \* Roles -> the claimed row the process works on
    seen,     \* Roles -> stage and attempts of the copy it holds in memory
    out,      \* Roles -> the result it is about to commit
    scan,     \* rows the main worker's recovery has selected
    passes,   \* recovery passes left before the main worker serves
    crashes

vars == <<rows, pid, pc, cur, seen, out, scan, passes, crashes>>

procVars == <<pid, cur, seen, out>>

PCs == {"down", "boot", "recovering", "idle", "claiming", "executing", "writing"}

Local(t) == t \in LocalTasks

LivePids == {pid[r] : r \in Roles} \ {NoPid}

Copy == [stage : Stages, attempts : 0..MaxAttempts]

CopyOf(row) == [stage |-> row.stage, attempts |-> row.attempts]

NoCopy == [stage |-> "detail_sync", attempts |-> 0]

\* _owned(): the row is running and leased to this process.
Holds(r) == rows[cur[r]].status = "running" /\ rows[cur[r]].owner = pid[r]

-----------------------------------------------------------------------------
\* A row of a retired stage can only be one that an older release left behind,
\* here one that had failed and may still be retried.
LegacyRow(stage) ==
    [AbsentRow(stage) EXCEPT !.status = "failed", !.attempts = MaxAttempts,
                             !.error = "other"]

InitialRow(t) ==
    IF EntryStage[t] \in RetiredStages THEN LegacyRow(EntryStage[t])
    ELSE AbsentRow(EntryStage[t])

Init ==
    /\ rows = [t \in Tasks |-> InitialRow(t)]
    /\ pid = [r \in Roles |-> NoPid]
    /\ pc = [r \in Roles |-> "down"]
    /\ cur = [r \in Roles |-> NoTask]
    /\ seen = [r \in Roles |-> NoCopy]
    /\ out = [r \in Roles |-> NoOutcome]
    /\ scan = {}
    /\ passes = 0
    /\ crashes = 0

-----------------------------------------------------------------------------
(* Scanners, the console and other producers.                              *)

\* enqueue(): a known idempotency key changes nothing.
Enqueue(t) ==
    /\ rows[t].status = "absent"
    /\ rows' = [rows EXCEPT ![t] = EnqueueRow(EntryStage[t], Local(t))]
    /\ UNCHANGED <<procVars, pc, scan, passes, crashes>>

Retryable_AnyFinished ==
    {t \in Tasks : rows[t].status \in {"failed", "completed"} /\ rows[t].recoverable}

Retryable_IgnoresRefusal == {t \in Tasks : rows[t].status = "failed"}

Retryable == {t \in Tasks : rows[t].status = "failed" /\ rows[t].recoverable}

\* The console's bulk retry, one UPDATE statement.
RetryFailed ==
    /\ Retryable # {}
    /\ rows' = [t \in Tasks |-> IF t \in Retryable THEN RetryRow(rows[t]) ELSE rows[t]]
    /\ UNCHANGED <<procVars, pc, scan, passes, crashes>>

-----------------------------------------------------------------------------
(* The operation worker.                                                   *)

FreshPid(p) ==
    /\ p \notin LivePids
    /\ PidReuse \/ \A t \in Tasks : rows[t].owner # p

\* `oa worker` recovers once before the loop and run_forever once more;
\* `oa worker --once` and the daily script recover once.
StartMain(p) ==
    /\ pc["main"] = "down"
    /\ FreshPid(p)
    /\ pid' = [pid EXCEPT !["main"] = p]
    /\ pc' = [pc EXCEPT !["main"] = "boot"]
    /\ passes' \in {1, 2}
    /\ UNCHANGED <<rows, cur, seen, out, scan, crashes>>

Abandoned_LeaseOnly(t) == rows[t].status = "running" /\ rows[t].lease # "live"

Abandoned(t) ==
    /\ rows[t].status = "running"
    /\ rows[t].lease # "live" \/ rows[t].owner \notin LivePids

\* recover_abandoned reads the running rows and judges each one ...
ScanAbandoned ==
    /\ pc["main"] = "boot"
    /\ scan' = {t \in Tasks : Abandoned(t)}
    /\ pc' = [pc EXCEPT !["main"] = "recovering"]
    /\ UNCHANGED <<rows, procVars, passes, crashes>>

\* ... and writes the selected ones back by primary key.
RecoverAbandoned ==
    /\ pc["main"] = "recovering"
    /\ rows' = [t \in Tasks |-> IF t \in scan THEN RecoverRow(rows[t]) ELSE rows[t]]
    /\ scan' = {}
    /\ passes' = passes - 1
    /\ pc' = [pc EXCEPT !["main"] = IF passes = 1 THEN "idle" ELSE "boot"]
    /\ UNCHANGED <<procVars, crashes>>

NonCore(t) == rows[t].status = "queued" /\ rows[t].stage \notin CORE_PIPELINE_STAGES

\* retire_non_core_tasks, the transaction before claim()'s own.
RetireNonCore ==
    /\ pc["main"] = "idle"
    /\ rows' = [t \in Tasks |-> IF NonCore(t) THEN RetireRow(rows[t]) ELSE rows[t]]
    /\ pc' = [pc EXCEPT !["main"] = "claiming"]
    /\ UNCHANGED <<procVars, scan, passes, crashes>>

Claimable(t, queues) ==
    /\ rows[t].status = "queued"
    /\ ~rows[t].backoff
    /\ QueueOf[t] \in queues

Rank(t) == ClaimRank(QueueOf[t], rows[t].stage)

\* t comes first: realtime rows of one rank are ordered by updated_at, which is
\* not kept here, every other row by its age.
First(t, queues) ==
    /\ Claimable(t, queues)
    /\ \A u \in Tasks :
          Claimable(u, queues) =>
             \/ Rank(t) < Rank(u)
             \/ Rank(t) = Rank(u) /\ (QueueOf[t] \in RealtimeQueues \/ t <= u)

\* The process takes row t of table at.
Take(r, t, at) ==
    /\ rows' = [at EXCEPT ![t] = ClaimRow(at[t], pid[r])]
    /\ cur' = [cur EXCEPT ![r] = t]
    /\ seen' = [seen EXCEPT ![r] = CopyOf(ClaimRow(at[t], pid[r]))]
    /\ pc' = [pc EXCEPT ![r] = "executing"]
    /\ UNCHANGED <<pid, out, scan, passes, crashes>>

\* claim(): while an online audit job waits, only the realtime queues.
ClaimMain(queues) ==
    /\ pc["main"] = "claiming"
    /\ \E t \in Tasks : First(t, queues) /\ Take("main", t, rows)

ClaimNothing(queues) ==
    /\ pc["main"] = "claiming"
    /\ \A t \in Tasks : ~Claimable(t, queues)
    /\ pc' = [pc EXCEPT !["main"] = "idle"]
    /\ UNCHANGED <<rows, procVars, scan, passes, crashes>>

-----------------------------------------------------------------------------
(* The local delivery worker.                                              *)

StartLocal(p) ==
    /\ pc["local"] = "down"
    /\ FreshPid(p)
    /\ pid' = [pid EXCEPT !["local"] = p]
    /\ pc' = [pc EXCEPT !["local"] = "idle"]
    /\ UNCHANGED <<rows, cur, seen, out, scan, passes, crashes>>

LocalRecovered_AnyRow ==
    [t \in Tasks |->
        IF rows[t].status = "running" /\ rows[t].owner \notin LivePids
        THEN [rows[t] EXCEPT !.status = "local_queued"]
        ELSE rows[t]]

\* Running local rows of a process that is gone wait again; the lease is not
\* looked at and the owner column keeps its old value.
LocalRecovered ==
    [t \in Tasks |->
        IF /\ Local(t)
           /\ rows[t].status = "running"
           /\ rows[t].owner \notin LivePids
        THEN [rows[t] EXCEPT !.status = "local_queued"]
        ELSE rows[t]]

LocalReady(at) == {t \in Tasks : at[t].status = "local_queued" /\ ~at[t].backoff}

\* One BEGIN IMMEDIATE transaction: recover, then take the oldest ready row.
ClaimLocal ==
    /\ pc["local"] = "idle"
    /\ \E t \in LocalReady(LocalRecovered) :
          /\ \A u \in LocalReady(LocalRecovered) : t <= u
          /\ Take("local", t, LocalRecovered)

RecoverLocalOnly ==
    /\ pc["local"] = "idle"
    /\ LocalReady(LocalRecovered) = {}
    /\ rows' = LocalRecovered
    /\ UNCHANGED <<procVars, pc, scan, passes, crashes>>

-----------------------------------------------------------------------------
(* Executing a claimed row, the same code in both workers.                 *)

\* The handler ends in advance, complete or fail, whose _owned() passes.
Finish(r) ==
    /\ pc[r] = "executing"
    /\ Holds(r)
    /\ out' \in {[out EXCEPT ![r] = o] : o \in Outcomes(seen[r].stage)}
    /\ seen' = [seen EXCEPT ![r] = CopyOf(rows[cur[r]])]
    /\ pc' = [pc EXCEPT ![r] = "writing"]
    /\ UNCHANGED <<rows, pid, cur, scan, passes, crashes>>

\* _owned() raises, the error path calls fail(), whose _owned() raises again:
\* the exception leaves the worker loop and the process ends.
LostLease(r) ==
    /\ pc[r] = "executing"
    /\ ~Holds(r)
    /\ pid' = [pid EXCEPT ![r] = NoPid]
    /\ pc' = [pc EXCEPT ![r] = "down"]
    /\ cur' = [cur EXCEPT ![r] = NoTask]
    /\ seen' = [seen EXCEPT ![r] = NoCopy]
    /\ UNCHANGED <<rows, out, scan, passes, crashes>>

\* The UPDATE addresses the row by primary key only.
WriteResult(r) ==
    /\ pc[r] = "writing"
    /\ rows' = [rows EXCEPT ![cur[r]] =
                   ResultRow(rows[cur[r]], seen[r], out[r], Local(cur[r]))]
    /\ out' = [out EXCEPT ![r] = NoOutcome]
    /\ cur' = [cur EXCEPT ![r] = NoTask]
    /\ seen' = [seen EXCEPT ![r] = NoCopy]
    /\ pc' = [pc EXCEPT ![r] = "idle"]
    /\ UNCHANGED <<pid, scan, passes, crashes>>

\* The heartbeat thread renews the lease of a row that is still owned.
Heartbeat(r) ==
    /\ pc[r] \in {"executing", "writing"}
    /\ Holds(r)
    /\ rows[cur[r]].lease = "expired"
    /\ rows' = [rows EXCEPT ![cur[r]].lease = "live"]
    /\ UNCHANGED <<procVars, pc, scan, passes, crashes>>

-----------------------------------------------------------------------------
(* Failures and time.                                                      *)

Crash(r) ==
    /\ pc[r] # "down"
    /\ crashes < MaxCrashes
    /\ crashes' = crashes + 1
    /\ pid' = [pid EXCEPT ![r] = NoPid]
    /\ pc' = [pc EXCEPT ![r] = "down"]
    /\ cur' = [cur EXCEPT ![r] = NoTask]
    /\ out' = [out EXCEPT ![r] = NoOutcome]
    /\ seen' = [seen EXCEPT ![r] = NoCopy]
    /\ scan' = IF r = "main" THEN {} ELSE scan
    /\ passes' = IF r = "main" THEN 0 ELSE passes
    /\ UNCHANGED rows

\* Without LeaseExpiry the heartbeat keeps every lease of a live owner fresh.
LeaseExpires(t) ==
    /\ rows[t].status = "running"
    /\ rows[t].lease = "live"
    /\ LeaseExpiry \/ rows[t].owner \notin LivePids
    /\ rows' = [rows EXCEPT ![t].lease = "expired"]
    /\ UNCHANGED <<procVars, pc, scan, passes, crashes>>

BackoffElapses(t) ==
    /\ rows[t].backoff
    /\ rows' = [rows EXCEPT ![t].backoff = FALSE]
    /\ UNCHANGED <<procVars, pc, scan, passes, crashes>>

-----------------------------------------------------------------------------
QueueFilters == {QueueNames, RealtimeQueues}

MainStep ==
    \/ \E p \in Pids : StartMain(p)
    \/ ScanAbandoned
    \/ RecoverAbandoned
    \/ RetireNonCore
    \/ \E queues \in QueueFilters : ClaimMain(queues)
    \/ \E queues \in QueueFilters : ClaimNothing(queues)

LocalStep ==
    \/ \E p \in Pids : StartLocal(p)
    \/ ClaimLocal
    \/ RecoverLocalOnly

WorkerStep(r) == Finish(r) \/ LostLease(r) \/ WriteResult(r) \/ Heartbeat(r)

Next ==
    \/ \E t \in Tasks : Enqueue(t)
    \/ RetryFailed
    \/ MainStep
    \/ LocalStep
    \/ \E r \in Roles : WorkerStep(r)
    \/ \E r \in Roles : Crash(r)
    \/ \E t \in Tasks : LeaseExpires(t)
    \/ \E t \in Tasks : BackoffElapses(t)

Spec == Init /\ [][Next]_vars

\* Both workers are supervised (systemd Restart=always, the daily-done watcher)
\* and never block for ever between two steps.
Fairness ==
    /\ WF_vars(MainStep)
    /\ WF_vars(LocalStep)
    /\ \A r \in Roles : WF_vars(WorkerStep(r))
    /\ \A t \in Tasks : WF_vars(BackoffElapses(t))

FairSpec == Spec /\ Fairness
-----------------------------------------------------------------------------
(* Properties.                                                             *)

Ordinary == Tasks \ LocalTasks

Busy(r) == pc[r] \in {"executing", "writing"}

\* The variables have the types the code's columns and fields have.
TypeOK ==
    /\ rows \in [Tasks -> Row]
    /\ pid \in [Roles -> Pids \cup {NoPid}]
    /\ pc \in [Roles -> PCs]
    /\ cur \in [Roles -> Tasks \cup {NoTask}]
    /\ seen \in [Roles -> Copy]
    /\ out \in [Roles -> Outcome]
    /\ scan \subseteq Tasks
    /\ passes \in 0..2
    /\ crashes \in 0..MaxCrashes

\* claim, recovery, retry, retirement and the three results keep status and
\* lease_owner in step, whatever the interleaving: a running row always names
\* an owner that recovery can judge, and no queued or finished row names one.
LeaseColumnsAgree ==
    \A t \in Tasks :
        /\ rows[t].status = "running" => rows[t].owner # NoPid
        /\ rows[t].owner # NoPid => rows[t].status \in {"running", "local_queued"}

\* The row the operation worker works on, unless it is a local_delivery row,
\* stays running, leased to it and at the stage it claimed until it commits
\* its result; the local worker never touches it.  Neither recovery, bulk
\* retry, pid reuse nor an expired lease can hand it out a second time, so its
\* result never overwrites another claim and LostLease never ends the worker.
OrdinaryWorkIsExclusive ==
    /\ Busy("main") /\ cur["main"] \in Ordinary =>
          /\ Holds("main")
          /\ rows[cur["main"]].stage = seen["main"].stage
    /\ cur["local"] \notin Ordinary

\* Rows that only the queue's own methods move: those of done items are also put
\* back by the paths this module leaves out.
QueueOnly ==
    {t \in Ordinary : QueueOf[t] = "realtime_pending" \/ EntryStage[t] \in RetiredStages}

\* A completed row of a pending item is never run again by recovery, retry or a
\* late result (complete() is final for the queue).
FinishedStaysFinished ==
    [][\A t \in QueueOnly :
          rows[t].status = "completed" => rows'[t].status = "completed"]_vars

\* docs/web-console-workflows.md:22: an unrecoverable failure cannot be
\* bypassed by the general retry, nor by recovery or restarts.
RefusedStaysRefused ==
    [][\A t \in QueueOnly :
          rows[t].status = "failed" /\ ~rows[t].recoverable =>
              rows'[t].status = "failed" /\ ~rows'[t].recoverable]_vars

\* "Old rows remain in the database for diagnosis, but must never be resumed or
\* executed": a row of a retired stage never advances and never completes, even
\* when a bulk retry requeues it between retirement and claim.
RetiredStageNeverExecutes ==
    \A t \in Tasks :
        EntryStage[t] \in RetiredStages =>
            /\ rows[t].stage = EntryStage[t]
            /\ rows[t].status \in {"queued", "running", "failed"}

Orphaned(t) == rows[t].status = "running" /\ rows[t].owner \notin LivePids

\* A row left running by a process that is gone does not stay so: the restarted
\* worker (or the local worker) takes it back.
AbandonedWorkIsRecovered == \A t \in Tasks : []<>~Orphaned(t)

\* local_delivery_worker.py:1: local delivery is "isolated from legacy OA
\* consumers", so the operation worker never works on a local_delivery row.
LocalWorkStaysLocal == cur["main"] \notin LocalTasks
=============================================================================
