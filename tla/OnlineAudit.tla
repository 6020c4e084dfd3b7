---------------------------- MODULE OnlineAudit ----------------------------
(***************************************************************************)
(* The online audit: a run compares every item of the done manifest with    *)
(* what OA shows, in batches executed by the one operation worker, while    *)
(* the console starts, pauses and resumes runs, the scan discovers items,    *)
(* OA changes and the worker process dies.  An action is one transaction.   *)
(*                                                                          *)
(* The runs are full audits, which read the attachments.  A quick one       *)
(* (inventory_only) walks the same way with the verdict ListedStatus of     *)
(* AuditEvidence; it is never repaired and makes no item safe.              *)
(***************************************************************************)
EXTENDS AuditEvidence, Sequences

CONSTANTS
    Items,       \* rows of the done manifest
    Captures,    \* the attachment sets OA may show for an item
    MaxRuns,     \* bound: runs the console starts
    MaxPauses,   \* bound: pauses the console requests
    MaxChanges,  \* bound: changes of what OA shows
    MaxFaults    \* bound: crashes, busy leases, failed logins and inspections

ASSUME CapturesAssumption == Captures \subseteq (SUBSET Rows) \ {{}}

VARIABLES
    manifest,     \* items the scan has discovered
    online,       \* what OA shows
    local,        \* the verified attachments of the archive
    runs,         \* OnlineAuditRun, each with its OperationJob and its items
    supplements,  \* supplement tasks ever queued, as <<run, item>>
    downloads,    \* those of them not executed yet
    pc,           \* where the operation worker is
    work,         \* the run it executes
    item,         \* the item it inspects
    pauses, changes, faults

world == <<manifest, online, local>>
tasks == <<supplements, downloads>>
worker == <<pc, work, item>>
bounds == <<pauses, changes, faults>>
vars == <<world, runs, tasks, worker, bounds>>

ACTIVE == {"queued", "running", "pause_requested", "paused"}
RunStatuses == ACTIVE \cup {"completed", "failed"}
JobStatuses == {"queued", "running", "paused", "completed", "failed"}
ItemStatuses == {"absent", "pending", "running"} \cup FINAL_ITEM_STATUSES
Pcs == {"down", "ready", "idle", "claimed", "login", "failing", "batch",
        "inspect", "closing", "finalize"}

\* OnlineAuditItem: its status and the evidence of its last comparison.
ItemRow == [status : ItemStatuses, online : SUBSET Rows, local : SUBSET Rows]
Fresh == [status |-> "pending", online |-> {}, local |-> {}]
Absent == [Fresh EXCEPT !.status = "absent"]

\* OnlineAuditRun with the status and access_retry_round of its job.
Run == [status : RunStatuses, pause : BOOLEAN, job : JobStatuses,
        retried : BOOLEAN, items : [Items -> ItemRow]]

TypeOK ==
    /\ manifest \subseteq Items
    /\ online \in [Items -> Captures]
    /\ local \in [Items -> SUBSET Rows]
    /\ runs \in Seq(Run)
    /\ supplements \subseteq (DOMAIN runs) \X Items
    /\ downloads \subseteq supplements
    /\ pc \in Pcs
    /\ pc \notin {"down", "ready", "idle"} => work \in DOMAIN runs
    /\ pc = "inspect" => item \in Items

Newest == Len(runs)
Enrolled(run) == {i \in Items : run.items[i].status # "absent"}
WithStatus(run, S) == {i \in Items : run.items[i].status \in S}

Init ==
    /\ manifest \in SUBSET Items
    /\ online \in [Items -> Captures]
    /\ local \in [Items -> Captures \cup {{}}]
    /\ runs = <<>>
    /\ supplements = {}
    /\ downloads = {}
    /\ pc = "down"
    /\ work = 0
    /\ item \in Items
    /\ pauses = 0
    /\ changes = 0
    /\ faults = 0

-----------------------------------------------------------------------------
(* Outside: the manifest refresh, OA and the console.                       *)

Discover(i) ==
    /\ i \notin manifest
    /\ manifest' = manifest \cup {i}
    /\ UNCHANGED <<online, local, runs, tasks, worker, bounds>>

OaChanges(i) ==
    /\ changes < MaxChanges
    /\ changes' = changes + 1
    /\ online' \in {[online EXCEPT ![i] = c] : c \in Captures \ {online[i]}}
    /\ UNCHANGED <<manifest, local, runs, tasks, worker, pauses, faults>>

NewRun == [status |-> "queued", pause |-> FALSE, job |-> "queued", retried |-> FALSE,
           items |-> [i \in Items |-> IF i \in manifest THEN Fresh ELSE Absent]]

\* Not while an active run has a live job; an orphaned run is closed first.
StartAudit ==
    LET active == {r \in DOMAIN runs : runs[r].status \in ACTIVE}
        last == CHOOSE r \in active : \A s \in active : s <= r
    IN  /\ Len(runs) < MaxRuns
        /\ active # {} => runs[last].job \notin {"queued", "running", "paused"}
        /\ runs' = Append(IF active = {} THEN runs
                          ELSE [runs EXCEPT ![last].status = "failed"], NewRun)
        /\ UNCHANGED <<world, tasks, worker, bounds>>

PauseAudit(r) ==
    /\ pauses < MaxPauses
    /\ pauses' = pauses + 1
    /\ runs[r].status \in {"queued", "running"}
    /\ runs' = [runs EXCEPT ![r] =
                  IF runs[r].job = "queued"
                  THEN [@ EXCEPT !.status = "paused", !.pause = TRUE, !.job = "paused"]
                  ELSE [@ EXCEPT !.status = "pause_requested", !.pause = TRUE]]
    /\ UNCHANGED <<world, tasks, worker, changes, faults>>

Requeued(run) == [run EXCEPT !.status = "queued", !.job = "queued"]

Resumed(run) == [Requeued(run) EXCEPT !.pause = FALSE]

ResumeAudit(r) ==
    /\ runs[r].status \in {"paused", "pause_requested", "failed"}
    /\ runs[r].job # "running"
    /\ runs' = [runs EXCEPT ![r] = Resumed(@)]
    /\ UNCHANGED <<world, tasks, worker, bounds>>

-----------------------------------------------------------------------------
(* The worker process.                                                      *)

Fault == faults < MaxFaults /\ faults' = faults + 1

Crash ==
    /\ Fault
    /\ pc # "down"
    /\ pc' = "down"
    /\ UNCHANGED <<world, runs, tasks, work, item, pauses, changes>>

\* recover_expired: the jobs of the dead process are queued again.
StartWorker ==
    /\ pc = "down"
    /\ pc' = "ready"
    /\ runs' = [r \in DOMAIN runs |->
                  IF runs[r].job = "running" THEN [runs[r] EXCEPT !.job = "queued"]
                  ELSE runs[r]]
    /\ UNCHANGED <<world, tasks, work, item, bounds>>

enroll_new_manifest_items_Restarts(run) ==
    IF manifest \subseteq Enrolled(run) THEN run
    ELSE LET added == [run EXCEPT !.items =
                          [i \in Items |-> IF i \in manifest THEN Fresh ELSE @[i]]]
         IN  IF run.status = "completed" THEN Requeued(added) ELSE added

enroll_new_manifest_items_NoReopen(run) ==
    [run EXCEPT !.items = [i \in Items |->
        IF i \in manifest /\ @[i].status = "absent" THEN Fresh ELSE @[i]]]

\* New manifest rows join the run, and reopen it when it was completed.
enroll_new_manifest_items(run) ==
    IF manifest \subseteq Enrolled(run) THEN run
    ELSE LET added == [run EXCEPT !.items =
                          [i \in Items |-> IF i \in manifest /\ @[i].status = "absent"
                                           THEN Fresh ELSE @[i]]]
         IN  IF run.status = "completed" THEN Requeued(added) ELSE added

\* Each pass of run_once first looks whether the newest run is to be reopened.
Ensure ==
    /\ pc = "ready"
    /\ pc' = "idle"
    /\ runs' = IF runs # <<>> /\ runs[Newest].status = "completed"
               THEN [runs EXCEPT ![Newest] = enroll_new_manifest_items(@)]
               ELSE runs
    /\ UNCHANGED <<world, tasks, work, item, bounds>>

\* What a capture adds to the archive: attachments it already has are taken
\* from there, whatever OA shows under their key now.
Captured(i) == local[i] \cup {o \in online[i] : \A l \in local[i] : l.id # o.id}

Supplement(task) ==
    /\ pc = "idle"
    /\ task \in downloads
    /\ downloads' = downloads \ {task}
    /\ local' \in {local, [local EXCEPT ![task[2]] = Captured(task[2])]}
    /\ pc' = "ready"
    /\ UNCHANGED <<manifest, online, runs, supplements, work, item, bounds>>

\* A capture the scan asked for.
Recapture(i) ==
    /\ pc = "idle"
    /\ i \in manifest
    /\ Captured(i) # local[i]
    /\ local' = [local EXCEPT ![i] = Captured(i)]
    /\ pc' = "ready"
    /\ UNCHANGED <<manifest, online, runs, tasks, work, item, bounds>>

Queued == {r \in DOMAIN runs : runs[r].job = "queued"}

\* Nothing to claim: the worker sleeps and looks again.
Idle ==
    /\ pc = "idle"
    /\ downloads = {}
    /\ Queued = {}
    /\ pc' = "ready"
    /\ UNCHANGED <<world, runs, tasks, work, item, bounds>>

\* The newest queued audit.  Realtime tasks that are ready go first, but a
\* supplement may be waiting for its next attempt.
Claim ==
    /\ pc = "idle"
    /\ Queued # {}
    /\ work' = CHOOSE r \in Queued : \A s \in Queued : s <= r
    /\ pc' = "claimed"
    /\ UNCHANGED <<world, runs, tasks, item, bounds>>

LeaseBusy ==
    /\ Fault
    /\ pc = "claimed"
    /\ pc' = "ready"
    /\ runs' = [runs EXCEPT ![work].job = "queued"]
    /\ UNCHANGED <<world, tasks, work, item, pauses, changes>>

OpenBrowser ==
    /\ pc = "claimed"
    /\ pc' = "login"
    /\ runs' = [runs EXCEPT ![work].job = "running"]
    /\ UNCHANGED <<world, tasks, work, item, bounds>>

\* A failed login or an exception: fail_audit, then the job in a transaction
\* of its own.
FailAudit ==
    /\ Fault
    /\ pc \in {"login", "batch", "inspect", "closing", "finalize"}
    /\ pc' = "failing"
    /\ runs' = [runs EXCEPT ![work].status = "failed"]
    /\ UNCHANGED <<world, tasks, work, item, pauses, changes>>

FinishFailed ==
    /\ pc = "failing"
    /\ pc' = "ready"
    /\ runs' = [runs EXCEPT ![work].job = "failed"]
    /\ UNCHANGED <<world, tasks, work, item, bounds>>

-----------------------------------------------------------------------------
(* execute_audit.                                                           *)

\* The stored verdicts are recomputed; no item of these models reaches the
\* depth limit.
Repaired(row) ==
    IF row.status \in FINAL_ITEM_STATUSES \ {"access_failed"}
    THEN [row EXCEPT !.status = RepairedStatus(row.online, row.local, FALSE)]
    ELSE row

Recovered_No(row) == row

\* Items a dead process was inspecting are pending again.
Recovered(row) == IF row.status = "running" THEN [row EXCEPT !.status = "pending"] ELSE row

Begin ==
    /\ pc = "login"
    /\ pc' = "batch"
    /\ runs' = [runs EXCEPT ![work] =
                  LET run == enroll_new_manifest_items(@)
                  IN  [run EXCEPT !.status = "running", !.job = "running",
                                  !.items = [i \in Items |-> Repaired(Recovered(run.items[i]))]]]
    /\ UNCHANGED <<world, tasks, work, item, bounds>>

Pending == WithStatus(runs[work], {"pending"})

PauseNow ==
    /\ pc = "batch"
    /\ runs[work].pause
    /\ pc' = "ready"
    /\ runs' = [runs EXCEPT ![work].status = "paused", ![work].job = "paused"]
    /\ UNCHANGED <<world, tasks, work, item, bounds>>

\* The oldest pending row; the model does not order the rows.
StartItem(i) ==
    /\ pc = "batch"
    /\ ~runs[work].pause
    /\ i \in Pending
    /\ pc' = "inspect"
    /\ item' = i
    /\ runs' = [runs EXCEPT ![work].items[i].status = "running"]
    /\ UNCHANGED <<world, tasks, work, bounds>>

NothingPending ==
    /\ pc = "batch"
    /\ ~runs[work].pause
    /\ Pending = {}
    /\ pc' = "closing"
    /\ UNCHANGED <<world, runs, tasks, work, item, bounds>>

Verdict_Reason(i) == explain_evidence_difference(online[i], local[i])

Verdict(i) == ComparedStatus(online[i], local[i], local[i] # {}, FALSE)

\* The comparison; a missing download queues one supplement per run and item.
Record ==
    LET found == [status |-> Verdict(item), online |-> online[item], local |-> local[item]]
        wanted == IF found.status = "missing_download" THEN {<<work, item>>} ELSE {}
    IN  /\ pc = "inspect"
        /\ runs' = [runs EXCEPT ![work].items[item] = found]
        /\ supplements' = supplements \cup wanted
        /\ downloads' = downloads \cup (wanted \ supplements)
        /\ pc' \in {"batch", "closing"}     \* the batch may be full
        /\ UNCHANGED <<world, work, item, bounds>>

AccessFails ==
    /\ Fault
    /\ pc = "inspect"
    /\ runs' = [runs EXCEPT ![work].items[item].status = "access_failed"]
    /\ pc' \in {"batch", "closing"}
    /\ UNCHANGED <<world, tasks, work, item, pauses, changes>>

\* End of a batch: the job yields while items are pending.
CloseBatch ==
    LET run == enroll_new_manifest_items(runs[work])
        more == WithStatus(run, {"pending"}) # {}
    IN  /\ pc = "closing"
        /\ pc' = IF more THEN "ready" ELSE "finalize"
        /\ runs' = IF more THEN [runs EXCEPT ![work] = Requeued(run)] ELSE runs
        /\ UNCHANGED <<world, tasks, work, item, bounds>>

\* Items that could not be read are tried once more, then the run is complete.
RetryAccess ==
    LET run == runs[work]
        failed == WithStatus(run, {"access_failed"})
    IN  /\ pc = "finalize"
        /\ failed # {}
        /\ ~run.retried
        /\ runs' = [runs EXCEPT ![work] =
                      [Requeued(run) EXCEPT
                         !.retried = TRUE,
                         !.items = [i \in Items |-> IF i \in failed
                                    THEN [@[i] EXCEPT !.status = "pending"] ELSE @[i]]]]
        /\ pc' = "ready"
        /\ UNCHANGED <<world, tasks, work, item, bounds>>

Complete ==
    /\ pc = "finalize"
    /\ runs[work].retried \/ WithStatus(runs[work], {"access_failed"}) = {}
    /\ runs' = [runs EXCEPT ![work].status = "completed", ![work].job = "completed"]
    /\ pc' = "ready"
    /\ UNCHANGED <<world, tasks, work, item, bounds>>

Work ==
    \/ StartWorker \/ Ensure \/ Claim \/ OpenBrowser \/ FinishFailed
    \/ Begin \/ PauseNow \/ NothingPending \/ Record
    \/ CloseBatch \/ RetryAccess \/ Complete
    \/ \E i \in Items : StartItem(i)
    \/ \E task \in downloads : Supplement(task)

Console ==
    \/ StartAudit
    \/ \E r \in DOMAIN runs : PauseAudit(r) \/ ResumeAudit(r)

Next ==
    \/ Work \/ Idle \/ Console
    \/ Crash \/ LeaseBusy \/ FailAudit \/ AccessFails
    \/ \E i \in Items : Discover(i) \/ OaChanges(i) \/ Recapture(i)

Spec == Init /\ [][Next]_vars

\* The service manager restarts the worker, whose loop takes every step it can.
FairSpec == Spec /\ WF_vars(Work \/ Idle)

-----------------------------------------------------------------------------
(* What has to hold.                                                        *)

SafeItem(run, i) ==
    LET row == run.items[i]
    IN  Safe(row.status, explain_evidence_difference(row.online, row.local), FALSE)

\* A completed run has looked at every item it enrolled, whatever pauses,
\* crashes and failures interrupted it (online_audit.py:740-785).
CompletedMeansAudited ==
    \A r \in DOMAIN runs :
        runs[r].status = "completed" =>
            WithStatus(runs[r], {"pending", "running"}) = {}

\* The verdicts of the newest run, as the ledger sees them.
LedgerVerdict(run, i) ==
    IF run.items[i].status \in {"pending", "running"} THEN "undecided"
    ELSE IF SafeItem(run, i) THEN "safe" ELSE "unsafe"

Ledger == INSTANCE AuditLedger WITH
    run <- Len(runs),
    open <- runs # <<>> /\ runs[Newest].status # "completed",
    verdict <- IF runs = <<>> THEN [i \in {} |-> "undecided"]
               ELSE [i \in Enrolled(runs[Newest]) |-> LedgerVerdict(runs[Newest], i)]

\* The newest run keeps what AuditLedger promises (execute_audit, start_audit,
\* enroll_new_manifest_items): it closes only with all verdicts given, and a
\* closed run changes none of them, also when new items reopen it.
ImplementsLedger == Ledger!Spec

LatestRow(i) == IF runs = <<>> THEN Absent ELSE runs[Newest].items[i]

Halted ==
    /\ runs # <<>>
    /\ runs[Newest].status = "failed" \/ runs[Newest].pause

Due(i) == i \in manifest /\ runs # <<>>
Judged(i) == Halted \/ LatestRow(i).status \in FINAL_ITEM_STATUSES

\* Every item of the manifest gets a verdict of the newest run, also one that is
\* discovered after the run was completed; the run stops short of it only when a
\* pause was requested or it failed (archive_migration_campaign.py:119-129).
EveryItemIsAudited == \A i \in Items : Due(i) ~> Judged(i)

\* docs/superpowers/specs/2026-08-16-business-pipelines-webui-data-governance-
\* design.md:115: an archive that changes after its verification invalidates the
\* old evidence, so what a completed newest run calls safe is what the archive
\* holds.
SafeEvidenceIsCurrent ==
    \A i \in Items :
        runs # <<>> /\ runs[Newest].status = "completed" /\ SafeItem(runs[Newest], i)
            => LatestRow(i).local = local[i]
=============================================================================
