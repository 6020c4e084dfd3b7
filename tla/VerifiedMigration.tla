--------------------------- MODULE VerifiedMigration ---------------------------
(***************************************************************************)
(* The migration of legacy done archives after an online audit             *)
(* (archive_migration_campaign.py, archive_reconciliation.py, and the      *)
(* executor in web/worker.py), with the two queues it stands between: the  *)
(* Markdown queue it pauses and the historical rebuild rows it releases    *)
(* or parks.  run_once first ensures a job, then takes one, and only then  *)
(* a historical row.  Every commit is a step; a rename and the commit of   *)
(* its path are two.                                                       *)
(* One file stands for the attachments of an item (Files are the items).   *)
(***************************************************************************)
EXTENDS MarkdownQueue

CONSTANTS
    Legacy,      \* the items that start below raw/done
    Taken,       \* those whose directory below originals/ exists already
    Doubtful,    \* those the audit may find unsafe
    Late,        \* those the manifest learns of in the course of the behaviour
    MaxRuns,     \* bound on the online audits
    BatchSize    \* items per batch (25 in the code)

VARIABLES
    known,       \* the done items of the manifest
    run,         \* id of the newest audit run
    auditing,    \* it is queued or running
    verdict,     \* [1..MaxRuns -> [Files -> safe, unsafe, pending or none (not enrolled)]]
    synced,      \* the manifest was read completely since the run began
    supplement,  \* a capture the run has asked for is queued or running
    local,       \* a pipeline row of the local delivery worker
    path,        \* Files -> what the database says: legacy or current
    dir,         \* Files -> where the directory is
    reviewed,    \* items with a pending archive_path_migration entry
    job,         \* [1..MaxRuns -> the migration job of the run]
    pc, mine,    \* the worker, and the run of the job it executes
    todo,        \* items left of the batch
    moving,      \* items renamed and not yet committed
    bad,         \* items of the batch that were refused
    history,     \* Files -> status of the historical row
    touched,     \* auxiliary: the switch was used, or two jobs overlapped
    crashes

auditVars == <<known, run, auditing, verdict, synced, supplement, local>>
diskVars == <<path, dir, found, reviewed>>
workVars == <<pc, mine, todo, moving, bad>>
vars == <<mdVars, auditVars, diskVars, job, workVars, history, touched, crashes>>

NoJob == [status |-> "none", saved |-> "unset", failed |-> {}]
Safe(r) == {f \in Files : verdict[r][f] = "safe"}
Enrolled(r) == {f \in Files : verdict[r][f] # "none"}
Eligible(r) == {f \in Safe(r) : path[f] = "legacy"}
Open(r) == job[r].status \in {"queued", "running"}
Unfinished == {r \in 1..MaxRuns : job[r].status \notin {"none", "completed", "failed"}}
\* Jobs that failed after they had paused the Markdown queue.
Abandoned == {r \in 1..MaxRuns : job[r].status = "failed" /\ job[r].saved # "unset"}

Init ==
    /\ MdInit
    /\ known = Files \ Late
    /\ run = 0 /\ auditing = FALSE
    /\ verdict = [r \in 1..MaxRuns |-> [f \in Files |-> "none"]]
    /\ synced = FALSE /\ supplement = FALSE /\ local = "queued"
    /\ path = [f \in Files |-> IF f \in Legacy THEN "legacy" ELSE "current"]
    /\ dir = path
    /\ reviewed = {}
    /\ job = [r \in 1..MaxRuns |-> NoJob]
    /\ pc = "idle" /\ mine = 0 /\ todo = {} /\ moving = {} /\ bad = {}
    /\ history = [f \in Files |-> "none"]
    /\ touched = FALSE /\ crashes = 0

-----------------------------------------------------------------------------
(* The audit and the other workers, as far as the migration looks at them. *)

StartAudit ==
    /\ run < MaxRuns /\ ~auditing
    /\ run' = run + 1 /\ auditing' = TRUE /\ synced' = FALSE
    /\ UNCHANGED <<mdVars, known, verdict, supplement, local, diskVars, job,
                   workVars, history, touched, crashes>>

\* A scan finds an item that was not in the manifest.
Discover ==
    /\ known # Files /\ known' = Files
    /\ UNCHANGED <<mdVars, run, auditing, verdict, synced, supplement, local,
                   diskVars, job, workVars, history, touched, crashes>>

\* The run ends: an item that came after its start may have stayed out of it.
FinishAudit(items, safe, supplementing) ==
    /\ auditing /\ safe \subseteq items /\ Enrolled(run) \subseteq items
    /\ Files \ Late \subseteq items /\ items \subseteq known
    /\ items \ Doubtful \subseteq safe
    /\ \A f \in Enrolled(run) : verdict[run][f] # "pending" =>
           (verdict[run][f] = "safe" <=> f \in safe)
    /\ auditing' = FALSE
    /\ verdict' = [verdict EXCEPT ![run] = [f \in Files |->
           IF f \notin items THEN "none" ELSE IF f \in safe THEN "safe" ELSE "unsafe"]]
    /\ supplement' = supplementing
    /\ UNCHANGED <<mdVars, known, run, synced, local, diskVars, job, workVars,
                   history, touched, crashes>>

SupplementDone ==
    /\ supplement /\ supplement' = FALSE
    /\ UNCHANGED <<mdVars, known, run, auditing, verdict, synced, local, diskVars, job,
                   workVars, history, touched, crashes>>

FullSync ==
    /\ run > 0 /\ ~synced /\ synced' = TRUE
    /\ UNCHANGED <<mdVars, known, run, auditing, verdict, supplement, local, diskVars,
                   job, workVars, history, touched, crashes>>

\* One row the local delivery worker takes and finishes.
LocalWorks ==
    /\ local # "done"
    /\ local' = IF local = "queued" THEN "running" ELSE "done"
    /\ UNCHANGED <<mdVars, known, run, auditing, verdict, synced, supplement, diskVars,
                   job, workVars, history, touched, crashes>>

-----------------------------------------------------------------------------
(* run_once                                                                *)

Idle == pc' = "idle" /\ mine' = 0 /\ todo' = {} /\ moving' = {} /\ bad' = {}

\* ensure_verified_archive_migration: a completed run that lacks an item is
\* reopened; a job is created once per run, or woken when it waits.
Ensure ==
    LET missing == IF run > 0 /\ ~auditing THEN known \ Enrolled(run) ELSE {}
        ready == run > 0 /\ ~auditing /\ synced /\ missing = {}
                     /\ Eligible(run) # {} /\ ~supplement
    IN  /\ pc = "idle" /\ pc' = "ensured"
        /\ auditing' = (auditing \/ missing # {})
        /\ verdict' = IF run = 0 THEN verdict
                      ELSE [verdict EXCEPT ![run] = [f \in Files |->
                                IF f \in missing THEN "pending" ELSE @[f]]]
        /\ job' = IF ready /\ job[run].status \in {"none", "paused"}
                  THEN [job EXCEPT ![run].status = "queued"] ELSE job
        /\ touched' = (touched \/ \E r, s \in 1..MaxRuns : r # s /\ {r, s} \subseteq Unfinished')
        /\ UNCHANGED <<mdVars, known, run, synced, supplement, local, diskVars,
                       mine, todo, moving, bad, history, crashes>>

\* The newest queued job; one that has just yielded is passed over.
ClaimJob(r) ==
    /\ pc = "ensured" /\ job[r].status = "queued"
    /\ pc' = "executing" /\ mine' = r
    /\ UNCHANGED <<mdVars, auditVars, diskVars, job, todo, moving, bad, history,
                   touched, crashes>>

\* A historical row is only taken when no job is, and only with a safe
\* verdict of the newest run, which has completed, and a canonical path.
Gate(f) == run > 0 /\ ~auditing /\ f \in Safe(run) /\ path[f] = "current"

RunHistory(f) ==
    /\ pc = "ensured" /\ history[f] = "queued" /\ Gate(f)
    /\ \A r \in 1..MaxRuns : job[r].status # "queued"
    /\ history' = [history EXCEPT ![f] = "completed"]
    /\ pc' = "idle"
    /\ UNCHANGED <<mdVars, auditVars, diskVars, job, mine, todo, moving, bad,
                   touched, crashes>>

NothingToDo ==
    /\ pc = "ensured" /\ Idle
    /\ UNCHANGED <<mdVars, auditVars, diskVars, job, history, touched, crashes>>

\* bootstrap_current_state: a row for every admitted item that has none.
BootstrapHistory ==
    /\ \E f \in known : history[f] = "none"
    /\ history' = [f \in Files |-> IF f \in known /\ history[f] = "none" THEN "queued" ELSE history[f]]
    /\ UNCHANGED <<mdVars, auditVars, diskVars, job, workVars, touched, crashes>>

-----------------------------------------------------------------------------
(* _execute_verified_archive_migration                                     *)

Switch == IF control.paused THEN "paused" ELSE "going"

\* The run the job belongs to is asked, not the newest one.
AuditOpen(r) == r = run /\ auditing

WaitForAudit ==
    /\ pc = "executing" /\ AuditOpen(mine)
    /\ job' = [job EXCEPT ![mine].status = "paused"]
    /\ Idle
    /\ UNCHANGED <<mdVars, auditVars, diskVars, history, touched, crashes>>

\* The switch is remembered the first time only; the pause holds also when the
\* batch is put off because a conversion or a pipeline row is running.
BeginBatch_Again ==
    LET busy == InStatus("running") # {} \/ local = "running"
    IN  /\ pc = "executing" /\ ~AuditOpen(mine)
        /\ control' = [control EXCEPT !.paused = TRUE]
        /\ job' = [job EXCEPT ![mine].saved = Switch,
                              ![mine].status = IF busy THEN "queued" ELSE "running"]
        /\ IF busy THEN Idle
           ELSE /\ \E batch \in SUBSET (Eligible(mine) \ job[mine].failed) :
                       /\ Cardinality(batch) <= BatchSize
                       /\ batch = {} => Eligible(mine) \subseteq job[mine].failed
                       /\ todo' = batch
                /\ pc' = "moving" /\ UNCHANGED <<mine, moving, bad>>
        /\ UNCHANGED <<md, export, engine, at, orders, mdCrashes, auditVars,
                       diskVars, history, touched, crashes>>
BeginBatch ==
    LET busy == InStatus("running") # {} \/ local = "running"
        saved == IF job[mine].saved = "unset" THEN Switch ELSE job[mine].saved
    IN  /\ pc = "executing" /\ ~AuditOpen(mine)
        /\ control' = [control EXCEPT !.paused = TRUE]
        /\ job' = [job EXCEPT ![mine].saved = saved,
                              ![mine].status = IF busy THEN "queued" ELSE "running"]
        /\ IF busy THEN Idle
           ELSE /\ \E batch \in SUBSET (Eligible(mine) \ job[mine].failed) :
                       /\ Cardinality(batch) <= BatchSize
                       /\ batch = {} => Eligible(mine) \subseteq job[mine].failed
                       /\ todo' = batch
                /\ pc' = "moving" /\ UNCHANGED <<mine, moving, bad>>
        /\ UNCHANGED <<md, export, engine, at, orders, mdCrashes, auditVars,
                       diskVars, history, touched, crashes>>

\* _migrate_one_item up to the rename: source missing, or target taken.
Rename(f) ==
    /\ pc = "moving" /\ moving = {} /\ f \in todo
    /\ path[f] = "legacy" /\ dir[f] = "legacy" /\ f \notin Taken
    /\ dir' = [dir EXCEPT ![f] = "current"]
    /\ found' = [found EXCEPT ![f] = FALSE]
    /\ moving' = {f}
    /\ UNCHANGED <<md, export, engine, control, at, orders, mdCrashes, auditVars,
                   path, reviewed, job, pc, mine, todo, bad, history, touched,
                   crashes>>

CommitPath(f) ==
    /\ pc = "moving" /\ moving = {f}
    /\ path' = [path EXCEPT ![f] = "current"]
    /\ found' = [found EXCEPT ![f] = TRUE]
    /\ moving' = {} /\ todo' = todo \ {f}
    /\ UNCHANGED <<md, export, engine, control, at, orders, mdCrashes, auditVars,
                   dir, reviewed, job, pc, mine, bad, history, touched, crashes>>

\* The new tree differs, or cannot be read: the rename is undone and the item
\* refused.  (Only the four errors the executor handles come here.)
UndoRename(f) ==
    /\ pc = "moving" /\ moving = {f} /\ crashes + mdCrashes < MaxCrashes
    /\ crashes' = crashes + 1
    /\ dir' = [dir EXCEPT ![f] = "legacy"]
    /\ found' = [found EXCEPT ![f] = TRUE]
    /\ moving' = {} /\ todo' = todo \ {f} /\ bad' = bad \cup {f}
    /\ reviewed' = reviewed \cup {f}
    /\ UNCHANGED <<md, export, engine, control, at, orders, mdCrashes, auditVars,
                   path, job, pc, mine, history, touched>>

Refuse(f) ==
    /\ pc = "moving" /\ moving = {} /\ f \in todo
    /\ path[f] = "legacy" /\ (dir[f] # "legacy" \/ f \in Taken)
    /\ todo' = todo \ {f} /\ bad' = bad \cup {f}
    /\ reviewed' = reviewed \cup {f}
    /\ UNCHANGED <<mdVars, auditVars, path, dir, found, job, pc, mine, moving,
                   history, touched, crashes>>

\* release_verified_historical_tasks and finalize_ineligible_historical_tasks
Released(r) ==
    [f \in Files |->
        IF history[f] = "parked" /\ f \in Safe(r) /\ path[f] = "current" THEN "queued"
        ELSE IF history[f] = "queued" /\ ~(f \in Safe(r) /\ path[f] = "current") THEN "parked"
        ELSE history[f]]

\* The last commit of a batch: the failures are added up, and when nothing is
\* left the switch is restored and the rows of the history are settled.
EndBatch_ForgetFailures ==
    LET failed == bad
        left == Eligible(mine) \ failed
    IN  /\ pc = "moving" /\ todo = {} /\ moving = {}
        /\ job' = [job EXCEPT ![mine].failed = failed,
                              ![mine].status = IF left # {} THEN "queued" ELSE "completed"]
        /\ IF left # {} THEN UNCHANGED <<control, history>>
           ELSE /\ control' = [control EXCEPT !.paused = job[mine].saved = "paused"]
                /\ history' = Released(mine)
        /\ Idle
        /\ UNCHANGED <<md, export, engine, at, orders, mdCrashes, auditVars,
                       diskVars, touched, crashes>>
EndBatch_OneBatch ==
    /\ pc = "moving" /\ todo = {} /\ moving = {}
    /\ job' = [job EXCEPT ![mine].failed = @ \cup bad, ![mine].status = "completed"]
    /\ control' = [control EXCEPT !.paused = job[mine].saved = "paused"]
    /\ history' = Released(mine)
    /\ Idle
    /\ UNCHANGED <<md, export, engine, at, orders, mdCrashes, auditVars,
                   diskVars, touched, crashes>>
EndBatch ==
    LET failed == job[mine].failed \cup bad
        left == Eligible(mine) \ failed
    IN  /\ pc = "moving" /\ todo = {} /\ moving = {}
        /\ job' = [job EXCEPT ![mine].failed = failed,
                              ![mine].status = IF left # {} THEN "queued" ELSE "completed"]
        /\ IF left # {} THEN UNCHANGED <<control, history>>
           ELSE /\ control' = [control EXCEPT !.paused = job[mine].saved = "paused"]
                /\ history' = Released(mine)
        /\ Idle
        /\ UNCHANGED <<md, export, engine, at, orders, mdCrashes, auditVars,
                       diskVars, touched, crashes>>

\* Any other error, as that of a commit: a rename that is not committed is undone,
\* and run_once ends the job as failed.  Nothing is put up for review, the switch
\* stays as the job has left it, and neither ensure nor recover_expired ever takes
\* up a failed job.
FailJob ==
    /\ pc \in {"executing", "moving"} /\ crashes + mdCrashes < MaxCrashes
    /\ crashes' = crashes + 1
    /\ job' = [job EXCEPT ![mine].status = "failed"]
    /\ dir' = [f \in Files |-> IF f \in moving THEN "legacy" ELSE dir[f]]
    /\ found' = [f \in Files |-> found[f] \/ f \in moving]
    /\ Idle
    /\ UNCHANGED <<md, export, engine, control, at, orders, mdCrashes, auditVars,
                   path, reviewed, history, touched>>

\* The worker dies; its next start puts a running job back (recover_expired).
\* Whatever was renamed and not committed stays where it is.
CrashWorker ==
    /\ pc # "idle" /\ crashes + mdCrashes < MaxCrashes
    /\ crashes' = crashes + 1
    /\ job' = [r \in 1..MaxRuns |-> IF job[r].status = "running"
                   THEN [job[r] EXCEPT !.status = "queued"] ELSE job[r]]
    /\ Idle
    /\ UNCHANGED <<mdVars, auditVars, diskVars, history, touched>>

-----------------------------------------------------------------------------

Worker ==
    \/ Ensure \/ NothingToDo
    \/ \E r \in 1..MaxRuns : ClaimJob(r)
    \/ \E f \in Files : RunHistory(f) \/ Rename(f) \/ CommitPath(f) \/ Refuse(f)
    \/ WaitForAudit \/ BeginBatch \/ EndBatch

Migration ==
    \/ StartAudit \/ Discover \/ SupplementDone \/ FullSync \/ LocalWorks \/ BootstrapHistory
    \/ \E items, safe \in SUBSET Files, supplementing \in BOOLEAN :
           FinishAudit(items, safe, supplementing)
    \/ Worker
    \/ \E f \in Files : UndoRename(f)
    \/ FailJob \/ CrashWorker

\* The operator's use of the switch while a job is open is remembered.
Markdown ==
    /\ MdNext /\ crashes + mdCrashes' <= MaxCrashes
    /\ touched' = (touched \/ (control'.paused # control.paused))
    /\ UNCHANGED <<auditVars, path, dir, reviewed, job, workVars, history, crashes>>

Next == Migration \/ Markdown

\* The worker runs in a loop and comes back to a job that stays queued; the
\* audit, the other workers and the Markdown worker go on as well.
Fairness ==
    /\ WF_vars(Worker) /\ SF_vars(\E r \in 1..MaxRuns : ClaimJob(r))
    /\ WF_vars(FullSync) /\ WF_vars(LocalWorks) /\ WF_vars(SupplementDone)
    /\ WF_vars(\E items, safe \in SUBSET Files : FinishAudit(items, safe, FALSE))
    /\ WF_vars(MdWork /\ UNCHANGED <<touched, auditVars, path, dir, reviewed, job,
                                     workVars, history, crashes>>)

Spec == Init /\ [][Next]_vars
FairSpec == Spec /\ Fairness

-----------------------------------------------------------------------------
\* When the migration job of a run completes, every item the run has found safe
\* is at its new place, in the database and on disk, or a review entry says that
\* it is not.  (An item that is enrolled in the run after that moment is not
\* migrated under this run: ensure finds the job completed and leaves it.)
MovedOrReviewed ==
    [][\A r \in 1..MaxRuns :
           job'[r].status = "completed" /\ job[r].status # "completed" =>
               \A f \in Safe(r) : (path'[f] = "current" /\ dir'[f] = "current")
                                   \/ f \in reviewed']_vars

\* The Markdown queue is switched on again when the migrations are over,
\* however many batches they took and whatever crashed in between: if none is
\* open the queue stands exactly when one has failed after it paused it, which
\* nobody but the operator sets right.  This is not so once the operator used
\* the switch, or the jobs of two audits overlapped, the second of which then
\* remembers the pause of the first.
PauseIsGivenBack ==
    ~touched /\ Unfinished = {} => (control.paused <=> Abandoned # {})

\* A migration comes to its end, unless a conversion of a dead Markdown worker
\* is left running: the migration has paused the queue and waits for the row,
\* and the claim that would requeue the row finds nothing to take.
MigrationsEnd ==
    \/ <>[](\A r \in 1..MaxRuns : ~Open(r))
    \/ <>[](control.paused /\ \E f \in Files : md[f].status = "running" /\ ~md[f].mine)
=============================================================================
