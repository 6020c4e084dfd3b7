# A formal model of OARadar

OARadar collects the items a person has in an office-automation (OA) system,
archives their attachments, turns them into Markdown, and tells a Feishu group
about pending (to-do) items. It is one Python package,
`src/src/oa_knowledge`, around one SQLite database: a web console, a scheduler,
an operation worker, a local delivery worker, a Markdown worker, a desktop
process and commands typed in a terminal are separate processes that
communicate through its tables and its data directory only.

This directory models the parts of it whose correctness depends on the order in
which those processes act, die and come back, and the pure rules whose cases are
too many for a test. The modules are TLA+; TLC checks small instances, TLAPS
proves the theorems in the `*Proofs` modules for every value of the constants.

## 1. The system

### Components, their state and their operations

| Component | State | Operations | What makes it hard |
|---|---|---|---|
| Production task queue (`production_pipeline.py`, `web/worker.py`, `local_delivery_worker.py`) | `pipeline_tasks`: status, stage, lease owner and deadline, attempts, back-off | enqueue, retire, claim, heartbeat, advance, complete, fail, recover, bulk retry | two workers and the console write the same rows; reads are outside the write transaction; pids come back |
| Resource leases (`resources.py`) | `resource_leases`, unique by resource key | acquire, heartbeat, release, recover dead owners | expiry against a live holder, reused row ids |
| Pending pipeline (`pending_sync.py`, `pending_summary.py`, `pending_cleanup.py`, `notifications/feishu_service.py`) | occurrences, snapshots, summaries, deliveries, one task per discovery | scan, capture, parse, summarise, notify, clean, reconcile, re-send | the outside world changes between any two stages; a POST cannot be undone; a payload may be erased too early |
| Online audit (`online_audit.py`, `archive_migration_campaign.py`) | audit runs and items, their operation job, supplements | start, pause, resume, execute in batches, reopen; compare inventories | crashes inside a batch, runs reopened for new items, evidence that grows stale |
| Verified migration and historical gate (`archive_migration_campaign.py`, `archive_reconciliation.py`) | migration jobs, the pause of the Markdown queue, paths in the database and on disk, review entries, historical rows | ensure, claim, move in batches, release or park | renames against commits; a pause somebody must give back |
| Done collection and full manifest (`done_collection.py`, `full_manifest.py`, `daily_done.py`, `desktop_collection.py`) | jobs, checkpoints, manifest, the child process, the browser | inventory, login, review, download, pause, resume, take over, run daily | a list that moves while it is read; sessions that expire; executors and children that die |
| Manifest retries (`web/worker.py`, `web/status.py`, `cli.py`) | manifest rows, policies, retry jobs | retry, classify, pick, capture, put back | a command started again and again while policies change and files get lost |
| Backfill campaigns and operator batches (`batches.py`, `state.py`, `cli.py`, `web/status.py`) | batches and their items, policies, jobs | discover, freeze, run, validate, next; cancel, pause, recover, retry | two programs on one batch, counts that are stored and recomputed |
| Done delivery and convergence (`done_archive.py`, `detail_archive.py`, `pipeline.py`, `source_markdown/service.py`, `done_convergence.py`) | rows of an item, files, parse jobs, artifacts, exports, index | capture, verify, inventory, parse, publish, classify, index; plan and apply a convergence; retries of the console | plans applied to rows that moved on; stages that send a row back |
| Markdown queue (`markdown_queue.py`, `markdown_worker.py`) | markdown tasks, control row | enqueue, claim, convert, campaign, pause | a worker that died in the middle; two switches |
| OA collectors (`collector/detail.py`, `collector/done.py`) | what was read of a page | walk an item and its references, list a done page | "nothing is attached" must be known, not assumed |
| Archive readiness and fingerprints (`classification/readiness.py`, `classification/fingerprint.py`) | none of their own | assess a package, fingerprint a decision's inputs | many small cases over audits, containers and hashes |
| Item classification (`classification/service.py`, `semantic_run.py`) | chains of decisions, runs and their frozen items | classify, backfill, review, lock, adopt | four programs replace the decision each has read |
| Classification rules (`metadata_rules.py`, `per_item_classifier.py`, `evidence_dossier.py`) | none | two sets of rules over titles, names and texts | precedence |
| Candidates (`backfill_mvp.py`, `candidate_attachment_worker.py`, `parse_cache.py`, `classified_candidate_build.py`) | parser cache, packages, build directories and manifests | convert, cache, render, stage, rename, repair, validate | two converters share a cache; originals change; a death between two writes |
| Data governance (`data_governance/*`) | clean-up runs, their quarantine | plan, quarantine, restore, purge | files moved one by one, booked at the end |
| Title screening, knowledge trial, vault rebuild, curation, parsers, CLI wiring, frontend | | | see section 5 |

Calls go down (`web/worker.py` dispatches a claimed row to a stage handler,
which calls a service and then `advance`, `complete` or `fail`); everything
else is shared state: scans enqueue rows, the console retries them, the audit
queues supplements for the done chain, the migration waits for the audit and
pauses the Markdown queue, classification reads what the archive holds, and the
candidates read the decisions.

Sessions read in SQLite's autocommit mode and open the write transaction with
their first UPDATE, without `BEGIN IMMEDIATE` except in the local worker's
claim, the convergence and some console requests. A method that reads and then
writes is therefore two steps wherever another process can come in between, and
one step where nobody else can.

### What has to hold

* Queue: a row is worked on by one process, a result lands on the claim it
  belongs to, a crash loses no row, and what is over stays over.
* Leases: no two sessions on one browser or GPU, no live lease removed.
* Pending: each version of an item reaches Feishu at most once and, unless a
  failed task says otherwise, at least once; nothing is erased that was not
  delivered; what was delivered is erased.
* Audit: a completed run has compared every item, its verdicts do not change
  behind it, and the word "safe" means the archive holds what OA shows.
* Migration: every safe item is moved or put up for review, whatever crashed
  between a rename and its commit, and the Markdown queue's pause is given back.
* Collection, retries, campaigns, batches: a job comes to an end or to the
  operator, and one that reports success has settled its items; a status in the
  manifest is true; counts add up.
* Done chain: when all rows of an item have completed, everything OA shows is in
  the archive and its Markdown was made of those bytes; no row goes round for ever.
* Classification and candidates: a decision of a person is replaced only by a
  person; decisions form one chain; a build is of the decisions it froze; a note
  holds the text of the bytes it names.
* Clean-up: what is erased is what a plan saw, after seven days; the newest
  backups stay; the ledger tells the quarantine.

Section 6 lists what the code does otherwise.

## 2. Modules

| Module | Models |
|---|---|
| `PipelineTask` | a row of `pipeline_tasks`, the column updates of `ProductionQueue`, the claim order, what each stage handler may report |
| `ProductionQueue` | the queue under the operation worker, the local worker, the console, crashes and time |
| `ResourceLeases` | `ResourceCoordinator` under workers, scans and commands |
| `PendingPipeline` | one pending item through all its stages, with the Feishu server and the console |
| `AuditEvidence` | inventories of attachments, their comparison, verdicts, repair, and the migration's notion of safe |
| `AuditLedger` | the abstract promise of an audit |
| `OnlineAudit` | audit runs executed by the worker; implements `AuditLedger` |
| `MarkdownQueue` | the queue of conversions, its worker, campaign and switches |
| `VerifiedMigration` | the migration after an audit with the queues it stands between; extends `MarkdownQueue` |
| `DoneDelivery` | one done item from capture to index, with scans, convergence and console |
| `DoneCollection` | jobs that read the done list and download its files, executors, child, daily runner |
| `ManifestScan` | the pages of a list that changes while it is read |
| `DetailCapture` | the walk over an item and what it refers to, and the removal of second views of a file |
| `ManifestRetry` | retry jobs and the command they start, under changing policies |
| `BackfillCampaign` | the campaign over windows |
| `ArchiveBatches` | an operator's batch from console and terminal |
| `ArchiveReadiness` | assessments of packages and what the fingerprint accepts |
| `ItemClassification` | decisions of items and the four programs that make them |
| `MetadataRules`, `DossierRules` | the two rule sets |
| `CandidateAttachments` | attachments as notes, and the parser cache |
| `CandidateBuild`, `CandidateBackfill` | the two builders of candidate packages |
| `CleanupRuns` | the clean-up of the data directory |
| `MCProductionQueue`, `MCPendingPipeline`, `MCOnlineAudit`, `MCDoneDelivery`, `MCVerifiedMigration` | constants, constraints and symmetries of one module |
| `MCLiveness` | one behaviour of the pending pipeline and one of the task queue, side by side |
| `MCJobs` | collection, campaign and retry, one per behaviour |
| `MCItems` | the way of an item from a decision to a package: six components that share no state, one per behaviour |
| `MCComponents` | these and seven more; extends `MCItems` |
| `MCAuditEvidence`, `MCArchiveReadiness`, `MCMetadataRules`, `MCDossierRules` | the inputs that are enumerated, and what the pure operators are checked for |
| `ProductionQueueProofs`, `PendingPipelineProofs`, `OnlineAuditProofs`, `VerifiedMigrationProofs`, `DoneDeliveryProofs` | theorems of these modules |
| `JobsProofs` | theorems of `ManifestRetry`, `BackfillCampaign`, `DoneCollection`, as `MCJobs` composes them |
| `CandidatesProofs` | theorems of `ItemClassification`, `MetadataRules`, `DossierRules`, `CandidateAttachments`, `CandidateBuild`, `CandidateBackfill`, as `MCItems` composes them |
| `ComponentsProofs` | theorems of `ResourceLeases`, `AuditEvidence`, `CleanupRuns`, `ArchiveBatches`, `ArchiveReadiness`, as `MCComponents` composes them |

`MCJobs`, `MCItems` and `MCComponents` put components that do not interact into one
specification: `which` names the component a behaviour is of, and its variables
are the slots `s1`, `s2`, ... in the order in which its module declares them.
Nothing is lost by it, since no step of one component reads another, and a
property of it says `which = "..." => ...`.

An operator `Name_Variant` next to `Name` is a deliberately wrong version of
it; no specification uses one. Replacing `Name` by it must break the property it
is listed with in PROJECT.json.

### Correspondence

*ProductionQueue.* `rows` is the table; `pid`, `pc`, `cur`, `seen`, `out` are a
worker's process and its locals. `Finish` is the check of `_owned()`,
`WriteResult` the UPDATE by primary key that follows in another transaction;
`ScanAbandoned` and `RecoverAbandoned` are the two halves of
`recover_abandoned`; `RetireNonCore` and `ClaimMain` the two transactions of
`claim`. What a handler reports is any of `Outcomes(stage)`, which lists the
transitions the handlers in `web/worker.py` contain. Deadlines are three-valued
(none, live, expired) and back-off is a flag: no condition compares two of them.

*ResourceLeases.* `leases` is the table; `ticket` the id `acquire` returned;
ids are SQLite row ids, which come back after a delete. `ReadLeases` and
`DeleteDead` are the halves of `recover_dead_owners`. `Overrunning` are the
sessions that can outlast their ttl without a heartbeat (the interactive login:
180 s lease, 300 s limit).

*PendingPipeline.* A discovery is a `discovery_hash`, a message the pair of a
captured content and the evidence parsed for it, the version that
`input_hash` and the delivery's key identify. Every commit of a handler is an
action, so `Crash` can fall between the row that says "sending", the POST and
the row that records the answer. `accepted` is the Feishu group's view.

*AuditEvidence and OnlineAudit.* An attachment is a role and key with bytes, or
without when no hash is known. An observation is of one of three kinds, as the
branches of `execute_audit` (`online_audit.py:665-696`): *compared*, with the bytes
that OA shows; *listed*, a quick audit that knows keys only (`ListedStatus`); and
*counted*, without an inventory of OA (`CountedStatus`). Only the first compares
bytes, so the properties say for each kind what "matched" means. `OnlineAudit`
executes full audits. `runs[r]` joins an audit run with its operation
job and its items; an action is one transaction. `Ensure` is what each pass of
`run_once` does first, `Begin` to `Complete` is `execute_audit`, `FailAudit` and
`FinishFailed` the two transactions of its failure path. `ImplementsLedger` maps
the newest run onto `AuditLedger`: how many runs there were, whether the newest
is open, and one of undecided, safe, unsafe for each item.

*VerifiedMigration and MarkdownQueue.* `Files` are the items, one file for the
attachments of each. `path` is the column, `dir` the directory that exists:
`Rename`, `CommitPath` and `UndoRename` are `_migrate_one_item`, with the four errors
the worker handles; any other, a failed commit for one, is `FailJob`: the job ends as
failed, gives nothing back and is never taken up again (`Abandoned`). `job[r].saved` is
what a job remembers of the switch `control.paused`; `Ensure`, `ClaimJob`,
`BeginBatch`, `EndBatch` are one pass of `run_once`. `touched` notes that the
operator used the switch or that the jobs of two runs were open at once.

*DoneDelivery.* `shown` is the place in `Listings`, what OA shows over time; the
rows are kept in creation order with the keys that make them unique; `archive`,
`job`, `artifact`, `export` are the tables, `disk`, `products`, `published`, `index`
the files. `Converge` plans, `Apply` writes later. A crash and the recovery of the
row at the next start are one step, because only this worker takes such rows.

*DoneCollection.* `pc`, `host`, `cur` are the executing process, of which the
platform lock admits one; `child` is "manifest download" with the items it
attempted; `daily` the runner. `ManifestScan` has the pages: `view` is the page
shown and the list it was loaded from, `saved` the checkpoint, `drift` bounds the
changes. *DetailCapture* discovers what OA shows when it is read.

*ManifestRetry*, *BackfillCampaign* and *ArchiveBatches* take the worker, the
command it starts and the console as one program counter each; a command keeps
what it read while it works. In *ArchiveBatches* a session with the database is
one step, the browser admits one command, and a worker that dies leaves its
child. `notes`, `reopened` and `honest` are auxiliary.

*ItemClassification*, *CandidateBuild*, *CandidateBackfill*,
*CandidateAttachments*: `procs` has one record per program with what it read;
each commit, rename and file write is a step.

*ArchiveReadiness*, *MetadataRules*, *DossierRules* have an action for each stage
of a pure function, so that each stage's result is a state; their inputs are
every combination of the small sets in the `MC` modules, reduced to what the code's
patterns and comparisons tell apart.

*CleanupRuns.* `disk` is a file at its own path, `shelf[r]` the quarantine of run
`r`; a command reads run and items once (`loaded`), moves a file per step and
writes all statuses in one commit; `erased` records what a purge unlinked.

## 3. Runs

Twelve runs, ten of which pass. A run asks one question of one component or of
several that are independent; the last column is the instance.

| Run | Question | Instance |
|---|---|---|
| `queue_safety` | can any interleaving of two workers, a bulk retry, lease expiry, reused pids and two crashes hand out an ordinary row twice, run a retired stage, or bring back a finished or refused row? | a pending, a local-delivery and a retired row; three pids; two attempts |
| `pending_safety` | can a version be shown twice or recorded as sent when it was not, with a changing item, a crash between any two commits, retries, reconciliation and cleanup? | two discoveries, two contents, one crash, two attempts, one parse job |
| `liveness` | does a notification arrive or a failed task remain, is what was delivered erased, and is the row of a dead process taken back? | one version, two attempts, one crash, one console thread; and two rows of the queue, one crash, pids not reused |
| `audit_safety` | does a completed run cover its items, and does the newest run implement the ledger? | two items, two runs, one pause, one fault |
| `audit_liveness` | is every item audited in the end, also one discovered later? | one item, two runs, two faults, one pause, one change |
| `done_growth` | when all rows of an item have completed, was everything OA shows converted from the right bytes? | two files, the second appears later; kinds text, lossy, unsupported; one request; no trouble |
| `done_delivery` | is the item delivered or shown as failed, and do its rows come to an end? | one file of every kind, one request, one fault, crash or loss |
| `migration` | is every safe item moved or put up for review, does the switch come back unless the job failed, does the migration end? | two items, one late and one whose place is taken; one run, batches of one, one order, one crash, refused rename or failed commit |
| `jobs` | do collection, campaign and retry jobs end, and does success mean that their items are settled? | two items, two jobs, one further session, one fault; two windows with three items; two policies, one login, two faults |
| `components` | the thirteen components below | see below |
| `pending_wrong_version`, `pending_changed_item` | two statements of the docs that the code does not keep | smallest instances that show it |

In `components`: *leases* under a worker, its successor and two scans, one of
which overruns, two resources and three row ids; *evidence*, every two
inventories of three identities with two contents and hashless rows, compared,
listed or counted; *scan*, a
list of four to five items, pages of two, two pages a session, two changes;
*capture*, an item, a child and a grandchild with every reference between them,
one fault, and up to three views of files; *readiness*, every package of
two files with up to two audits; *classification*, four programs on one item, one
change or one fault; *metadata* and *dossier*, every item of the small sets;
*attachments*, two files, two contents, two converters, one change or fault;
*build*, two items, a change and a death, or two moves of an item; *backfill*, two
items and two commands for one run id, one change, one fault; *batches*, three items, a limit of two,
one archived elsewhere and one excluded by configuration, two commands, one
change, one fault; *cleanup*, four backups of two weeks, one of them protected, and
a fifth to come, an orphan, two runs, two commands, three commands in all.

The bounds are the smallest in which the interesting case exists. A row can be
lost or doubled by one thief, and the queue has at most two workers, so two
live processes, a third pid for a restart and two crashes let a predecessor, its
successor and the other worker meet on one row. The number of attempts is only
compared with its maximum. Two versions of a pending item are enough for an
older delivery, a newer one and the cleanup between them. Two items in two runs
let one be decided while the other is pending, running or unknown. Inventories
are compared row by row, so three identities and two contents give each of
them a matching, a missing, an extra and a differing row at once. The second
attachment of `done_growth` appears between any two steps of the first one's
way. A scan needs two sessions, a page on their border and a change on each side.
Two programs suffice wherever each checks what the other wrote; a third adds
only another writer of the same values. Where a theorem of section 4 covers the
property, the instance only served to find the invariant.

Two constraints narrow a run further. In `pending_safety` at most one of a crash,
a second attempt and a parse job happens in a behaviour (`OneTrouble`), and the
two discoveries may be exchanged together with their contents (`Exchanges`, a
symmetry of the constants as the run chooses them). In `components` a decision
sees a change or a fault but not both, and with a fault at most two decisions are made;
a build sees a second change only if both are moves and nothing dies; and a third
clean-up command runs only without a change (`OneTrouble`). No run with liveness properties has a constraint
or a symmetry.

`CHECK_DEADLOCK` is off in `migration`, `jobs` and `components`, where jobs,
requests and changes are bounded and what is modelled really comes to an end;
elsewhere no state is one in which nothing can happen.

### Fairness

The workers are services that are restarted (`Restart=always`, the daily-done
watcher), and their loops run whatever is there: weak fairness of a worker's
steps, in each module (`Worker`, `WorkerStep`, `Work`, `HandlerStep`, `MdWork`).
Back-off deadlines pass, and the night comes: weak fairness of `BackoffElapses`,
the nightly `Scan`, `Converge`, `Apply`, and the daily `Tick`. A browser somebody
else holds comes free (`OtherReleases`). In the migration the audit, its
supplements and the full manifest scan that it waits for finish, the local
worker works, and `ClaimJob` is strongly fair: a job is the first thing a pass
of the worker takes, but between two passes a scan may make the manifest out of
date again. Nothing else is fair: not the console, hourly scans, OA, or Feishu's
kindness. Faults are bounded, so that a system that fails for ever is not
asked to make progress. In the liveness of the audit a paused or failed run
counts as an answer, because only a person ends either; so does a job that waits
for a login in `CollectionEnds`.

## 4. Proofs

All theorems are for every value of the constants that satisfies the ASSUMEs of
their module and what is named here.

### The task queue (`ProductionQueueProofs`)

`QueueInvariants`, `QueueTypes`, `QueueLeaseColumns`, `QueueRetiredStages`: types,
agreement of status and owner, exclusive work on ordinary rows, and the gate for
retired stages. Exclusive work is not inductive by itself. The strengthening says
that a process is up exactly when it has a pid, that the two pids differ, that a
worker holds a claimed row exactly while it is busy (`ProcInv`); that an ordinary
row the recovery has selected is still running, because only the main worker,
now booting, could have moved it (`ScanInv`); and that ordinary rows never enter
the local queue and what is about to be written is an outcome of the stage the
worker's copy shows (`OrdinaryInv`). From this follows that nothing writes the
row between the check of ownership and the UPDATE. `QueueFinality`: completed and
refused rows stay so, as action properties from the same invariant.

### Pending items (`PendingPipelineProofs`)

`PendingTypes`; `PendingAtMostOnce`: at most one display of each version, when no
transport error hides an accepted POST and the console re-sends nothing. The
invariant ties `accepted` to the delivery row: nothing shown while the row is
none, failed or waiting; at most the POST in flight while it says sending; and a
POST only follows a committed "sending". A restart that finds "sending" parks it
as unknown, and that is why the row must be written before the POST.
`PendingSentMeansShown` holds also with transport errors that hide an accepted
message: its invariant (`SentInv`) only needs that a result "sent" in the worker's
memory was an answer of Feishu for that very message.

### Audits (`OnlineAuditProofs`, `ComponentsProofs`)

`AuditTypes`; `AuditCompletedMeansAudited`; `AuditImplementsLedger`, the refinement
of `AuditLedger` step by step. The invariant says of every run that its status,
its job and the verdicts of its items belong together (`RunsOK`), and of the
worker that what it has read of a run while it executes is still so
(`Executing`): only the console and `Ensure` touch another run's rows meanwhile.
`VerdictsAreSound` is about the verdict itself, for any finite number of
attachments. Its invariant (`EvidenceInv`) says that what is stored is the verdict on
what was observed, by the kind of the observation, or the one recomputed from what
was stored of it; the rest are lemmas on the operators, one for each kind
(`ComparedIsSound`, `ListedIsSound`, `CountedIsSound`). "Matched" is equality of the
bytes only where bytes were compared; "safe" means held in every kind but one, a
verdict recomputed for an item that was only counted, which the property names.

### The migration (`VerifiedMigrationProofs`)

`MigrationMovesOrReviews`: the invariant follows an item through a batch: what a
job has not put up for review is at the old place or at the new one, in the
database and on disk together, but for the one item between rename and commit
(`Places`, `Work`), and a failure in a batch's memory becomes a review entry with
the batch (`Noted`). `MigrationGivesPauseBack` says that with no
migration open the queue stands if and only if a job failed after it had paused it.
The invariant (`PInv`): the queue stands exactly while a job that remembers the switch
is open or has failed (`PauseIsHeld`); no job remembers "paused" unless one has failed
before it (`NoPauseRemembered`), and after that no open job remembers "going"
(`FailedPauseStays`), so that nobody starts the queue again; and a job that was not
claimed remembers nothing (`Fresh`). It holds while no operator touched the switch and
no two migrations overlapped.

### A done item (`DoneDeliveryProofs`)

`DoneTypes` is TypeOK, made inductive by what is true of every row (`TInv`).
`QuietDelivered` is the central property of the chain: for any files, contents,
listings, scans, plans, requests, crashes, failing stages and lost originals,
when every row has completed and nothing is planned, everything OA shows is
archived and its Markdown was made from those bytes. The argument: a row of what
OA shows now exists from the scan on (`KnownInv`); each row is at a stage all of
whose predecessors have done their work for its files (`RowsInv`, `WorkerInv`), so
that its completion says everything is done; and what is done stays done, as the
archive, parses and documents only grow (`FilesInv`, `ParsesInv`, `ExportsInv`,
`StaysReady`). Its hypotheses are needed: OA only adds attachments; no text is
garbled and no parse product lost (both are rejected or parsed anew by a row
other than the one that completes); and every capture gets what it asks for.
Without the last the property is false: an attachment that appears later and
whose capture fails once leaves the item undelivered when the failed row is not
retried; TLC shows it on two files with one fault.

### Long jobs (`JobsProofs`)

`RetryStatusIsTrue`: classification reads the files before it writes a status;
the one status that is put back unread, by a closed browser or a new login, was
true when the row was taken and stays so because nobody writes a row in
processing (`Putback`; `Typed` and `Targeted` say that jobs name rows).
`CampaignLeavesNothing`: a completed batch has resolved items only, but for what
the console put back (`CompletedStaysResolved`); a command works on a batch that
is open (`WorksOnOpenBatch`); the job ends as completed only when every window's
batch is (`EndsWithAllCompleted`). Assumed is that windows do not overlap, which
`backfill.py` guarantees. `DownloadsAreSettled`: the rows of the jobs are numbered
without gap, the session at work is of a job that exists, and an interactive
session, which also ends as completed, is never one of a download
(`CollectionInv`).

### Components (`ComponentsProofs`)

`LeaseTable`, `LeaseExclusion`, `LiveLeases`: the table's types and unique ids;
exclusive use by sessions within their ttl, and that nobody but its holder
deletes an unexpired lease, when no acquire overtakes a recovery. The invariant
adds that a disciplined session's lease is in the table, unexpired and its own
(`UsersHoldLeases`), that a recovery has selected only ids of dead workers
(`RecoveryIsSafe`), and, for the last theorem, that it spares every session
(`RecoverySpares`).

`CleanupKeepsAndErases`: for any files, backups, runs, two commands at a time,
interruptions, overwritten originals and new backups. `Plans` says what a run may
contain, `PlannedAreOld` that a planned backup has two newer ones and a newer one
of its week - so that purging them all at once leaves the retained ones -
`Programs` what a command remembers, `Places` and `Erasures` where the bytes are.
That the ledger tells the quarantine (`LedgerIsTrue`) needs that an undisturbed
command is alone on its run and what it will write of each file is true of it
(`Works`). Assumed (`Numbered`): files have numbers, there are finitely many
backups, and no backup lies below the directories of pending items.

`BatchesAreSettled`: for any finite list of items, commands and deaths. The counts
of a batch that validates add up to its list; that everything on it is settled
then needs that the number stored as skipped is at most the number skipped now
(`SkippedStays`), since an item leaves that state only by a second capture. That
the list is made once and counted right rests on `PlannedIsEmpty` (before the
discovery there is nothing to list, repeat or exclude) and `KnowsTheList` (whoever
captures, or ends well, comes after the discovery). Assumed (`ItemsOrdered`): the
items are finitely many and ordered by their place on the list.

`AssessmentsAreSound`: for any package, ledger and placement of attachments
(`ReadinessInv`: what was answered is the answer to the package in view). A number
of rows held that an audit records lies between those it compared
(`CountsArePossible`) and differs where more is held than shown (`SubsetsDiffer`),
so that counts and statuses which agree leave no file out; the audit read is the one
that finished last (`LatestIsStrict`). That every container is reached in one way is
an argument about the first place where two ways to it differ. The proof showed that
the property has to speak of finished audits only: TLC finds it violated for one that
is still open. Assumed (`CasesAreRead`, which TLC evaluates on the run's cases) is
what the code makes of its columns: ids and times are numbers, what an audit compared
are finite sets, a ledger has one of the five kinds, and no container is called "none".

### Classification (`CandidatesProofs`)

`ClassificationsAreSound` is for any items and any number of changes, faults and
steps of the four programs in any order, provided nobody sets a lock while the model
is asked (`LockWhileThinking`). `ClassificationInv` says that the decisions of an item
form one chain that ends in the current one (`Chained`), that a decision is excluded
exactly if its run froze the item so, and is classified if it is locked (`Sound`),
that a run has adopted decisions of its own items (`RunIsSound`, `Owned`) and, when it
is completed, stands as it was sealed (`Closed`), and what a program has read stays
true while others step (`Knows`). There is one lemma for each kind of change of a run
and one for each step.

What is read and what is written are two steps here, also in a refinement
(`CheckRefined`, `AdoptRefined`), since nothing holds a lock between them: the run may
be closed after it was found open. And `retry_rejected` queues items of a closed run
again. So a completed run is not immutable, and `CompletedRunsStand` says what is true
of it: it has decided what it froze, but for items queued again, and what it adopted
is what it was sealed with, or the one decision that a refinement made of that.
`sealed` is kept for the property only.

The theorem adds the two rule sets, for any texts, names and replies.
`MetadataInv`: until an item is decided its outcome is the one of the metadata, which
left it open, so that texts and model never move an item from one side to the other.
`DossierInv`: what is proposed was judged by the names alone or with the texts; the
rest are lemmas about what wins among files, copies included. Assumed (`CasesAreRead`
of each, which TLC evaluates too): the numbers found in a text are finitely many, and
nothing that was found is called "none".

### Candidates (`CandidatesProofs`)

`CandidatesStaySound` is for any items, contents, attachments, samples and builds,
with a death between any two writes.

* A build (`BuildInv`): what the process holds is what the manifest says, but for the
  items it has done since (`HeldFits`); the package in its hands is of the frozen
  decision (`PackageFits`); a package that a row names is there and whole
  (`PackagesStand`); and while nothing died and no repair was refused half-way, nothing
  lies beside them (`NothingLiesAbout`).
* A backfill (`BackfillInv`): runs, commands, builds and results agree. That a sample
  is exact (`SamplesAreExact`) is proved for every catalog, by numbering its items in
  a strict total order instead of an induction over the sequence.
* Attachments (`AttachmentsInv`): what is cached for a content was parsed from it,
  as long as no original was touched between its check and the parse (`CacheFits`);
  what a converter holds fits its package, every attachment is taken once, and a link
  leads to a note (`Fits` with `TextFits`, `TakenOnce`, `TakenAll`, `LinksLead`).

Assumed is that there is something to build and that attachments are numbered.
`ComponentsTakeItems` shows that every behaviour of `MCComponents` is one of
`MCItems`, so that both theorems hold of what the run checks.

### Only model-checked

All liveness, which is out of the prover's reach: `NotifiedOrParked`,
`DeliveredIsErased`, `AbandonedWorkIsRecovered`, `EveryItemIsAudited`,
`RowsComeToAnEnd`, `DeliveredOrShown`, `MigrationsEnd`, `CollectionEnds`,
`CampaignRests`, `RetryEnds`. And, for want of a proof so far: `CompleteMeansListed` and
`CaptureIsHonest`, of which a part (`ViewsAreKept`) says what an algorithm computes on a
sequence and would need induction over data. Looking for an
invariant for the first showed that it does not hold for any number of changes,
whence `FewChanges`: a scan can be deceived by `PageSize + 1` items that come and
go. Besides the run, TLC has checked it for pages of one and of two items with every
number of changes that is allowed (3 and 5), and found it violated with one more.

## 5. Not modelled

PROJECT.json lists every component with its status, and the hazards no property
covers yet with the reason. Wording, layout, progress columns and logs are left
out everywhere.

* Title screening is an ordered list of patterns with manual overrides; the
  interleaving that matters, exclusions that change while a retry runs, is in
  `ManifestRetry`. Regular expressions are data in the rule sets too.
* Knowledge trial, vault rebuild, wiki and Obsidian publication are batch tools
  of one process that rebuild a directory from the database and start anew when
  they failed. Curation is a retired stage.
* Parsers, converters, the browser and the pages are external: what the pipeline
  does with each of their outcomes is modelled where a stage branches on it.
  Snapshots of a page (`detail.py:371-448`) are I/O.
* In the done chain: the mode with attachments only, an empty listing that OA does
  not confirm, and an active archive classification plan. With one, `_pipeline_classify`
  follows the library plan, publishes and goes on without the gate on the decision
  (`worker.py:1010-1027`), and `publish_item_index` writes the library's index
  (`markdown_delivery.py:269-276`); `DoneDelivery` is the chain without a plan.
  In the pending pipeline: the retry of a summary from the console, which refuses in every state the modelled pipeline reaches
  (`console_views.py:458`), and the expiry of sessions, which appears as a failure.
* Quick audits as runs: their verdict is in `AuditEvidence`, their way through a run is
  that of a full audit without reading, supplements or repair. A clean-up checks a
  file's hash and moves it in one step here (`quarantine.py:118`, `129`).
* In the collection: expiry of the lease of a live owner, and a child that
  survives its host. The desktop variant of the retry command.
* The archive-date reconciliation job and the relocation of Markdown trees;
  `integrity_reconciliation.py` and `reconcile.py`, which only report.
* CLI wiring, configuration, the frontend, schema migrations.

## 6. Where the code differs from what is written about it

Two runs show a disagreement:

| Run | Statement | What happens |
|---|---|---|
| `pending_wrong_version` | payload is erased only after Feishu confirmed | the console's retry of an older delivery sends the newest summary and records the answer on the older row |
| `pending_changed_item` | what is still being summarised is kept | the cleanup of one version erases the captured next one |

The others were met while modelling; the property named excepts the case, or the
model has the behaviour without a property about it. PROJECT.json quotes the
text each contradicts.

| Where | What happens | Exception |
|---|---|---|
| `production_pipeline.py:533` | an abandoned row of the local worker is queued for the operation worker | `LocalWorkStaysLocal` is not among the properties |
| `online_audit.py:508` | a changed archive does not invalidate older evidence; only tests call the functions that would | `SafeEvidenceIsCurrent`, likewise |
| `done_convergence.py:127` | a convergence never revives its row once that is completed | the last disjunct of `DeliveredOrShown` |
| `detail_archive.py:95` | the row of a failed file OA no longer shows cannot be deleted when it was parsed before; every later capture fails | `Undeletable` in the model |
| `collector/detail.py:1039` | an error on one control leaves no trace, and the item may be confirmed as having no attachment | `overlooked` |
| `done_collection.py:266` | a scan restarted within a session compares with totals read at its opening | `mem.again` |
| `done_collection.py:297` | more items than a page holds come and leave again between two pages: keys of items that are gone make up the number of those never read, and the scan completes | `FewChanges` |
| `web/worker.py:166` | an "audit all" retry counts rows it never opened as successes | `AuditOpensEveryItem` is not among the properties |
| `batches.py:301` | a skipped item that is archived after all stays counted as skipped, and the batch validates with an open item | `notes.again` |
| `classification/service.py:516` | a death inside `_decide_claimed` strands the item of a run | `NothingIsStranded` is not among the properties |
| `web/worker.py:297` | an error the migration does not handle, a failed commit of a moved path for one, ends its job as failed: no review entry, the Markdown queue stays paused, and the job is never taken up again | `Abandoned` in `PauseIsGivenBack` |
| `classification/service.py:314` | a refinement that found its run open writes when it is closed | `CompletedRunsStand` allows one such write per item |
| `classification/semantic_run.py:144` | `retry_rejected` queues items of a completed run again; only a test calls it | the same property, for queued items |
| `classified_candidate_build.py:507` | a repair that is refused half-way writes no manifest; after two moves of an item two of its packages lie there | `spent.forgot` in `PackagesAreFrozen` |
| `classification/fingerprint.py:841` | three kinds of assessments are refused by the adapter | `Unsupported` |
| `per_item_classifier.py:146`, `service.py:283`, `backfill_mvp.py:1116` | quoted form names, initiators and ambiguous issuers decide what the documents say they do not | none, modelled as they are |
| `title_screening.py:253` | a title rule replaces a manual decision | not modelled |

Further behaviours depend on a constant or are named in a property, and are not
findings, because no text promises more:

* `PidReuse = TRUE`: an orphan row whose owner's pid is alive again waits for its
  lease and the next restart. `RecoveryRaces = TRUE`: a recovery overtaken by an
  acquire can delete a live lease whose row id came back. `Ambiguous = TRUE`: an
  accepted POST reported as a connection error is sent again.
* `LockWhileThinking = TRUE`: the semantic review replaces a lock a person set
  while the model was asked.
* A batch that was paused is listed again by a late discovery (`relisted`); a
  campaign's console puts items back in a completed batch (`reopened`); an
  operator's use of the switch or two overlapping migrations end the promise
  about the pause (`touched`); an interrupted clean-up leaves files in its
  quarantine that no row records (`disturbed`).
* An original that stays away while no product of it is left sends a row round
  between `source_publish` and `attachment_inventory` for ever (the exception of
  `RowsComeToAnEnd`).
* The daily runner starts no download while one is paused or waits for a login.
  A window with excluded items only fails for ever, and an item at the depth
  limit is never resolved (both end the campaign at its limits). An item enrolled
  after the migration job of its run completed is not migrated under that run.
* A quick audit calls an item matched when the keys agree; the bytes may differ. An
  item that was only counted, by an observation no inspector of the worker makes, is
  matched when the numbers agree, and may become safe when a later batch recomputes
  its verdict (`AuditEvidence`).
* With `max_attachment_depth` 1, which `config.py:80` admits, the documents an item
  refers to are captured at depth 2, and what they refer to is neither read nor noted
  as not visited (`detail.py:488`, `495`).
* A recapture that changes an attachment's bytes keeps its link to the old
  content (`CandidateAttachments`), two official bodies of an item share one
  note, and a death between the rename of a package and its checkpoint leaves a
  row `package_failed` until the build is repaired by hand.

## 7. Plan

1. Proofs: `CompleteMeansListed` (the pages of a moving list), `CaptureIsHonest`.
2. Lemmas that the proofs of `MCComponents` keep needing (cardinalities through
   an instance, the newest of a set of numbers) could move to a module of their
   own when another component needs them.
3. The library plan that the done chain follows when one is active, the archive-date
   reconciliation and title screening.
