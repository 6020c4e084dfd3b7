----------------------------- MODULE DoneDelivery -----------------------------
(***************************************************************************)
(* One done item on its way from the OA list to its Markdown index:        *)
(*   done_capture_and_archive -> archive_verify, which enqueues a row of   *)
(*   markdown_delivery: attachment_inventory -> parse -> source_publish    *)
(*   -> classify -> index_publish                                          *)
(* and the convergence that repairs it (done_convergence.py): it plans     *)
(* from a snapshot and applies the plan in a later transaction.            *)
(*                                                                         *)
(* Every commit of a handler is a step, so a crash can fall between any    *)
(* two of them.  Only one worker runs (module ProductionQueue); a crash    *)
(* and the recovery of the row at the next start are one step, because     *)
(* nobody else distinguishes a running row from a queued one.  The rows    *)
(* are kept in creation order; a back-off only delays a claim, so any row  *)
(* in back-off may be claimed as soon as it is first.                      *)
(*                                                                         *)
(* No ArchiveClassificationPlan is active: the library plan that           *)
(* _pipeline_classify and publish_item_index then follow is left out.      *)
(***************************************************************************)
EXTENDS PipelineTask, Sequences

CONSTANTS
    Files,        \* the attachments the item ever has in OA
    Contents,     \* their bytes
    NoContent,    \* the file is not there
    Listings,     \* Seq of [Files -> Contents or NoContent]: what OA shows
    Kinds,        \* what the files may be to the parsers
    Verdicts,     \* what the classifier may decide
    Damages,      \* what may happen to files on the disk
    Worker,       \* pid of the operation worker
    MaxRequests,  \* bound on requests of the console
    MaxTrouble    \* bound on faults, crashes and losses together

ASSUME ListingsAssumption ==
    /\ NoContent \notin Contents
    /\ Len(Listings) \in Nat \ {0}
    /\ \A v \in 1..Len(Listings) :
           Listings[v] \in [Files -> Contents \cup {NoContent}]
ASSUME ChoiceAssumption ==
    /\ Kinds \subseteq {"text", "lossy", "garbled", "encrypted",
                        "unconvertible", "unsupported", "technical"}
    /\ Verdicts \subseteq {"classified", "needs_review", "blocked"}
    /\ Damages \subseteq {"lost", "changed", "product", "published", "index"}
    /\ Worker \in Pids
    /\ MaxRequests \in Nat
    /\ MaxTrouble \in Nat

VARIABLES
    shown,      \* index of the listing OA shows; stands for its discovery_hash
    kind,       \* Files -> Kinds
    manifest,   \* the OAManifestItem: status, hash, confirmed, excluded
    archive,    \* Files -> the ArchivedFile row: status, content, object
    item,       \* the OAItem exists and has an archive_relpath
    disk,       \* Files -> the original on the disk: intact, lost, changed
    job,        \* Files -> status of the parse job
    made,       \* Files -> content object of the newest artifact of the job
    artifact,   \* Contents (content objects) -> lifecycle and body
    products,   \* content objects whose artifact is in the parse cache
    export,     \* Files -> the MarkdownExport: status, content, body
    published,  \* files whose exported Markdown is on the disk
    index,      \* the item_index export: none, success, lost
    decision,   \* the current ClassificationDecision
    tasks,      \* Seq of [key, queue, row] in creation order
    pc, cur, out,
    sig,        \* the content signature archive_verify has computed
    plan,       \* what the convergence has decided to do
    requests, trouble

sourceVars == <<shown, kind>>
archiveVars == <<manifest, archive, item, disk>>
parseVars == <<job, made, artifact, products>>
exportVars == <<export, published, index>>
workerVars == <<pc, cur, out, sig>>
boundVars == <<requests, trouble>>
vars == <<sourceVars, archiveVars, parseVars, exportVars, decision, tasks,
          workerVars, plan, boundVars>>

DownloadStages == {"done_capture_and_archive", "archive_verify"}
MarkdownStages ==
    {"attachment_inventory", "parse", "source_publish", "classify",
     "index_publish"}
Active(row) == row.status \in {"queued", "running"}

NoFile == [status |-> "absent", content |-> NoContent, object |-> NoContent]
NoArtifact == [life |-> "none", body |-> NoContent]
NoExport == [status |-> "none", content |-> NoContent, body |-> NoContent]
Signature == <<manifest.hash, [f \in Files |-> archive[f].content]>>
NoSignature == <<0, [f \in Files |-> NoContent]>>
NoPlan == [op |-> "none", row |-> 0, phase |-> "download"]

Listed == {f \in Files : archive[f].status # "absent"}
Verified == {f \in Files : archive[f].status = "verified"}
Keys == {tasks[i].key : i \in DOMAIN tasks}

RowOf(key) == CHOOSE i \in DOMAIN tasks : tasks[i].key = key

\* The row of some stages that was created last, 0 if there is none.
Newest(stages) ==
    LET those == {i \in DOMAIN tasks : tasks[i].row.stage \in stages}
    IN  IF those = {} THEN 0 ELSE CHOOSE i \in those : \A j \in those : j <= i

\* The rows after an idempotent enqueue.
Enqueued(queue, key, stage) ==
    IF key \in Keys THEN tasks
    ELSE Append(tasks, [key |-> key, queue |-> queue,
                        row |-> EnqueueRow(stage, FALSE)])

Init ==
    /\ shown = 1 /\ kind \in [Files -> Kinds]
    /\ manifest = [status |-> "absent", hash |-> 0, confirmed |-> FALSE,
                   excluded |-> FALSE]
    /\ archive = [f \in Files |-> NoFile] /\ item = FALSE
    /\ disk = [f \in Files |-> "intact"]
    /\ job = [f \in Files |-> "none"] /\ made = [f \in Files |-> NoContent]
    /\ artifact = [c \in Contents |-> NoArtifact] /\ products = {}
    /\ export = [f \in Files |-> NoExport] /\ published = {} /\ index = "none"
    /\ decision = [status |-> "none", locked |-> FALSE, material |-> {}]
    /\ tasks = <<>>
    /\ pc = "idle" /\ cur = 0 /\ out = NoOutcome /\ sig = NoSignature
    /\ plan = NoPlan /\ requests = 0 /\ trouble = 0

-----------------------------------------------------------------------------
(* OA, the scans and the screening.                                        *)

OaChanges ==
    /\ shown < Len(Listings)
    /\ shown' = shown + 1
    /\ UNCHANGED <<kind, archiveVars, parseVars, exportVars, decision, tasks,
                   workerVars, plan, boundVars>>

\* reuse_existing_archive and verified_archive_exists only look for the files;
\* they do not hash them.
AllOnDisk ==
    Listed # {} /\ \A f \in Listed : f \in Verified /\ disk[f] # "lost"

Reusable(m) == item /\ (AllOnDisk \/ (Listed = {} /\ m.confirmed))

\* classify_manifest_rows on a row no rule excludes.
Reviewed(m) ==
    LET kept == \/ m.status = "no_attachment" /\ m.confirmed
                \/ m.status = "downloaded" /\ item /\ AllOnDisk
                \/ m.status = "depth_limit_reached"
    IN  [m EXCEPT !.status =
            IF kept THEN @
            ELSE IF Reusable(m) THEN IF AllOnDisk THEN "downloaded"
                                     ELSE "no_attachment"
            ELSE IF @ \in {"absent", "pending_download"} THEN "pending_download"
            ELSE "download_failed"]

\* enqueue_realtime_done: the key holds the discovery hash.  The hourly scan
\* takes the rows before the boundary of known rows, the nightly scan all, and
\* also enqueues a row whose download is pending or has failed.
Scan(mode) ==
    LET seen == manifest.status # "absent" /\ manifest.hash = shown
        next == IF manifest.excluded \/ (mode = "hourly" /\ seen) THEN manifest
                ELSE Reviewed(manifest)
        retry == mode = "nightly"
                     /\ next.status \in {"pending_download", "download_failed"}
    IN  /\ manifest' = [next EXCEPT !.hash = shown]
        /\ tasks' = IF ~manifest.excluded /\ (~seen \/ retry)
                    THEN Enqueued("realtime_done", <<"realtime-done", shown>>,
                                  "done_capture_and_archive")
                    ELSE tasks
        /\ UNCHANGED <<sourceVars, archive, item, disk, parseVars, exportVars,
                       decision, workerVars, plan, boundVars>>

\* A title rule comes to match: matched_exclusion_keyword is set, and status
\* skipped, of which a capture in flight overwrites the status only.
Exclude ==
    /\ manifest.status # "absent" /\ ~manifest.excluded
    /\ manifest' = [manifest EXCEPT !.excluded = TRUE]
    /\ UNCHANGED <<sourceVars, archive, item, disk, parseVars, exportVars,
                   decision, tasks, workerVars, plan, boundVars>>

-----------------------------------------------------------------------------
(* The worker.                                                             *)

Rank(i) == ClaimRank(tasks[i].queue, tasks[i].row.stage)

Claim(i) ==
    /\ pc = "idle" /\ tasks[i].row.status = "queued"
    /\ \A j \in DOMAIN tasks \ {i} :
           tasks[j].row.status = "queued" /\ ~tasks[j].row.backoff =>
               Rank(i) < Rank(j) \/ (Rank(i) = Rank(j) /\ i < j)
    /\ tasks' = [tasks EXCEPT ![i].row = ClaimRow(@, Worker)]
    /\ pc' = "executing" /\ cur' = i /\ UNCHANGED <<out, sig>>
    /\ UNCHANGED <<sourceVars, archiveVars, parseVars, exportVars, decision,
                   plan, boundVars>>

At(stage) == pc = "executing" /\ tasks[cur].row.stage = stage

Idle_KeepsRow == pc' = "idle" /\ UNCHANGED <<cur, out, sig>>
Idle == pc' = "idle" /\ cur' = 0 /\ out' = NoOutcome /\ sig' = NoSignature
Answer(outcome) == pc' = "reporting" /\ out' = outcome /\ UNCHANGED cur
                   /\ sig' = NoSignature

Refused == Failed(FALSE, FALSE, "other")

\* The commit of advance, complete or fail.
Report ==
    /\ pc = "reporting"
    /\ tasks' = [tasks EXCEPT ![cur].row = ResultRow(@, @, out, FALSE)]
    /\ Idle
    /\ UNCHANGED <<sourceVars, archiveVars, parseVars, exportVars, decision,
                   plan, boundVars>>

Trouble == trouble < MaxTrouble /\ trouble' = trouble + 1 /\ UNCHANGED requests

\* Any handler may raise: browser busy or logged out, a database lock, a
\* parser that fails for a passing reason.
Fault ==
    /\ pc \in {"executing", "capturing", "publishing"} /\ Trouble
    /\ Answer(Failed(FALSE, TRUE, "other"))
    /\ UNCHANGED <<sourceVars, archiveVars, parseVars, exportVars, decision,
                   tasks, plan>>

Crash_NoRecovery ==
    /\ pc # "idle" /\ Trouble
    /\ Idle
    /\ UNCHANGED <<sourceVars, archiveVars, parseVars, exportVars, decision,
                   tasks, plan>>

\* The worker dies; the next start recovers the row of its dead pid.
Crash ==
    /\ pc # "idle" /\ Trouble
    /\ tasks' = [tasks EXCEPT ![cur].row = RecoverRow(@)]
    /\ Idle
    /\ UNCHANGED <<sourceVars, archiveVars, parseVars, exportVars, decision, plan>>

\* An original, a parse product or a published document leaves the disk.
LoseOriginal(f) ==
    /\ archive[f].content # NoContent /\ disk[f] = "intact" /\ Trouble
    /\ \E d \in Damages \cap {"lost", "changed"} : disk' = [disk EXCEPT ![f] = d]
    /\ UNCHANGED <<sourceVars, manifest, archive, item, parseVars, exportVars,
                   decision, tasks, workerVars, plan>>

LoseProduct(c) ==
    /\ c \in products /\ "product" \in Damages /\ Trouble
    /\ products' = products \ {c}
    /\ UNCHANGED <<sourceVars, archiveVars, job, made, artifact, exportVars,
                   decision, tasks, workerVars, plan>>

LosePublished(f) ==
    /\ f \in published /\ "published" \in Damages /\ Trouble
    /\ published' = published \ {f}
    /\ UNCHANGED <<sourceVars, archiveVars, parseVars, export, index, decision,
                   tasks, workerVars, plan>>

LoseIndex ==
    /\ index = "success" /\ "index" \in Damages /\ Trouble
    /\ index' = "lost"
    /\ UNCHANGED <<sourceVars, archiveVars, parseVars, export, published,
                   decision, tasks, workerVars, plan>>

-----------------------------------------------------------------------------
(* done_capture_and_archive and archive_verify.                            *)

\* Exclusion is only looked at before the browser opens.
BeginCapture ==
    /\ At("done_capture_and_archive")
    /\ IF manifest.excluded
       THEN Answer(Completed)
       ELSE pc' = "capturing" /\ UNCHANGED <<cur, out, sig>>
    /\ UNCHANGED <<sourceVars, archiveVars, parseVars, exportVars, decision,
                   tasks, plan, boundVars>>

\* A capture whose empty listing is not confirmed is not modelled: it goes the
\* way of a confirmed one, and archive_verify refuses both.
\* archive_collaboration_detail: a failed download keeps the bytes and the
\* path of an earlier one; a failed row that OA no longer shows is deleted.
Archived(f, failed) ==
    LET seen == Listings[shown][f]
    IN  IF seen = NoContent
        THEN IF archive[f].status = "failed" THEN NoFile ELSE archive[f]
        ELSE IF f \in failed THEN [archive[f] EXCEPT !.status = "failed"]
        ELSE [archive[f] EXCEPT !.status = "verified", !.content = seen]

\* The row of a failed file that OA no longer shows is deleted; the row of its
\* parse job cannot lose its file, so that the commit of the capture fails.
Undeletable ==
    {f \in Files : archive[f].status = "failed" /\ Listings[shown][f] = NoContent
                       /\ job[f] # "none"}

\* proxy.archive_status and the manifest in one commit, after the files.
EndCapture(failed, deep) ==
    LET attached == {f \in Files : Listings[shown][f] # NoContent}
        status == IF deep THEN "depth_limit_reached"
                  ELSE IF failed # {} THEN "download_failed"
                  ELSE IF attached # {} \/ Verified # {} THEN "downloaded"
                  ELSE "no_attachment"
        written(f) == IF Undeletable = {} \/ archive[f].content = Listings[shown][f]
                      THEN "intact" ELSE "changed"
    IN  /\ pc = "capturing"
        /\ failed \subseteq attached
        /\ IF failed # {} \/ deep THEN Trouble ELSE UNCHANGED boundVars
        /\ disk' = [f \in Files |-> IF f \in attached \ failed THEN written(f) ELSE disk[f]]
        /\ IF Undeletable # {}
           THEN Answer(Failed(FALSE, TRUE, "other")) /\ UNCHANGED <<archive, item, manifest>>
           ELSE /\ archive' = [f \in Files |-> Archived(f, failed)]
                /\ item' = TRUE
                /\ manifest' = [manifest EXCEPT !.status = status,
                                                !.confirmed = status = "no_attachment"]
                /\ Answer(IF deep THEN Refused
                          ELSE IF failed # {} THEN Failed(FALSE, TRUE, "other")
                          ELSE Advanced("archive_verify"))
        /\ UNCHANGED <<sourceVars, parseVars, exportVars, decision, tasks, plan>>

\* verify_done_archive hashes every file; a row without files is refused.
ArchiveVerified ==
    /\ item /\ manifest.status # "depth_limit_reached"
    /\ Listed # {}
    /\ \A f \in Listed : f \in Verified /\ disk[f] = "intact"

VerifyArchive ==
    /\ At("archive_verify")
    /\ manifest' = [manifest EXCEPT !.status =
                       IF ArchiveVerified THEN "downloaded" ELSE "download_failed"]
    /\ IF ArchiveVerified THEN pc' = "handing" /\ sig' = Signature /\ UNCHANGED <<cur, out>>
       ELSE Answer(Refused)
    /\ UNCHANGED <<sourceVars, archive, item, disk, parseVars, exportVars,
                   decision, tasks, plan, boundVars>>

HandOver_OncePerItem ==
    /\ pc = "handing"
    /\ tasks' = Enqueued("markdown_delivery", <<"markdown">>, "attachment_inventory")
    /\ Answer(Completed)
    /\ UNCHANGED <<sourceVars, archiveVars, parseVars, exportVars, decision,
                   plan, boundVars>>

\* The second of three commits: manifest, markdown row, own row.
HandOver ==
    /\ pc = "handing"
    /\ tasks' = Enqueued("markdown_delivery", <<"markdown", sig>>,
                         "attachment_inventory")
    /\ Answer(Completed)
    /\ UNCHANGED <<sourceVars, archiveVars, parseVars, exportVars, decision,
                   plan, boundVars>>

-----------------------------------------------------------------------------
(* The stages of markdown_delivery.                                        *)

Valid(f) == artifact[archive[f].object].life = "valid"

HasArtifact(f) == archive[f].object # NoContent /\ Valid(f)

\* evaluate_eligibility: technical names and page frames are source evidence
\* only, unknown formats and containers go to review.
Eligible(f) == kind[f] \notin {"unsupported", "technical"} /\ disk[f] # "lost"

\* ParsePipeline.enqueue: the default request is served by the valid product
\* of the very bytes; otherwise a job is found by file and engine.
Current(f) ==
    /\ HasArtifact(f)
    /\ archive[f].object = archive[f].content
    /\ artifact[archive[f].object].body = archive[f].content
    /\ archive[f].object \in products

Requested(f) == f \in Verified /\ disk[f] = "intact" /\ ~Current(f) /\ Eligible(f)
FirstJob(f) == Requested(f) /\ job[f] = "none"
ProductGone(f) == Requested(f) /\ job[f] = "completed" /\ made[f] \notin products

\* Each file is committed by itself; files without a commit change nothing.
Inventory ==
    LET fresh == {f \in Files : FirstJob(f) \/ ProductGone(f)}
    IN  /\ At("attachment_inventory")
        /\ IF manifest.excluded
           THEN Answer(Completed) /\ UNCHANGED <<archive, job, artifact>>
           ELSE IF ~item
           THEN Answer(Failed(FALSE, TRUE, "other"))
                    /\ UNCHANGED <<archive, job, artifact>>
           ELSE /\ job' = [f \in Files |-> IF f \in fresh THEN "queued" ELSE job[f]]
                /\ archive' = [f \in Files |->
                       IF f \in fresh
                       THEN [archive[f] EXCEPT !.object = archive[f].content]
                       ELSE archive[f]]
                /\ artifact' = [c \in Contents |->
                       IF \E f \in fresh : ProductGone(f) /\ made[f] = c
                       THEN [artifact[c] EXCEPT !.life = "superseded"]
                       ELSE artifact[c]]
                /\ Answer(Advanced(IF Verified = {} THEN "classify" ELSE "parse"))
        /\ UNCHANGED <<sourceVars, manifest, item, disk, made, products,
                       exportVars, decision, tasks, plan, boundVars>>

\* ParsePipeline.run on one queued job: what becomes of the job, and whether
\* the handler raises.
ParseResult(f) ==
    IF manifest.excluded THEN [job |-> "queued", raises |-> TRUE]
    ELSE IF disk[f] # "intact" THEN [job |-> "failed", raises |-> TRUE]
    ELSE CASE kind[f] = "encrypted" -> [job |-> "failed", raises |-> TRUE]
           [] kind[f] = "unconvertible" -> [job |-> "skipped", raises |-> FALSE]
           [] OTHER -> [job |-> "completed", raises |-> FALSE]

ParseOne(f) ==
    LET result == ParseResult(f)
        object == archive[f].object
    IN  /\ At("parse") /\ job[f] = "queued"
        /\ job' = [job EXCEPT ![f] = result.job]
        /\ IF result.job = "completed"
           THEN /\ made' = [made EXCEPT ![f] = object]
                /\ artifact' = [artifact EXCEPT ![object] =
                       [life |-> IF kind[f] = "garbled" THEN "rejected" ELSE "valid",
                        body |-> archive[f].content]]
                /\ products' = products \cup {object}
           ELSE UNCHANGED <<made, artifact, products>>
        /\ Answer(IF result.raises THEN Failed(FALSE, TRUE, "other")
                  ELSE Advanced("parse"))
        /\ UNCHANGED <<sourceVars, archiveVars, exportVars, decision, tasks,
                       plan, boundVars>>

ParsesDone ==
    /\ At("parse") /\ \A f \in Files : job[f] # "queued"
    /\ Answer(IF \E f \in Files : job[f] = "failed"
              THEN Failed(FALSE, TRUE, "other")
              ELSE Advanced("source_publish"))
    /\ UNCHANGED <<sourceVars, archiveVars, parseVars, exportVars, decision,
                   tasks, plan, boundVars>>

\* A file without a valid artifact is given up, refused, or sent back.
GivenUp_Review(f) == kind[f] = "unsupported" /\ disk[f] # "lost"
GivenUp(f) == job[f] = "skipped" \/ (kind[f] = "unsupported" /\ disk[f] # "lost")
WasRejected(f) ==
    made[f] # NoContent /\ artifact[made[f]].life = "rejected"

SourcePublish ==
    LET open == {f \in Verified : ~HasArtifact(f) /\ ~GivenUp(f)}
    IN  /\ At("source_publish")
        /\ Answer(IF ~item THEN Refused
                  ELSE IF \E f \in open : WasRejected(f) THEN Refused
                  ELSE IF open # {} THEN Advanced("attachment_inventory")
                  ELSE Advanced("classify"))
        /\ UNCHANGED <<sourceVars, archiveVars, parseVars, exportVars, decision,
                       tasks, plan, boundVars>>

\* dossier_material_signature: what the classifier has read.
Material == {f \in Verified : HasArtifact(f)}

\* _classify_archived_item: a human decision stands, a classified one stands
\* while the material is the same, everything else is decided again.  Not here is
\* the branch for an active plan (worker.py:1010-1027), which skips the gate below.
Classify(verdict) ==
    LET kept == decision.locked \/ (decision.status = "classified"
                                     /\ decision.material = Material)
        next == IF kept THEN decision
                ELSE [status |-> verdict, locked |-> FALSE, material |-> Material]
    IN  /\ At("classify")
        /\ IF manifest.excluded
           THEN Answer(Completed) /\ UNCHANGED decision
           ELSE /\ decision' = next
                /\ IF next.status = "classified"
                   THEN pc' = "publishing" /\ UNCHANGED <<cur, out, sig>>
                   ELSE Answer(Refused)
        /\ UNCHANGED <<sourceVars, archiveVars, parseVars, exportVars, tasks,
                       plan, boundVars>>

\* publish_active_artifact
UpToDate(f) ==
    /\ export[f].status = "success" /\ f \in published
    /\ export[f].body = artifact[archive[f].object].body

Publish ==
    LET files == {f \in Verified : HasArtifact(f)}
        written == {f \in files : ~UpToDate(f)}
        ready == ~manifest.excluded
                     /\ \A f \in written : archive[f].object \in products
    IN  /\ pc = "publishing"
        /\ IF ready
           THEN /\ export' = [f \in Files |->
                       IF f \in written
                       THEN [status |-> IF kind[f] = "lossy" THEN "failed" ELSE "success",
                             content |-> archive[f].content,
                             body |-> artifact[archive[f].object].body]
                       ELSE export[f]]
                /\ published' = published \cup written
                /\ Answer(Advanced("index_publish"))
           ELSE UNCHANGED <<export, published>>
                    /\ Answer(Advanced("attachment_inventory"))
        /\ UNCHANGED <<sourceVars, archiveVars, parseVars, index, decision,
                       tasks, plan, boundVars>>

\* The item's own index; the library index of an active plan is left out.
IndexPublish ==
    LET ready == item /\ decision.status = "classified"
    IN  /\ At("index_publish")
        /\ index' = IF ready THEN "success" ELSE index
        /\ Answer(IF ready THEN Completed ELSE Failed(FALSE, TRUE, "other"))
        /\ UNCHANGED <<sourceVars, archiveVars, parseVars, export, published,
                       decision, tasks, plan, boundVars>>

-----------------------------------------------------------------------------
(* The convergence and the console.                                        *)

ArchiveReady ==
    \/ manifest.status = "no_attachment" /\ manifest.confirmed
    \/ manifest.status = "downloaded" /\ item

\* delivery_facts_map: a file counts when its newest export is of the archived
\* bytes and still on the disk.
FileDelivered(f) ==
    /\ export[f].status = "success" /\ f \in published
    /\ export[f].content = archive[f].content

Delivered ==
    /\ ~manifest.excluded /\ decision.status = "classified"
    /\ manifest.status \in {"downloaded", "no_attachment"}
    /\ index = "success"
    /\ \A f \in Listed : FileDelivered(f)
    /\ Listed # {} \/ (manifest.status = "no_attachment" /\ manifest.confirmed)

PhaseKey(phase) == IF phase = "markdown" THEN <<"converge-markdown">>
                   ELSE <<"converge-download">>

\* DoneConvergencePlanner.plan for this item.
Repair ==
    LET phase == IF ArchiveReady THEN "markdown" ELSE "download"
        i == Newest(IF ArchiveReady THEN MarkdownStages ELSE DownloadStages)
        row == IF i = 0 THEN AbsentRow("classify") ELSE tasks[i].row
        atClassify == i # 0 /\ row.stage = "classify"
        key == PhaseKey(phase)
        requeue(k) == [op |-> "requeue", row |-> k, phase |-> phase]
    IN  IF \/ manifest.status = "absent" \/ manifest.excluded
           \/ ArchiveReady /\ Delivered
           \/ i # 0 /\ Active(row)
           \/ atClassify /\ decision.status = "needs_review"
        THEN NoPlan
        ELSE IF atClassify /\ decision.status = "classified"
                    /\ row.status \in {"completed", "failed"}
        THEN requeue(i)
        ELSE IF i # 0 /\ row.status = "failed"
        THEN IF row.recoverable THEN requeue(i) ELSE NoPlan
        ELSE IF key \in Keys
        THEN LET k == RowOf(key)
             IN  IF tasks[k].row.status = "failed" /\ tasks[k].row.recoverable
                 THEN requeue(k) ELSE NoPlan
        ELSE [op |-> "create", row |-> 0, phase |-> phase]

Converge ==
    /\ plan = NoPlan /\ Repair # NoPlan
    /\ plan' = Repair
    /\ UNCHANGED <<sourceVars, archiveVars, parseVars, exportVars, decision,
                   tasks, workerVars, boundVars>>

\* The failed parse jobs of the item start over with the row.
JobsReset == [f \in Files |-> IF job[f] = "failed" THEN "queued" ELSE job[f]]

\* _apply_actions, in a transaction of its own: only exclusion, the status of
\* the row and the key are looked at again.
Apply ==
    LET markdown == plan.phase = "markdown"
        row == tasks[plan.row].row
        revive == plan.op = "requeue" /\ ~Active(row)
    IN  /\ plan # NoPlan
        /\ plan' = NoPlan
        /\ IF manifest.excluded THEN UNCHANGED <<tasks, job>>
           ELSE IF plan.op = "create"
           THEN /\ tasks' = IF markdown
                      THEN Enqueued("markdown_delivery", PhaseKey("markdown"),
                                    "attachment_inventory")
                      ELSE Enqueued("realtime_done", PhaseKey("download"),
                                    "done_capture_and_archive")
                /\ UNCHANGED job
           ELSE /\ tasks' = IF revive THEN [tasks EXCEPT ![plan.row].row = RetryRow(@)]
                            ELSE tasks
                /\ job' = IF revive /\ markdown /\ item THEN JobsReset ELSE job
        /\ UNCHANGED <<sourceVars, archiveVars, made, artifact, products,
                       exportVars, decision, workerVars, boundVars>>

Request == requests < MaxRequests /\ requests' = requests + 1 /\ UNCHANGED trouble

\* retry_markdown_item
RetryMarkdown ==
    LET i == Newest(MarkdownStages)
        local == {j \in DOMAIN tasks : tasks[j].row.stage \in MarkdownStages}
        failed == i # 0 /\ tasks[i].row.status = "failed"
        restart == [EnqueueRow("attachment_inventory", FALSE) EXCEPT
                        !.recoverable = IF failed THEN tasks[i].row.recoverable
                                        ELSE TRUE]
    IN  /\ item /\ Request
        /\ manifest.status = "downloaded"
               \/ (manifest.status = "no_attachment" /\ manifest.confirmed)
        /\ decision.status # "needs_review"
        /\ \A j \in local : ~Active(tasks[j].row)
        /\ ~(failed /\ ~tasks[i].row.recoverable)
        /\ job' = JobsReset
        /\ tasks' = IF failed THEN [tasks EXCEPT ![i].row = restart]
                    ELSE Append(tasks, [key |-> <<"ui-markdown", requests>>,
                                        queue |-> "markdown_delivery",
                                        row |-> restart])
        /\ UNCHANGED <<sourceVars, archiveVars, made, artifact, products,
                       exportVars, decision, workerVars, plan>>

\* retry_done_archive
RetryArchive ==
    /\ manifest.status = "download_failed"
           \/ (manifest.status = "no_attachment" /\ ~manifest.confirmed)
    /\ \A i \in DOMAIN tasks :
           tasks[i].queue = "realtime_done" => ~Active(tasks[i].row)
    /\ Request
    /\ tasks' = Append(tasks, [key |-> <<"ui-archive", requests>>,
                               queue |-> "realtime_done",
                               row |-> EnqueueRow("done_capture_and_archive", FALSE)])
    /\ UNCHANGED <<sourceVars, archiveVars, parseVars, exportVars, decision,
                   workerVars, plan>>

\* update_item_classification: a locked decision, and a row at classify unless
\* a local row is active.  It stands also when the second commit is lost.
Decide(queued) ==
    /\ item /\ ~manifest.excluded /\ ArchiveReady /\ Request
    /\ decision' = [status |-> "classified", locked |-> TRUE, material |-> Material]
    /\ tasks' = IF queued /\ \A i \in DOMAIN tasks :
                        tasks[i].row.stage \in MarkdownStages => ~Active(tasks[i].row)
                THEN Append(tasks, [key |-> <<"manual-classification", requests>>,
                                    queue |-> "markdown_delivery",
                                    row |-> EnqueueRow("classify", FALSE)])
                ELSE tasks
    /\ UNCHANGED <<sourceVars, archiveVars, parseVars, exportVars, workerVars, plan>>

-----------------------------------------------------------------------------

HandlerStep ==
    \/ BeginCapture
    \/ \E failed \in SUBSET Files, deep \in BOOLEAN : EndCapture(failed, deep)
    \/ VerifyArchive \/ HandOver
    \/ Inventory \/ (\E f \in Files : ParseOne(f)) \/ ParsesDone
    \/ SourcePublish
    \/ (\E verdict \in Verdicts : Classify(verdict)) \/ Publish
    \/ IndexPublish

Damage ==
    \/ Fault \/ Crash
    \/ \E f \in Files : LoseOriginal(f) \/ LosePublished(f)
    \/ \E c \in Contents : LoseProduct(c)
    \/ LoseIndex

Next ==
    \/ OaChanges \/ Exclude
    \/ \E mode \in {"hourly", "nightly"} : Scan(mode)
    \/ \E i \in DOMAIN tasks : Claim(i)
    \/ HandlerStep \/ Report \/ Damage
    \/ Converge \/ Apply
    \/ RetryMarkdown \/ RetryArchive \/ \E queued \in BOOLEAN : Decide(queued)

Spec == Init /\ [][Next]_vars

\* The worker loop runs, and the night comes: a scan and a convergence.
FairSpec ==
    /\ Spec
    /\ WF_vars(\E i \in DOMAIN tasks : Claim(i))
    /\ WF_vars(HandlerStep) /\ WF_vars(Report)
    /\ WF_vars(Scan("nightly")) /\ WF_vars(Converge) /\ WF_vars(Apply)

-----------------------------------------------------------------------------

TypeOK ==
    /\ shown \in 1..Len(Listings) /\ kind \in [Files -> Kinds]
    /\ manifest \in
           [status : {"absent", "pending_download", "downloaded", "no_attachment",
                      "download_failed", "depth_limit_reached"},
            hash : 0..Len(Listings), confirmed : BOOLEAN, excluded : BOOLEAN]
    /\ archive \in [Files -> [status : {"absent", "failed", "verified"},
                               content : Contents \cup {NoContent},
                               object : Contents \cup {NoContent}]]
    /\ item \in BOOLEAN
    /\ disk \in [Files -> {"intact", "lost", "changed"}]
    /\ job \in [Files -> {"none", "queued", "completed", "failed", "skipped"}]
    /\ made \in [Files -> Contents \cup {NoContent}]
    /\ artifact \in [Contents ->
           [life : {"none", "valid", "rejected", "superseded"},
            body : Contents \cup {NoContent}]]
    /\ products \subseteq Contents
    /\ export \in [Files -> [status : {"none", "success", "failed"},
                              content : Contents \cup {NoContent},
                              body : Contents \cup {NoContent}]]
    /\ published \subseteq Files
    /\ index \in {"none", "success", "lost"}
    /\ \A i \in DOMAIN tasks : tasks[i].row \in Row
    /\ pc \in {"idle", "executing", "capturing", "handing", "publishing",
               "reporting"}
    /\ cur \in 0..Len(tasks) /\ (pc = "idle" <=> cur = 0)
    /\ out \in Outcome

\* Nothing runs, nothing is planned, and a convergence would do nothing; no
\* row of the item is shown as failed.
Quiet ==
    /\ manifest.status # "absent" /\ manifest.hash = shown
    /\ \A i \in DOMAIN tasks : tasks[i].row.status = "completed"
    /\ plan = NoPlan /\ Repair = NoPlan

\* What a file may end as, losses of published documents aside.
Settled(f) ==
    \/ job[f] = "skipped" \/ kind[f] = "unsupported"
    \/ export[f].status = "failed"
    \/ /\ export[f].status = "success"
       /\ export[f].content = archive[f].content
       /\ export[f].body = archive[f].content

\* When all rows of an item that is not excluded have completed and the
\* convergence finds nothing to repair, every attachment OA shows is in the
\* archive and its Markdown has been written from those very bytes, or the
\* file is one that cannot be converted; and the index was written.  A row
\* that completes too early, a hand-over that is lost, or a stale plan would
\* leave an item that everybody takes for done.
QuietMeansDelivered ==
    Quiet /\ ~manifest.excluded =>
        /\ \A f \in Files : Listings[shown][f] # NoContent =>
               archive[f].content = Listings[shown][f] /\ Settled(f)
        /\ index # "none"

\* No row is handed from stage to stage for ever: again and again all rows
\* of the item have come to an end, unless an original stays away or changed
\* while no product of it is left (attachment_inventory, parse and
\* source_publish send the row round in a circle, and every advance resets
\* its attempts), or every night starts a parse again that fails again.
RowsComeToAnEnd ==
    \/ []<>(\A i \in DOMAIN tasks : ~Active(tasks[i].row))
    \/ <>[](\E f \in Files : disk[f] # "intact" /\ ~HasArtifact(f))
    \/ \E f \in Files : []<>(job[f] = "failed") /\ []<>(job[f] = "queued")

\* An item that is known is delivered, excluded, partly unconvertible, or
\* shown as failed, whatever single fault, crash or loss comes between, as
\* long as the one row the convergence can create for it is still unused.
DeliveredOrShown ==
    (manifest.status # "absent") ~>
        \/ Delivered \/ manifest.excluded
        \/ \E i \in DOMAIN tasks : tasks[i].row.status = "failed"
        \/ \E f \in Listed : GivenUp(f) \/ export[f].status = "failed"
                                       \/ (disk[f] # "intact" /\ ~HasArtifact(f))
        \/ PhaseKey("markdown") \in Keys
=============================================================================
