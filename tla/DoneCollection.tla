--------------------------- MODULE DoneCollection ---------------------------
(***************************************************************************)
(* The jobs that read the list of done items and download their files      *)
(* (done_collection.py), the processes that execute them (the operation    *)
(* worker and, on a Windows desktop, desktop_collection.py), the child     *)
(* "manifest download" (cli.py) and the daily runner (daily_done.py).      *)
(*                                                                         *)
(* One process executes at a time: start and resume admit one active job,  *)
(* and only the jobs of a dead owner are taken over.  A child ends with    *)
(* the process that started it.  What a page or a detail shows is chosen;  *)
(* the scan of the list itself is module ManifestScan.                     *)
(***************************************************************************)
EXTENDS Naturals, FiniteSets

CONSTANTS
    Items,         \* the done items of the list
    NoItem,
    MaxJobs,       \* bound on job rows
    MaxSessions,   \* browser sessions one inventory may take
    MaxFaults      \* crashes, browser taken by others, resumes by the operator and new
                   \* days of the daily runner, together

VARIABLES
    jobs,        \* 1..MaxJobs -> the row, kind "none" before it exists
    item,        \* Items -> processing_status
    browser,     \* free, or held by other or by job
    desktop,     \* the desktop process: absent, up or down
    pc,          \* the executing process: idle, claimed, session, child or after
    host, cur,   \* which process it is, and its job
    child,       \* the child: attempted items, the one in work, exit code
    daily,       \* the runner: phase, its jobs, date of the run and of the last login retry
    day,
    newLogin,    \* a login has completed since a job found the session expired
    spent        \* how many of the MaxFaults there were

vars == <<jobs, item, browser, desktop, pc, host, cur, child, daily, day, newLogin, spent>>

Kinds == {"done_inventory", "done_download", "done_login", "done_review"}
Ids == 1..MaxJobs
\* "downloaded" stands for no_attachment as well.
Settled == {"downloaded", "skipped"}
Wanted == {"pending_download", "download_failed"}

NoJob == [kind |-> "none", status |-> "none", owner |-> "none", pause |-> FALSE,
          deferred |-> {}, timedOut |-> FALSE, keys |-> {}, sessions |-> 0]
NoChild == [attempted |-> {}, active |-> NoItem, was |-> "none", code |-> 0]

Spend == spent < MaxFaults /\ spent' = spent + 1
Used == Cardinality({j \in Ids : jobs[j].kind # "none"})
Active(j) == jobs[j].status \in {"queued", "running"}
OfKind(k) == {j \in Ids : jobs[j].kind = k}
Newest(k) == CHOOSE j \in OfKind(k) : \A i \in OfKind(k) : i <= j

Init ==
    /\ jobs = [j \in Ids |-> NoJob]
    /\ item \in [Items -> {"discovered", "skipped"}]
    /\ \E i \in Items : item[i] = "discovered"
    /\ browser = "free" /\ desktop \in {"absent", "up"}
    /\ pc = "idle" /\ host = "none" /\ cur = 0 /\ child = NoChild
    /\ daily = [phase |-> "finished", inventory |-> 0, download |-> 0, ran |-> 0, retried |-> 0]
    /\ day = 1 /\ newLogin = FALSE
    /\ spent = 0

-----------------------------------------------------------------------------
(* Requests: start_collection and control_collection.                      *)

\* reserve_desktop
Reserved == IF desktop = "up" THEN "desktop" ELSE "none"

\* classify_manifest_rows and the reset of auth_required, as far as the status goes.
Reclassified(s) ==
    IF s \in {"discovered", "processing", "auth_required"} THEN "pending_download" ELSE s

Startable(k) ==
    /\ Used < MaxJobs
    /\ \A j \in Ids : ~Active(j)
    /\ OfKind(k) # {} => jobs[Newest(k)].status \notin {"paused", "auth_required"}
    /\ k \in {"done_download", "done_review"} =>
           OfKind("done_inventory") # {} /\ jobs[Newest("done_inventory")].status = "completed"

ItemsAtStart(k) ==
    IF k = "done_download" THEN [i \in Items |-> Reclassified(item[i])] ELSE item

NewJob(k) ==
    [NoJob EXCEPT !.kind = k, !.status = "queued", !.owner = Reserved,
                  !.keys = IF k = "done_download"
                           THEN {i \in Items : ItemsAtStart(k)[i] \notin Settled} ELSE {}]

\* A second request of the same kind returns the active job and changes nothing.
Start(k) ==
    /\ Startable(k)
    /\ jobs' = [jobs EXCEPT ![Used + 1] = NewJob(k)]
    /\ item' = ItemsAtStart(k)

Pause(j) ==
    /\ Active(j)
    /\ jobs' = [jobs EXCEPT ![j].pause = TRUE,
                            ![j].status = IF @ = "queued" THEN "paused" ELSE @,
                            ![j].owner = IF jobs[j].status = "queued" THEN "none" ELSE @]
    /\ item' = item

Resumable(j) ==
    /\ jobs[j].status \in {"paused", "auth_required", "failed"}
    /\ \A i \in Ids : ~Active(i)

Resumed(j) ==
    [jobs[j] EXCEPT !.status = "queued", !.pause = FALSE, !.timedOut = FALSE, !.deferred = {},
                    !.owner = Reserved, !.sessions = 0]

Resume(j) ==
    /\ Resumable(j)
    /\ jobs' = [jobs EXCEPT ![j] = Resumed(j)]
    /\ item' = [i \in Items |->
           IF i \in jobs[j].keys /\ item[i] \in {"auth_required", "processing"}
           THEN "pending_download" ELSE item[i]]

Operator ==
    /\ \/ \E k \in Kinds : Start(k) /\ UNCHANGED spent
       \/ \E j \in Ids : Pause(j) /\ UNCHANGED spent
       \/ \E j \in Ids : Resume(j) /\ Spend
    /\ UNCHANGED <<browser, desktop, pc, host, cur, child, daily, day, newLogin>>

-----------------------------------------------------------------------------
(* The executing process.                                                  *)

Alive(o) == o = "worker" \/ (o = "desktop" /\ desktop = "up")

Idle ==
    /\ pc' = "idle" /\ host' = "none" /\ cur' = 0 /\ child' = NoChild
    /\ browser' = IF browser = "job" THEN "free" ELSE browser

\* _finish_collection; the process is idle after it, and its lease released.
Finish(status) ==
    LET end == IF status = "queued" /\ jobs[cur].pause THEN "paused" ELSE status IN
    /\ jobs' = [jobs EXCEPT ![cur].status = end,
                            ![cur].owner = IF end = "queued" THEN @ ELSE "none",
                            ![cur].sessions = IF pc = "session" /\ end = "queued" THEN @ + 1 ELSE 0]
    /\ Idle
    /\ newLogin' = CASE end = "auth_required" -> FALSE
                     [] end = "completed" /\ jobs[cur].kind = "done_login" -> TRUE
                     [] OTHER -> newLogin

\* claim_desktop_job marks the row as running, _claim_next leaves it queued.
ClaimDesktop(j) ==
    /\ desktop = "up" /\ host' = "desktop"
    /\ \/ jobs[j].status = "queued" /\ jobs[j].owner = "desktop"
       \/ Active(j) /\ jobs[j].owner = "none"
    /\ jobs' = [jobs EXCEPT ![j].status = "running", ![j].owner = "desktop"]

ClaimWorker(j) ==
    /\ host' = "worker"
    /\ jobs[j].status = "queued" /\ jobs[j].owner \in {"none", "worker"}
    /\ jobs' = [jobs EXCEPT ![j].owner = "worker"]

Claim ==
    /\ pc = "idle" /\ pc' = "claimed"
    /\ \E j \in Ids : cur' = j /\ (ClaimDesktop(j) \/ ClaimWorker(j))
    /\ UNCHANGED <<item, browser, desktop, child, daily, day, newLogin, spent>>

\* The browser is busy: run_inventory and run_login return and leave the row as
\* it is, run_download and run_review put it back.
GiveUp ==
    IF jobs[cur].kind \in {"done_inventory", "done_login"}
    THEN Idle /\ UNCHANGED <<jobs, newLogin>>
    ELSE Finish("queued")

Busy == browser # "free"

Begin ==
    /\ pc = "claimed"
    /\ LET k == jobs[cur].kind
           paused == jobs[cur].pause /\ k \in {"done_inventory", "done_download"}
           reset == k = "done_download" /\ ~paused
       IN
       /\ item' = [i \in Items |->
              IF reset /\ i \in jobs[cur].keys /\ item[i] = "processing"
              THEN "pending_download" ELSE item[i]]
       /\ IF k = "done_download" /\ paused THEN Finish("paused")
          ELSE IF k = "done_download" /\ jobs[cur].keys = {} THEN Finish("completed")
          ELSE IF Busy THEN GiveUp
          ELSE IF paused THEN Finish("paused")
          ELSE /\ browser' = "job"
               /\ pc' = IF k = "done_download" THEN "child" ELSE "session"
               /\ jobs' = [jobs EXCEPT ![cur].status = IF k = "done_review" THEN @ ELSE "running"]
               /\ UNCHANGED <<host, cur, child, newLogin>>
    /\ UNCHANGED <<desktop, daily, day, spent>>

\* One browser session of an inventory, a login or a review.
Session ==
    /\ pc = "session"
    /\ \E status \in {"completed", "failed", "auth_required", "paused", "queued"} :
          /\ status = "paused" => jobs[cur].pause
          /\ status = "queued" => jobs[cur].sessions < MaxSessions
          /\ jobs[cur].kind = "done_login" => status \notin {"paused", "queued"}
          /\ Finish(status)
    /\ UNCHANGED <<item, desktop, daily, day, spent>>

-----------------------------------------------------------------------------
(* The child of a download.                                                *)

InChild == pc = "child" /\ UNCHANGED <<browser, desktop, host, cur, daily, day, newLogin, spent>>

Exit(code) == pc' = "after" /\ child' = [child EXCEPT !.code = code]

NextItem(i) ==
    /\ i \in jobs[cur].keys \ jobs[cur].deferred
    /\ item[i] \in Wanted /\ i \notin child.attempted

\* The row is marked before the detail is opened; without one, or when a pause
\* is requested, the child ends well.
Pick ==
    /\ InChild /\ child.active = NoItem /\ UNCHANGED jobs
    /\ \/ \E i \in Items :
             /\ NextItem(i) /\ ~jobs[cur].pause
             /\ child' = [child EXCEPT !.active = i, !.was = item[i],
                                       !.attempted = @ \cup {i}]
             /\ item' = [item EXCEPT ![i] = "processing"]
             /\ UNCHANGED pc
       \/ /\ jobs[cur].pause \/ \A i \in Items : ~NextItem(i)
          /\ Exit(0) /\ UNCHANGED item
       \* no login at the start, or no complete manifest any more
       \/ child.attempted = {} /\ UNCHANGED item /\ (Exit(3) \/ Exit(4))

Processed(status) ==
    /\ item' = [item EXCEPT ![child.active] = status]
    /\ child' = [child EXCEPT !.active = NoItem, !.was = "none"]
    /\ UNCHANGED pc

\* The outcome of one detail, after a session that expired was renewed or not;
\* a browser that has closed puts the row back.
Capture ==
    /\ InChild /\ child.active # NoItem /\ UNCHANGED jobs
    /\ \/ \E s \in {"downloaded", "download_failed"} : Processed(s)
       \/ /\ item' = [item EXCEPT ![child.active] = "auth_required"] /\ Exit(3)
       \/ /\ item' = [item EXCEPT ![child.active] = child.was] /\ Exit(5)

Deferred_NotKept(job, i) == [job EXCEPT !.timedOut = TRUE]

\* The row that ran out of time waits until the job is resumed.
Deferred(job, i) == [job EXCEPT !.deferred = @ \cup {i}, !.timedOut = TRUE]

\* heartbeat: it stops the child of a stalled item or of a paused job.
Watch ==
    /\ InChild
    /\ \/ /\ child.active # NoItem
          /\ item' = [item EXCEPT ![child.active] = "download_failed"]
          /\ jobs' = [jobs EXCEPT ![cur] = Deferred(jobs[cur], child.active)]
       \/ jobs[cur].pause /\ UNCHANGED <<item, jobs>>
    /\ Exit(1)

Left == {i \in jobs[cur].keys \ jobs[cur].deferred : item[i] \in Wanted \cup {"processing"}}

Verdict_ByExitCode ==
    IF jobs[cur].pause THEN "paused"
    ELSE IF jobs[cur].timedOut THEN (IF Left # {} THEN "queued" ELSE "failed")
    ELSE IF child.code = 3 THEN "auth_required"
    ELSE IF child.code = 0 THEN "completed" ELSE "failed"

\* What run_download makes of the end of the child.
Verdict ==
    IF jobs[cur].pause THEN "paused"
    ELSE IF jobs[cur].timedOut THEN (IF Left # {} THEN "queued" ELSE "failed")
    ELSE IF child.code = 3 THEN "auth_required"
    ELSE IF child.code = 0 /\ \A i \in jobs[cur].keys : item[i] \in Settled THEN "completed"
    ELSE "failed"

\* The mark of the time-out goes with the verdict it led to.
After ==
    /\ pc = "after"
    /\ LET end == IF Verdict = "queued" /\ jobs[cur].pause THEN "paused" ELSE Verdict IN
       jobs' = [jobs EXCEPT ![cur].status = end,
                            ![cur].owner = IF end = "queued" THEN @ ELSE "none",
                            ![cur].timedOut = IF jobs[cur].pause THEN @ ELSE FALSE]
    /\ newLogin' = IF Verdict = "auth_required" THEN FALSE ELSE newLogin
    /\ Idle
    /\ UNCHANGED <<item, desktop, daily, day, spent>>

-----------------------------------------------------------------------------
(* Failures and the rest of the machine.                                   *)

\* The process dies; leases of dead workers are removed at the next start.
Crash ==
    /\ pc # "idle" /\ Spend
    /\ desktop' = IF host = "desktop" THEN "down" ELSE desktop
    /\ jobs' = [jobs EXCEPT ![cur].owner = IF host = "desktop" THEN @ ELSE "dead"]
    /\ Idle
    /\ UNCHANGED <<item, daily, day, newLogin>>

\* ensure_desktop_collection: the new process has a new pid.
StartDesktop ==
    /\ desktop = "down" /\ desktop' = "up"
    /\ jobs' = [j \in Ids |-> IF jobs[j].owner = "desktop"
                              THEN [jobs[j] EXCEPT !.owner = "dead"] ELSE jobs[j]]
    /\ UNCHANGED <<item, browser, pc, host, cur, child, daily, day, newLogin, spent>>

Orphaned(j) == Active(j) /\ jobs[j].owner # "none" /\ ~Alive(jobs[j].owner)

\* recover_expired of the worker, or the first look of the desktop process.
Recover ==
    /\ pc = "idle"
    /\ \E j \in Ids : Orphaned(j)
    /\ jobs' = [j \in Ids |-> IF Orphaned(j)
                              THEN [jobs[j] EXCEPT !.status = "queued", !.owner = "none"]
                              ELSE jobs[j]]
    /\ UNCHANGED <<item, browser, desktop, pc, host, cur, child, daily, day, newLogin, spent>>

OtherTakes ==
    /\ browser = "free" /\ browser' = "other" /\ Spend
    /\ UNCHANGED <<jobs, item, desktop, pc, host, cur, child, daily, day, newLogin>>

OtherReleases ==
    /\ browser = "other" /\ browser' = "free"
    /\ UNCHANGED <<jobs, item, desktop, pc, host, cur, child, daily, day, newLogin, spent>>

-----------------------------------------------------------------------------
(* DailyDoneRunner.tick                                                    *)

InPhase == daily.phase \in {"inventory", "download"}
Its == IF daily.phase = "inventory" THEN daily.inventory ELSE daily.download

\* _begin_inventory: a new job, or the unfinished one of this kind.
StartDay ==
    /\ ~InPhase /\ daily.ran # day
    /\ \/ /\ Start("done_inventory")
          /\ daily' = [daily EXCEPT !.phase = "inventory", !.ran = day, !.inventory = Used + 1]
       \/ /\ OfKind("done_inventory") # {}
          /\ jobs[Newest("done_inventory")].status \in {"queued", "running", "paused", "auth_required"}
          /\ daily' = [daily EXCEPT !.phase = "inventory", !.ran = day,
                                    !.inventory = Newest("done_inventory")]
          /\ UNCHANGED <<jobs, item>>

\* The session has expired: after a login, or once a day, the job is resumed.
RetryLogin ==
    /\ InPhase /\ jobs[Its].status = "auth_required"
    /\ newLogin \/ daily.retried # day
    /\ Resume(Its)
    /\ daily' = [daily EXCEPT !.retried = day]

InventoryFailed ==
    /\ daily.phase = "inventory" /\ jobs[Its].status = "failed"
    /\ daily' = [daily EXCEPT !.phase = "finished"]
    /\ UNCHANGED <<jobs, item>>

StartDownload ==
    /\ daily.phase = "inventory" /\ jobs[Its].status = "completed"
    /\ Start("done_download")
    /\ daily' = [daily EXCEPT !.phase = "download", !.ran = day, !.download = Used + 1]

DownloadEnded ==
    /\ daily.phase = "download" /\ jobs[Its].status \in {"completed", "failed"}
    /\ daily' = [daily EXCEPT !.phase = "finished"]
    /\ UNCHANGED <<jobs, item>>

Tick ==
    /\ StartDay \/ RetryLogin \/ InventoryFailed \/ StartDownload \/ DownloadEnded
    /\ UNCHANGED <<browser, desktop, pc, host, cur, child, day, newLogin, spent>>

NextDay ==
    /\ Spend /\ day' = day + 1
    /\ UNCHANGED <<jobs, item, browser, desktop, pc, host, cur, child, daily, newLogin>>

-----------------------------------------------------------------------------
Work == Claim \/ Begin \/ Session \/ Pick \/ Capture \/ Watch \/ After \/ Recover

Next ==
    \/ Operator \/ Work \/ Crash \/ StartDesktop
    \/ OtherTakes \/ OtherReleases \/ Tick \/ NextDay

Spec == Init /\ [][Next]_vars

FairSpec == Spec /\ WF_vars(Work) /\ WF_vars(OtherReleases) /\ WF_vars(Tick)

-----------------------------------------------------------------------------
(* Properties.                                                             *)

\* The desktop process has returned from a job it still owns as running.
Forgotten(j) ==
    jobs[j].status = "running" /\ jobs[j].owner = "desktop" /\ desktop = "up" /\ pc = "idle"

Rests(j) == ~Active(j) \/ Forgotten(j)

\* A collection job comes to an end, or to where the operator has to act,
\* however often a session expires, a detail stalls or fails or the process
\* that executes it dies.  The exception is the job run_inventory or run_login
\* leaves as running when the browser is busy: the desktop process never takes
\* a running job of its own again (desktop_collection.py:49).
CollectionEnds == \A j \in Ids : []<>Rests(j)

\* A download that is reported as completed has left no item of it unread.
CompletesSettled ==
    \A j \in Ids :
        jobs[j].kind = "done_download" /\ jobs[j].status # "completed"
        /\ jobs'[j].status = "completed" => \A i \in jobs[j].keys : item'[i] \in Settled

\* Every step of the jobs keeps to it.
CompletedMeansSettled == [][CompletesSettled]_vars

\* Why: rows are numbered in the order they are made, so the row of the job at
\* work stays its own, and no session of the browser belongs to a download.
CollectionInv ==
    /\ DOMAIN jobs = Ids /\ \A j \in Ids : DOMAIN jobs[j] = DOMAIN NoJob
    /\ \E n \in 0..MaxJobs : \A j \in Ids : jobs[j].kind = "none" <=> j > n
    /\ \A j \in Ids : jobs[j].status # "none" => jobs[j].kind # "none"
    /\ pc # "idle" => cur \in Ids /\ jobs[cur].kind # "none"
    /\ pc = "session" => jobs[cur].kind # "done_download"
=============================================================================
