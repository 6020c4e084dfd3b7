---------------------------- MODULE ManifestRetry ----------------------------
(***************************************************************************)
(* The done items of the manifest between the console, which excludes and  *)
(* retries them (web/status.py), the operation worker, which runs a retry  *)
(* job (web/worker.py, _execute_full_manifest_retry), and the command it   *)
(* starts again and again (cli.py, manifest download).  The command dies   *)
(* with its worker.                                                        *)
(***************************************************************************)
EXTENDS Naturals, FiniteSets

CONSTANTS
    Items,
    Policies, Matches,   \* title patterns, and the items each one matches
    NoPolicy, NoItem,
    MaxJobs,             \* retry jobs
    MaxRestarts,         \* fresh browsers a job may ask for (3 in the code)
    MaxLogins,           \* logins for one item (2 in the code)
    MaxFaults            \* policies changed, files lost, crashes and captures elsewhere

VARIABLES
    st,         \* item -> processing_status
    keyword,    \* item -> matched_exclusion_keyword
    file,       \* item -> none, verified or missing
    confirmed,  \* items whose no_attachment_confirmed is set
    unlooked,   \* items with a lost file nobody has looked for since
    enabled,    \* policies in force
    jobs,       \* retry jobs: [status, source, keys, started, tried, clean]
    pc,         \* idle, refresh, top, classify, pick, work or exit
    cur,        \* the job the worker executes
    chunk, met, \* targets given to the command, and those it attempted
    active,     \* [item, was, seen]: the row in processing
    rc, restarts,
    logins,     \* item -> logins the running command has spent on it
    spent

rows == <<st, keyword, file, confirmed, unlooked>>
command == <<chunk, met, active>>
vars == <<rows, enabled, jobs, pc, cur, command, rc, restarts, logins, spent>>

Ids == 1..MaxJobs
NoRow == [item |-> NoItem, was |-> "none", seen |-> TRUE]
NoJob == [status |-> "none", source |-> "none", keys |-> {}, started |-> FALSE, tried |-> {},
          clean |-> FALSE]
Spend == spent < MaxFaults /\ spent' = spent + 1
Terminal == {"downloaded", "no_attachment", "skipped"}
Failures == {"download_failed", "auth_required"}

Init ==
    /\ st \in [Items -> {"pending_download", "download_failed", "downloaded", "no_attachment"}]
    /\ file = [i \in Items |-> IF st[i] = "downloaded" THEN "verified" ELSE "none"]
    /\ confirmed = {i \in Items : st[i] = "no_attachment"}
    /\ keyword = [i \in Items |-> NoPolicy] /\ unlooked = {} /\ enabled = {}
    /\ jobs = [j \in Ids |-> NoJob] /\ pc = "idle" /\ cur = 0
    /\ chunk = {} /\ met = {} /\ active = NoRow
    /\ rc = 0 /\ restarts = 0 /\ logins = [i \in Items |-> 0] /\ spent = 0

-----------------------------------------------------------------------------
(* Classification: the policies in force, and the archive that is there.   *)

Held_WithoutLooking(i) == file[i] # "none"

\* reuse_existing_archive and verified_archive_exists look at every file.
Held(i) == file[i] = "verified"

Reused(i, s) ==
    CASE Held(i) -> "downloaded"
      [] file[i] = "none" /\ i \in confirmed -> "no_attachment"
      [] OTHER -> s

\* A row no policy excludes: what was interrupted or excluded waits for its
\* download again, what is gone has failed, what is there is reused.
Included(i, s) ==
    CASE s \in {"skipped", "discovered", "processing", "pending_download"} ->
            Reused(i, "pending_download")
      [] s = "downloaded" \/ s = "download_failed" -> Reused(i, "download_failed")
      [] OTHER -> s

\* classify_manifest_rows: an exclusion controls future retrieval only.
Classified(i, s, policies) ==
    IF \E p \in policies : i \in Matches[p] THEN Reused(i, "skipped") ELSE Included(i, s)
Keyword(i, policies) ==
    IF \E p \in policies : i \in Matches[p]
    THEN CHOOSE p \in policies : i \in Matches[p] ELSE NoPolicy

Classify(S, policies) ==
    /\ st' = [i \in Items |-> IF i \in S THEN Classified(i, st[i], policies) ELSE st[i]]
    /\ keyword' = [i \in Items |-> IF i \in S THEN Keyword(i, policies) ELSE keyword[i]]
    /\ unlooked' = unlooked \ S /\ UNCHANGED <<file, confirmed>>

-----------------------------------------------------------------------------
(* The console.                                                            *)

Quiet == UNCHANGED <<pc, cur, command, rc, restarts, logins>>
Targets(source) ==
    IF source = "audit_all" THEN Items ELSE {i \in Items : st[i] = source}

\* A retry of what failed, of what was found without attachments, or of all.
StartRetry ==
    \E j \in Ids, source \in {"download_failed", "no_attachment", "audit_all"} :
        /\ jobs[j].status = "none" /\ \A k \in 1..(j - 1) : jobs[k].status # "none"
        /\ jobs' = [jobs EXCEPT ![j] = [NoJob EXCEPT !.status = "queued", !.source = source,
                                                     !.keys = Targets(source)]]
        /\ UNCHANGED <<rows, enabled, spent>> /\ Quiet

\* A new policy is applied at the next classification; the rows that the old
\* pattern of an edited or deleted one excluded are classified at once.
ChangePolicy ==
    /\ Spend /\ Quiet /\ jobs' = jobs
    /\ \/ \E p \in Policies \ enabled : enabled' = enabled \union {p} /\ UNCHANGED rows
       \/ \E p \in enabled, now \in {{}} \union {{q} : q \in Policies \ enabled} :
             /\ enabled' = (enabled \ {p}) \union now
             /\ Classify({i \in Items : st[i] = "skipped" /\ keyword[i] = p}, enabled')

\* A file is lost; or another path of the program captures the item.
LoseFile(i) ==
    /\ Spend /\ file[i] = "verified" /\ file' = [file EXCEPT ![i] = "missing"]
    /\ unlooked' = unlooked \union {i}
    /\ UNCHANGED <<st, keyword, confirmed, enabled, jobs>> /\ Quiet
Captured(i) ==
    /\ Spend /\ st[i] \in {"pending_download", "download_failed"}
    /\ st' = [st EXCEPT ![i] = "downloaded"] /\ file' = [file EXCEPT ![i] = "verified"]
    /\ confirmed' = confirmed \ {i} /\ unlooked' = unlooked \ {i}
    /\ UNCHANGED <<keyword, enabled, jobs>> /\ Quiet

-----------------------------------------------------------------------------
(* The retry job.  Its first start is the boundary of its attempts.        *)

Rows == UNCHANGED <<rows, enabled, spent>>
Ends(j, status, clean) ==
    /\ jobs' = [jobs EXCEPT ![j].status = status, ![j].clean = clean]
    /\ pc' = "idle" /\ cur' = 0

Begun(j) ==
    [jobs EXCEPT ![j].status = "running", ![j].started = TRUE,
                 ![j].keys = IF jobs[j].source = "audit_all" THEN Items ELSE @]

\* Retries of failures come first, and the newest of them.
Precedes(j, k) ==
    LET urgent(n) == jobs[n].source = "download_failed"
    IN IF urgent(j) = urgent(k) THEN k <= j ELSE urgent(j)

\* The next job is taken; a full audit reads the head of the list first,
\* classifies it, and takes every row of the manifest for its target.
Claim ==
    /\ pc = "idle"
    /\ \E j \in Ids :
          /\ jobs[j].status = "queued"
          /\ \A k \in Ids : jobs[k].status = "queued" => Precedes(j, k)
          /\ \/ /\ jobs[j].source = "audit_all" /\ Ends(j, "failed", FALSE)
                /\ restarts' = restarts /\ UNCHANGED rows
             \/ /\ jobs' = Begun(j) /\ cur' = j /\ restarts' = 0
                /\ IF jobs[j].keys = {} /\ jobs[j].source # "audit_all"
                   THEN pc' = "nothing" ELSE pc' = "top"
                /\ IF jobs[j].source = "audit_all" THEN Classify(Items, enabled) ELSE UNCHANGED rows
    /\ UNCHANGED <<enabled, command, rc, logins, spent>>

Nothing ==
    /\ pc = "nothing" /\ Ends(cur, "completed", TRUE)
    /\ Rows /\ UNCHANGED <<command, rc, restarts, logins>>

\* What is left to do, from the facts of the targets.
Pending(j) ==
    {i \in jobs[j].keys :
        IF st[i] \in Terminal
        THEN st[i] = "no_attachment" /\ jobs[j].source = "no_attachment" /\ i \notin jobs[j].tried
        ELSE ~(i \in jobs[j].tried /\ st[i] \in Failures)}
Failed(j) == {i \in jobs[j].keys : st[i] \notin Terminal} \ Pending(j)

Conclude(j, error) ==
    Ends(j, IF Pending(j) = {} /\ Failed(j) = {} /\ ~error THEN "completed" ELSE "failed",
         Pending(j) = {} /\ Failed(j) = {} /\ ~error)

\* Nothing is left, or the command is started on the rest.
Top ==
    /\ pc = "top"
    /\ IF Pending(cur) = {} THEN Conclude(cur, FALSE) /\ UNCHANGED command
       ELSE /\ chunk' = Pending(cur) /\ met' = {} /\ active' = NoRow
            /\ pc' = "classify" /\ UNCHANGED <<jobs, cur>>
    /\ logins' = [i \in Items |-> 0] /\ Rows /\ UNCHANGED <<rc, restarts>>

Progressed_Assumed(j) == TRUE

\* A run of the command that left the same targets has made no progress.
Progressed(j) == Pending(j) # chunk

\* A lost browser is replaced a few times; any other failure ends the job.
Exit ==
    /\ pc = "exit" /\ Rows /\ UNCHANGED <<command, rc, logins>>
    /\ IF rc = 5 /\ restarts < MaxRestarts
       THEN pc' = "top" /\ restarts' = restarts + 1 /\ UNCHANGED <<jobs, cur>>
       ELSE /\ restarts' = restarts
            /\ IF rc = 0 /\ Progressed(cur) THEN pc' = "top" /\ UNCHANGED <<jobs, cur>>
               ELSE Conclude(cur, TRUE)

-----------------------------------------------------------------------------
(* The command.                                                            *)

ClassifyAll ==
    /\ pc = "classify" /\ Classify(Items, enabled) /\ pc' = "pick"
    /\ UNCHANGED <<enabled, jobs, cur, command, rc, restarts, logins, spent>>

Selected(source) ==
    CASE source = "download_failed" -> {"download_failed"}
      [] source = "no_attachment" -> {"no_attachment"}
      [] OTHER -> {"pending_download", "download_failed", "downloaded", "no_attachment",
                   "auth_required", "skipped", "processing"}

Stamp(i) ==
    [j \in Ids |-> IF jobs[j].started THEN [jobs[j] EXCEPT !.tried = @ \union {i}] ELSE jobs[j]]

\* The next row, which is marked before OA is asked; an audit passes over
\* what is excluded; without one the command has done its work.
Pick ==
    /\ pc = "pick"
    /\ UNCHANGED <<keyword, file, confirmed, unlooked, enabled, cur, chunk, restarts, logins,
                    spent>>
    /\ LET open == {i \in chunk \ met : st[i] \in Selected(jobs[cur].source)}
       IN IF open = {} THEN pc' = "exit" /\ rc' = 0 /\ UNCHANGED <<st, jobs, met, active>>
          ELSE \E i \in open :
                  /\ met' = met \union {i} /\ jobs' = Stamp(i) /\ rc' = rc
                  /\ IF st[i] = "skipped"
                     THEN UNCHANGED <<st, active, pc>>
                     ELSE /\ st' = [st EXCEPT ![i] = "processing"] /\ pc' = "work"
                          /\ active' = [item |-> i, was |-> st[i], seen |-> i \in jobs[cur].tried]

Sets(s) == st' = [st EXCEPT ![active.item] = s]
Back(to, code) == pc' = to /\ rc' = code

\* The page was captured and its files verified; or it shows none, where the
\* database may remember files that are lost; or the capture is incomplete; or
\* it raised.
Archive ==
    /\ pc = "work" /\ Back("pick", 0)
    /\ LET i == active.item
       IN \/ /\ Sets("downloaded") /\ file' = [file EXCEPT ![i] = "verified"]
             /\ confirmed' = confirmed \ {i} /\ unlooked' = unlooked \ {i}
          \/ /\ file[i] = "none" /\ Sets("no_attachment") /\ confirmed' = confirmed \union {i}
             /\ UNCHANGED <<file, unlooked>>
          \/ /\ file[i] # "none" /\ Sets("downloaded") /\ confirmed' = confirmed \ {i}
             /\ unlooked' = IF file[i] = "missing" THEN unlooked \union {i} ELSE unlooked
             /\ file' = file
          \/ Sets("download_failed") /\ confirmed' = confirmed \ {i} /\ UNCHANGED <<file, unlooked>>
          \/ Sets(Reused(i, "download_failed")) /\ UNCHANGED <<file, confirmed, unlooked>>
    /\ UNCHANGED <<keyword, enabled, jobs, cur, command, restarts, logins, spent>>

\* The browser is gone: the row is put back as it was, its stamp included.
BrowserClosed ==
    /\ pc = "work" /\ Back("exit", 5) /\ Sets(active.was)
    /\ jobs' = IF active.seen THEN jobs ELSE [jobs EXCEPT ![cur].tried = @ \ {active.item}]
    /\ UNCHANGED <<keyword, file, confirmed, unlooked, enabled, cur, command, restarts, logins,
                    spent>>

\* The session has expired: a login and the item again, or the end.
AuthRequired ==
    /\ pc = "work" /\ UNCHANGED <<keyword, file, confirmed, unlooked, enabled, jobs, cur,
                                  chunk, active, restarts, spent>>
    /\ \/ /\ logins[active.item] < MaxLogins /\ Sets(active.was)
          /\ logins' = [logins EXCEPT ![active.item] = @ + 1]
          /\ met' = met \ {active.item} /\ Back("pick", 0)
       \/ Sets("auth_required") /\ Back("exit", 3) /\ UNCHANGED <<logins, met>>

\* The command dies with the row in processing.
CommandDies ==
    /\ pc \in {"classify", "pick", "work"} /\ Spend /\ Back("exit", 1)
    /\ UNCHANGED <<rows, enabled, jobs, cur, command, restarts, logins>>

\* The worker dies; its successor finds a job without a living owner.
Crash ==
    /\ pc # "idle" /\ Spend /\ pc' = "idle" /\ cur' = 0
    /\ UNCHANGED <<rows, enabled, jobs, command, rc, restarts, logins>>
Recover ==
    /\ pc = "idle" /\ \E j \in Ids :
          jobs[j].status = "running" /\ jobs' = [jobs EXCEPT ![j].status = "queued"]
    /\ UNCHANGED <<pc, cur, command, rc, restarts, logins>> /\ Rows

-----------------------------------------------------------------------------
Work ==
    \/ Claim \/ Nothing \/ Top \/ ClassifyAll \/ Pick \/ Archive \/ BrowserClosed
    \/ AuthRequired \/ Exit \/ Recover

Next ==
    \/ Work \/ StartRetry \/ ChangePolicy \/ CommandDies \/ Crash
    \/ \E i \in Items : LoseFile(i) \/ Captured(i)

\* The worker and its command keep working, and a dead worker is restarted.
Fairness == WF_vars(Work)
Spec == Init /\ [][Next]_vars /\ Fairness

-----------------------------------------------------------------------------
(* Properties.                                                             *)

\* A retry job comes to an end: whatever the rows do while the command runs
\* again and again - excluded, captured elsewhere, interrupted or lost - the
\* loop of the worker stops.
Ended(j) == jobs[j].status \notin {"queued", "running"}
RetryEnds == \A j \in Ids : []<>Ended(j)

\* A row says downloaded only while its files are there, or lost and not looked
\* for since; it says no_attachment only when OA confirmed that and the database
\* has no file; and an excluded row names what excludes it - through every
\* interruption that puts an earlier status back.
StatusIsTrue ==
    \A i \in Items :
        /\ st[i] = "downloaded" => file[i] = "verified" \/ i \in unlooked
        /\ st[i] = "no_attachment" => i \in confirmed /\ file[i] = "none"
        /\ st[i] = "skipped" => keyword[i] # NoPolicy

\* A full audit that reports success has opened every item that no policy
\* excludes (cli.py, _audit_opens_detail: "A full audit reopens every item
\* not skipped by the latest policy set").
AuditOpensEveryItem ==
    \A j \in Ids : jobs[j].source = "audit_all" /\ jobs[j].status = "completed" =>
        \A i \in jobs[j].keys : st[i] # "skipped" => i \in jobs[j].tried
=============================================================================
