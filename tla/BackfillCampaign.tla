-------------------------- MODULE BackfillCampaign --------------------------
(***************************************************************************)
(* The backfill of old done items window by window: the campaign job of    *)
(* the operation worker (web/worker.py), the commands it runs (batch run,  *)
(* batch validate and backfill next of cli.py, over batches.py), and what  *)
(* the console does to batches and items meanwhile (web/status.py).        *)
(* Window 1 is the newest.  A command dies with the worker that runs it.   *)
(***************************************************************************)
EXTENDS Naturals, FiniteSets

CONSTANTS
    Windows,       \* 1..n, newest first
    ItemsOf,       \* Windows -> the items OA lists in the window
    NoItem,
    MaxTries,      \* attempts before an item is put up for review (2 in the code)
    MaxRunner,     \* failed commands in a row before the campaign fails (4 in the code)
    ChunkSize,     \* --max-items
    MaxFaults      \* crashes, restarts and requests of the console, together

VARIABLES
    batch,      \* Windows -> status: none before it is discovered
    skipped,    \* Windows -> skipped_count
    honest,     \* windows whose counts agree with what OA said
    item, tries,\* item -> archive_status, retry_count
    excluded,   \* items whose title a configured pattern matches
    job,        \* the campaign job
    pc,         \* idle, top, run, close, check or next
    win,        \* the window of the command that runs
    active,     \* the item in work
    done,       \* items processed in this chunk, and how it went
    failures,   \* failed commands in a row
    spent,
    reopened    \* auxiliary: items the console put back in a completed batch

vars == <<batch, skipped, honest, item, tries, excluded, job, pc, win, active, done,
          failures, spent, reopened>>

AllItems == UNION {ItemsOf[w] : w \in Windows}
Failed == "failed"   \* collect_failed or download_failed
Resolved == {"archived", "confirmed_skip", "review_required"}
Spend == spent < MaxFaults /\ spent' = spent + 1

With(w, s) == {i \in ItemsOf[w] : item[i] = s}
AllResolved_NonePending(w, it) == \A i \in ItemsOf[w] : it[i] # "pending"

\* archived, skipped and reviewed make up discovered_count.
AllResolved(w, it) == \A i \in ItemsOf[w] : it[i] \in Resolved
Fresh == [count |-> 0, outcome |-> "paused"]

Init ==
    /\ batch = [w \in Windows |-> "none"] /\ skipped = [w \in Windows |-> 0]
    /\ honest \in {Windows, Windows \ {1}}
    /\ item = [i \in AllItems |-> "none"] /\ tries = [i \in AllItems |-> 0]
    /\ excluded \in SUBSET AllItems
    /\ job = "none" /\ pc = "idle" /\ win = 0 /\ active = NoItem /\ done = Fresh
    /\ failures = 0 /\ spent = 0 /\ reopened = {}

-----------------------------------------------------------------------------
(* The campaign job.                                                       *)

\* start_backfill_campaign: a job that is at rest is queued again.
Start ==
    /\ job \in {"none", "auth_required", "failed"} /\ job' = "queued"
    /\ job # "none" => Spend
    /\ job = "none" => UNCHANGED spent
    /\ UNCHANGED <<batch, skipped, honest, item, tries, excluded, pc, win, active,
                   done, failures, reopened>>

Claim ==
    /\ pc = "idle" /\ job = "queued" /\ job' = "running" /\ pc' = "top" /\ failures' = 0
    /\ UNCHANGED <<batch, skipped, honest, item, tries, excluded, win, active, done,
                   spent, reopened>>

Open == {w \in Windows : batch[w] \notin {"none", "completed"}}
Current == CHOOSE w \in Open : \A v \in Open : w <= v

Quarantined_Forever(i) == "pending"

\* A failed item is tried again or put up for review.
Quarantined(i) == IF tries[i] < MaxTries THEN "pending" ELSE "review_required"

\* The loop of _execute_backfill_campaign up to its next command.
Top ==
    /\ pc = "top"
    /\ IF Open = {} THEN /\ pc' = "next" /\ UNCHANGED <<batch, skipped, item, win>>
       ELSE
       LET w == Current
           failed == With(w, Failed)
           after == [i \in AllItems |-> IF i \in failed THEN Quarantined(i) ELSE item[i]]
           complete == failed # {} /\ AllResolved(w, after)
           pending == \E i \in ItemsOf[w] : after[i] \in {"pending", "archiving"}
       IN
       /\ item' = after /\ win' = w
       /\ skipped' = IF failed # {}
                     THEN [skipped EXCEPT ![w] = Cardinality(With(w, "confirmed_skip"))]
                     ELSE skipped
       /\ batch' = CASE complete -> [batch EXCEPT ![w] = "completed"]
                     [] failed = {} /\ pending /\ batch[w] = "paused" ->
                            [batch EXCEPT ![w] = "running"]
                     [] OTHER -> batch
       /\ pc' = IF complete THEN "check"
                ELSE IF failed # {} THEN "top"
                ELSE IF pending THEN "start" ELSE "check"
    /\ UNCHANGED <<honest, tries, excluded, job, active, done, failures, spent, reopened>>

Finish(status) == job' = status /\ pc' = "idle" /\ win' = 0

\* A command that fails is repeated a few times.
Stumble ==
    /\ failures' = failures + 1
    /\ IF failures + 1 < MaxRunner THEN pc' = "top" /\ UNCHANGED <<job, win>>
       ELSE Finish("failed")

-----------------------------------------------------------------------------
(* batch run                                                               *)

\* Configured exclusions first, then items an earlier batch has archived, then
\* what an interrupted run left in work.
RunStart ==
    /\ pc = "start"
    /\ IF batch[win] \in {"ready", "running"}
       THEN /\ batch' = [batch EXCEPT ![win] = "running"]
            /\ \E reused \in SUBSET (With(win, "pending") \ excluded) :
               item' = [i \in AllItems |->
                   IF i \notin ItemsOf[win] THEN item[i]
                   ELSE IF i \in reused THEN "archived"
                   ELSE IF item[i] = "pending" /\ i \in excluded THEN "confirmed_skip"
                   ELSE IF item[i] = "archiving" THEN "pending" ELSE item[i]]
            /\ tries' = [i \in AllItems |->
                   IF i \in With(win, "archiving") /\ tries[i] < MaxTries
                   THEN tries[i] + 1 ELSE tries[i]]
            /\ pc' = "run" /\ done' = Fresh
            /\ UNCHANGED <<job, win, failures>>
       ELSE Stumble /\ UNCHANGED <<batch, item, tries, done>>
    /\ UNCHANGED <<skipped, honest, excluded, active, spent, reopened>>

InRun == pc = "run" /\ UNCHANGED <<batch, skipped, honest, excluded, job, win, failures, spent, reopened>>

Take ==
    /\ InRun /\ active = NoItem /\ done.count < ChunkSize /\ done.outcome = "paused"
    /\ batch[win] # "paused"
    /\ \E i \in With(win, "pending") :
          item' = [item EXCEPT ![i] = "archiving"] /\ active' = i
    /\ UNCHANGED <<tries, pc, done>>

Worked(s, outcome) ==
    /\ item' = [item EXCEPT ![active] = s]
    /\ active' = NoItem
    /\ done' = [count |-> done.count + 1, outcome |-> outcome]
    /\ UNCHANGED pc

\* A failure counts as one try, a terminal one as all of them; a failed item
\* ends the chunk.
Archive ==
    /\ InRun /\ active # NoItem
    /\ \/ Worked("archived", "paused") /\ UNCHANGED tries
       \/ Worked("depth_limit_reached", "paused") /\ UNCHANGED tries
       \/ /\ Worked(Failed, "item_failed")
          /\ \E t \in {tries[active] + 1, MaxTries} :
                t <= MaxTries /\ tries' = [tries EXCEPT ![active] = t]
       \/ /\ tries[active] = MaxTries /\ UNCHANGED tries
          /\ Worked(Failed, "item_failed")

RunEnds ==
    /\ InRun /\ active = NoItem /\ pc' = "close"
    /\ \/ /\ \/ done.outcome = "item_failed" \/ batch[win] = "paused"
             \/ done.count > 0 \/ With(win, "pending") = {}
          /\ UNCHANGED done
       \/ \E o \in {"auth_required", "interrupted"} :
             /\ (o = "auth_required" => done.count = 0)
             /\ done' = [done EXCEPT !.outcome = o]
    /\ UNCHANGED <<item, tries, active>>

\* The finally clause: recount, close the batch or leave it paused.
RunClose ==
    /\ pc = "close"
    /\ skipped' = [skipped EXCEPT ![win] = Cardinality(With(win, "confirmed_skip"))]
    /\ batch' = [batch EXCEPT ![win] = IF AllResolved(win, item) THEN "completed" ELSE "paused"]
    /\ done' = Fresh
    /\ LET closed == AllResolved(win, item) IN
       CASE ~closed /\ done.outcome = "auth_required" ->
                Finish("auth_required") /\ UNCHANGED failures
         [] ~closed /\ done.outcome = "interrupted" -> Stumble
         [] closed -> pc' = "check" /\ failures' = 0 /\ UNCHANGED <<job, win>>
         [] OTHER -> pc' = "top" /\ failures' = 0 /\ UNCHANGED <<job, win>>
    /\ UNCHANGED <<honest, item, tries, excluded, active, spent, reopened>>

-----------------------------------------------------------------------------
(* batch validate and backfill next                                        *)

\* validate_batch: archived and reviewed are counted, skipped is what was stored.
Reconciled(w) ==
    Cardinality(ItemsOf[w]) =
        Cardinality(With(w, "archived")) + Cardinality(With(w, "review_required")) + skipped[w]

\* The gate; the disk may also be full or the database unsound.
Check ==
    /\ pc = "check"
    /\ \/ /\ Reconciled(win) /\ win \in honest
          /\ pc' = IF batch[win] = "completed" THEN "top" ELSE "next"
          /\ win' = 0 /\ UNCHANGED job
       \/ ~(Reconciled(win) /\ win \in honest) /\ Finish("failed")
    /\ UNCHANGED <<batch, skipped, honest, item, tries, excluded, active, done,
                   failures, spent, reopened>>

Undiscovered == {w \in Windows : batch[w] = "none"}

\* The items are stored as pending and the configured exclusions applied;
\* the count of skipped items is not.
Discovered(w) ==
    /\ batch' = [batch EXCEPT ![w] = "ready"]
    /\ item' = [i \in AllItems |->
           IF i \notin ItemsOf[w] THEN item[i]
           ELSE IF i \in excluded THEN "confirmed_skip" ELSE "pending"]

NextWindow ==
    /\ pc = "next"
    /\ \/ Open # {} /\ Finish("failed") /\ UNCHANGED <<batch, item>>
       \/ Open = {} /\ Undiscovered = {} /\ Finish("completed") /\ UNCHANGED <<batch, item>>
       \/ /\ Open = {} /\ Undiscovered # {}
          /\ Discovered(CHOOSE w \in Undiscovered : \A v \in Undiscovered : w <= v)
          /\ pc' = "top" /\ UNCHANGED <<job, win>>
       \/ Undiscovered # {} /\ Finish("auth_required") /\ UNCHANGED <<batch, item>>
    /\ UNCHANGED <<skipped, honest, tries, excluded, active, done, failures, spent, reopened>>

-----------------------------------------------------------------------------
(* The console and crashes.                                                *)

\* pause_archive_batch
PauseBatch ==
    /\ \E w \in Windows : batch[w] = "running" /\ batch' = [batch EXCEPT ![w] = "paused"]
    /\ UNCHANGED <<skipped, item, reopened>>

ResumeBatch ==
    /\ \E w \in Windows : batch[w] = "paused" /\ batch' = [batch EXCEPT ![w] = "running"]
    /\ UNCHANGED <<skipped, item, reopened>>

\* retry_batch_items, on a batch in any state
RetryItems ==
    /\ \E w \in Windows :
          LET back == With(w, Failed) \cup With(w, "review_required") IN
          /\ back # {}
          /\ item' = [i \in AllItems |-> IF i \in back THEN "pending" ELSE item[i]]
          /\ reopened' = IF batch[w] = "completed" THEN reopened \cup back ELSE reopened
    /\ UNCHANGED <<batch, skipped>>

\* create_policy: pending items that match are skipped and counted.
Exclude ==
    /\ \E w \in Windows, i \in AllItems :
          /\ i \in With(w, "pending")
          /\ item' = [item EXCEPT ![i] = "confirmed_skip"]
          /\ skipped' = [skipped EXCEPT ![w] = Cardinality(With(w, "confirmed_skip")) + 1]
    /\ UNCHANGED <<batch, reopened>>

Console ==
    /\ Spend /\ (PauseBatch \/ ResumeBatch \/ RetryItems \/ Exclude)
    /\ UNCHANGED <<honest, tries, excluded, job, pc, win, active, done, failures>>

Crash ==
    /\ pc # "idle" /\ Spend
    /\ pc' = "idle" /\ win' = 0 /\ active' = NoItem /\ done' = Fresh
    /\ job' = "queued"
    /\ UNCHANGED <<batch, skipped, honest, item, tries, excluded, failures, reopened>>

-----------------------------------------------------------------------------
Work ==
    Claim \/ Top \/ RunStart \/ Take \/ Archive \/ RunEnds \/ RunClose \/ Check \/ NextWindow

Next == Start \/ Work \/ Console \/ Crash

Spec == Init /\ [][Next]_vars

FairSpec == Spec /\ WF_vars(Work)

-----------------------------------------------------------------------------
AtRest == job \notin {"queued", "running"}

\* A campaign comes to rest, whatever fails: no item is tried for ever, and
\* no failing command repeated for ever.
CampaignRests == []<>AtRest

\* "Run all Stage 2A-7 windows serially" (web/worker.py:1966): a campaign that
\* is completed has left no item of any window unresolved, but for those the
\* console put back in a batch that was completed already.
CampaignCompleteMeansResolved ==
    job = "completed" =>
        \A i \in AllItems : item[i] \in Resolved \/ i \in reopened

\* Why: a completed batch is never opened again, and the command at work holds
\* a batch that is open and an item of it.
CompletedStaysResolved ==
    \A w \in Windows : batch[w] = "completed" =>
        \A i \in ItemsOf[w] : item[i] \in Resolved \/ i \in reopened
WorksOnOpenBatch ==
    /\ pc \in {"start", "run", "close"} =>
           win \in Windows /\ batch[win] \notin {"none", "completed"}
    /\ active # NoItem => pc = "run" /\ active \in ItemsOf[win]
EndsWithAllCompleted ==
    /\ pc # "idle" => job = "running"
    /\ job = "completed" => \A w \in Windows : batch[w] = "completed"

CampaignInv ==
    /\ DOMAIN batch = Windows /\ DOMAIN item = AllItems
    /\ CompletedStaysResolved /\ WorksOnOpenBatch /\ EndsWithAllCompleted
=============================================================================
