--------------------------- MODULE PendingPipeline ---------------------------
(***************************************************************************)
(* One pending (to-do) item on its way from the OA list to a Feishu        *)
(* message and to the erasure of its payload:                              *)
(*    detail_sync -> pending_parse -> pending_summary -> notify_feishu     *)
(*                -> pending_cleanup                                       *)
(* The scanner, the operation worker, the web console and the Feishu       *)
(* server interleave; every commit of a handler is a step of its own, so   *)
(* a crash can fall between any two of them.                               *)
(*                                                                         *)
(* A discovery is one discovery_hash of the item; it has a task of its own *)
(* (idempotency key pending:<occurrence>:<hash>:v2) but the capture reads  *)
(* whatever OA shows when the task runs.  A message is a summary input     *)
(* hash: a captured content and the attachment evidence parsed for it.     *)
(* Only one worker ever runs (module ProductionQueue), so claim, recovery  *)
(* and ownership are single steps here.                                    *)
(***************************************************************************)
EXTENDS PipelineTask, Sequences

CONSTANTS
    Discoveries,   \* the discovery hashes the item takes in OA
    NoDiscovery,   \* discovery_hash of an occurrence never seen
    Contents,      \* the detail payloads the item takes in OA
    ContentOf,     \* [Discoveries -> Contents]
    Evidence,      \* what parsing may make of the attachments of a content
    NoMessage,
    ScanModes,     \* notification modes of the scans that run
    FeishuStates,  \* what validate_feishu_runtime_config may return
    Faults,        \* exceptions a handler may raise: TRUE a transient code
    Ambiguous,     \* may a transport error be reported for an accepted POST?
    Threads,       \* console requests that may retry a delivery
    Worker,        \* pid of the operation worker
    MaxParses,     \* bound on the parse jobs of one capture
    MaxCrashes     \* bound on crashes

Messages == Contents \X Evidence

ASSUME ContentOfAssumption == ContentOf \in [Discoveries -> Contents]
ASSUME AbsentAssumption ==
    NoDiscovery \notin Discoveries /\ NoMessage \notin Messages
ASSUME SettingsAssumption ==
    /\ ScanModes \subseteq {"normal", "baseline", "disabled"}
    /\ FeishuStates \subseteq {"ready", "disabled", "misconfigured"}
    /\ Faults \subseteq BOOLEAN
    /\ Ambiguous \in BOOLEAN
    /\ Worker \in Pids
    /\ MaxParses \in Nat
    /\ MaxCrashes \in Nat

VARIABLES
    shown,       \* the discovery OA shows now
    occurrence,  \* the columns of the ItemOccurrence that conditions read
    tasks,       \* Discoveries -> Row
    notify,      \* tasks whose payload asks for a notification
    snapshots,   \* contents of the item's ItemSnapshot rows, by id
    parses,      \* queued parse jobs of the newest capture
    summaries,   \* messages of its current SummaryVersion rows, by version
    delivery,    \* Messages -> status of the NotificationDelivery row
    newest,      \* the delivery row with the highest id
    pc,          \* where the worker is
    cur,         \* the task it executes
    msg,         \* the message it summarises or sends
    result,      \* the DeliveryResult of its last POST
    out,         \* what the handler is about to report
    console,     \* Threads -> a console request that re-sends a delivery
    accepted,    \* Messages -> times the Feishu server has shown it, up to 2
    crashes

oaVars == <<shown, occurrence, notify>>
payloadVars == <<snapshots, parses, summaries>>
deliveryVars == <<delivery, newest>>
workerVars == <<pc, cur, msg, result, out>>
vars == <<oaVars, tasks, payloadVars, deliveryVars, workerVars, console,
          accepted, crashes>>

PCs == {"down", "idle", "executing", "summarizing", "posting", "answered",
        "reporting"}

\* "connect_failed" stands for rate_limited and server_failed too, which are
\* retried like it.
Results == {"sent", "rejected", "connect_failed", "unknown_outcome"}

DeliveryStatuses == {"none", "sending", "sent", "failed", "retry_wait", "unknown"}

Request ==
    [pc : {"idle", "posting", "answered"}, entry : Messages \cup {NoMessage},
     msg : Messages \cup {NoMessage}, result : Results \cup {"none"}]

NoRequest ==
    [pc |-> "idle", entry |-> NoMessage, msg |-> NoMessage, result |-> "none"]

Init ==
    /\ shown \in Discoveries
    /\ occurrence = [status |-> "unseen", hash |-> NoDiscovery,
                     cleanup |-> "not_eligible"]
    /\ tasks = [d \in Discoveries |-> AbsentRow("detail_sync")]
    /\ notify = {}
    /\ snapshots = << >>
    /\ parses = 0
    /\ summaries = << >>
    /\ delivery = [m \in Messages |-> "none"]
    /\ newest = NoMessage
    /\ pc = "down"
    /\ cur = NoDiscovery
    /\ msg = NoMessage
    /\ result = "none"
    /\ out = NoOutcome
    /\ console = [t \in Threads |-> NoRequest]
    /\ accepted = [m \in Messages |-> 0]
    /\ crashes = 0

In(s) == {s[i] : i \in DOMAIN s}
Newest(s) == s[Len(s)]

-----------------------------------------------------------------------------
(* OA, the scans and the console's bulk retry.                             *)

OaChanges(d) ==
    /\ d # shown
    /\ shown' = d
    /\ UNCHANGED <<occurrence, notify, tasks, payloadVars, deliveryVars,
                   workerVars, console, accepted, crashes>>

\* sync_pending_discovery with the item in the list.  The hourly scan runs in
\* mode normal, `oa pending discover` in any mode, the bootstrap scan and the
\* oa_resync stage in mode disabled.
Scan(mode) ==
    LET fresh == /\ occurrence.hash # shown
                 /\ mode # "disabled"
                 /\ tasks[shown].status = "absent"
    IN  /\ occurrence' = [occurrence EXCEPT !.status = "active", !.hash = shown]
        /\ tasks' = IF fresh
                    THEN [tasks EXCEPT ![shown] = EnqueueRow("detail_sync", FALSE)]
                    ELSE tasks
        /\ notify' = IF fresh /\ mode = "normal" THEN notify \cup {shown} ELSE notify
        /\ UNCHANGED <<shown, payloadVars, deliveryVars, workerVars, console,
                       accepted, crashes>>

\* A complete scan that does not find the item closes its occurrence.
ScanMissing ==
    /\ occurrence.status = "active"
    /\ occurrence' = [occurrence EXCEPT !.status = "inactive"]
    /\ UNCHANGED <<shown, notify, tasks, payloadVars, deliveryVars, workerVars,
                   console, accepted, crashes>>

Retryable == {d \in Discoveries : tasks[d].status = "failed" /\ tasks[d].recoverable}

RetryFailed ==
    /\ Retryable # {}
    /\ tasks' = [d \in Discoveries |->
                    IF d \in Retryable THEN RetryRow(tasks[d]) ELSE tasks[d]]
    /\ UNCHANGED <<oaVars, payloadVars, deliveryVars, workerVars, console,
                   accepted, crashes>>

-----------------------------------------------------------------------------
(* The worker around a handler.                                            *)

Recovered_LiveLeasesOnly == tasks

Recovered ==
    [d \in Discoveries |->
        IF tasks[d].status = "running" THEN RecoverRow(tasks[d]) ELSE tasks[d]]

StartWorker ==
    /\ pc = "down"
    /\ pc' = "idle"
    /\ tasks' = Recovered
    /\ UNCHANGED <<oaVars, payloadVars, deliveryVars, cur, msg, result, out,
                   console, accepted, crashes>>

Claimable(d) == tasks[d].status = "queued" /\ ~tasks[d].backoff

Rank(d) == ClaimRank("realtime_pending", tasks[d].stage)

Claim(d) ==
    /\ pc = "idle"
    /\ Claimable(d)
    /\ \A e \in Discoveries : Claimable(e) => Rank(d) <= Rank(e)
    /\ tasks' = [tasks EXCEPT ![d] = ClaimRow(tasks[d], Worker)]
    /\ cur' = d
    /\ pc' = "executing"
    /\ UNCHANGED <<oaVars, payloadVars, deliveryVars, msg, result, out, console,
                   accepted, crashes>>

At(stage) == pc = "executing" /\ tasks[cur].stage = stage

\* The handler's last commit is done; it reports o to the queue.
Reports(o) ==
    /\ pc' = "reporting"
    /\ out' = o
    /\ UNCHANGED <<cur, msg, result>>

\* advance, complete or fail, the transaction after the handler's own.
Report ==
    /\ pc = "reporting"
    /\ tasks' = [tasks EXCEPT ![cur] = ResultRow(tasks[cur], tasks[cur], out, FALSE)]
    /\ pc' = "idle"
    /\ cur' = NoDiscovery
    /\ msg' = NoMessage
    /\ result' = "none"
    /\ out' = NoOutcome
    /\ UNCHANGED <<oaVars, payloadVars, deliveryVars, console, accepted, crashes>>

\* Any handler may raise between two commits; a failing report is reported as
\* a failure in its turn.
Raise(transient) ==
    /\ pc \in PCs \ {"down", "idle"}
    /\ Reports(Failed(transient, TRUE, "other"))
    /\ UNCHANGED <<oaVars, tasks, payloadVars, deliveryVars, console, accepted,
                   crashes>>

BackoffElapses(d) ==
    /\ tasks[d].backoff
    /\ tasks' = [tasks EXCEPT ![d].backoff = FALSE]
    /\ UNCHANGED <<oaVars, payloadVars, deliveryVars, workerVars, console,
                   accepted, crashes>>

Crash ==
    /\ pc # "down"
    /\ crashes < MaxCrashes
    /\ crashes' = crashes + 1
    /\ pc' = "down"
    /\ cur' = NoDiscovery
    /\ msg' = NoMessage
    /\ result' = "none"
    /\ out' = NoOutcome
    /\ UNCHANGED <<oaVars, tasks, payloadVars, deliveryVars, console, accepted>>
-----------------------------------------------------------------------------
(* detail_sync, pending_parse, pending_summary.                            *)

\* record_pending_snapshot keeps one snapshot per content; one that is already
\* there does not become the newest again.
Capture ==
    /\ At("detail_sync")
    /\ snapshots' = IF ContentOf[shown] \in In(snapshots) THEN snapshots
                    ELSE Append(snapshots, ContentOf[shown])
    /\ parses' \in 0..MaxParses
    /\ Reports(Advanced("pending_parse"))
    /\ UNCHANGED <<oaVars, tasks, summaries, deliveryVars, console, accepted,
                   crashes>>

\* One parse job per execution, done or given up; then the summary.
ParseOne ==
    /\ At("pending_parse")
    /\ parses > 0
    /\ parses' = parses - 1
    /\ Reports(Advanced("pending_parse"))
    /\ UNCHANGED <<oaVars, tasks, snapshots, summaries, deliveryVars, console,
                   accepted, crashes>>

ParsesDone ==
    /\ At("pending_parse")
    /\ parses = 0
    /\ Reports(Advanced("pending_summary"))
    /\ UNCHANGED <<oaVars, tasks, payloadVars, deliveryVars, console, accepted,
                   crashes>>

AfterSummary ==
    IF cur \in notify THEN Advanced("notify_feishu") ELSE Completed

NoSnapshot ==
    /\ At("pending_summary")
    /\ snapshots = << >>
    /\ Reports(Failed(FALSE, TRUE, "other"))
    /\ UNCHANGED <<oaVars, tasks, payloadVars, deliveryVars, console, accepted,
                   crashes>>

KnownSummary(e) ==
    /\ At("pending_summary")
    /\ snapshots # << >>
    /\ <<Newest(snapshots), e>> \in In(summaries)
    /\ Reports(AfterSummary)
    /\ UNCHANGED <<oaVars, tasks, payloadVars, deliveryVars, console, accepted,
                   crashes>>

\* The input is read and the job committed; the model runs without a session.
BeginSummary(e) ==
    /\ At("pending_summary")
    /\ snapshots # << >>
    /\ <<Newest(snapshots), e>> \notin In(summaries)
    /\ msg' = <<Newest(snapshots), e>>
    /\ pc' = "summarizing"
    /\ UNCHANGED <<oaVars, tasks, payloadVars, deliveryVars, cur, result, out,
                   console, accepted, crashes>>

\* Fails when a cleanup has deleted the snapshot and the job meanwhile.
EndSummary ==
    /\ pc = "summarizing"
    /\ \/ /\ msg[1] \in In(snapshots)
          /\ summaries' = Append(summaries, msg)
          /\ Reports(AfterSummary)
       \/ /\ msg[1] \notin In(snapshots)
          /\ Reports(Failed(FALSE, TRUE, "other"))
          /\ UNCHANGED summaries
    /\ UNCHANGED <<oaVars, tasks, snapshots, parses, deliveryVars, console,
                   accepted, crashes>>
-----------------------------------------------------------------------------
(* notify_feishu.                                                          *)

SkipNotify(state) ==
    /\ At("notify_feishu")
    /\ \/ state = "disabled" /\ Reports(Completed)
       \/ state = "misconfigured" /\ Reports(Failed(FALSE, FALSE, "other"))
       \/ /\ state = "ready"
          /\ summaries = << >>
          /\ Reports(Failed(FALSE, FALSE, "other"))
    /\ UNCHANGED <<oaVars, tasks, payloadVars, deliveryVars, console, accepted,
                   crashes>>

NotifyReady == At("notify_feishu") /\ "ready" \in FeishuStates /\ summaries # << >>

AlreadySent ==
    /\ NotifyReady
    /\ delivery[Newest(summaries)] = "sent"
    /\ Reports(Advanced("pending_cleanup"))
    /\ UNCHANGED <<oaVars, tasks, payloadVars, deliveryVars, console, accepted,
                   crashes>>

InDoubt_UnknownOnly == {"unknown"}

InDoubt == {"sending", "unknown"}

\* A delivery that may have succeeded is parked for the operator.
ParkUnknown ==
    /\ NotifyReady
    /\ delivery[Newest(summaries)] \in InDoubt
    /\ delivery' = [delivery EXCEPT ![Newest(summaries)] = "unknown"]
    /\ Reports(Failed(FALSE, FALSE, "other"))
    /\ UNCHANGED <<oaVars, tasks, payloadVars, newest, console, accepted, crashes>>

BeginDelivery ==
    /\ NotifyReady
    /\ delivery[Newest(summaries)] \notin InDoubt \cup {"sent"}
    /\ msg' = Newest(summaries)
    /\ delivery' = [delivery EXCEPT ![msg'] = "sending"]
    /\ newest' = IF delivery[msg'] = "none" THEN msg' ELSE newest
    /\ pc' = "posting"
    /\ UNCHANGED <<oaVars, tasks, payloadVars, cur, result, out, console,
                   accepted, crashes>>

\* Whether the server may have shown the message when send() returns r: a
\* timeout leaves it open; so does a connection that breaks after the request
\* was written, which send() reports like one that never opened.
MayShow(r) ==
    CASE r = "sent"            -> {1}
      [] r = "unknown_outcome" -> {0, 1}
      [] r = "connect_failed"  -> IF Ambiguous THEN {0, 1} ELSE {0}
      [] r = "rejected"        -> {0}

\* Two is as good as more.
Show(m, n) == accepted' = [accepted EXCEPT ![m] = IF @ + n > 2 THEN 2 ELSE @ + n]

Post(r, n) ==
    /\ pc = "posting"
    /\ n \in MayShow(r)
    /\ Show(msg, n)
    /\ result' = r
    /\ pc' = "answered"
    /\ UNCHANGED <<oaVars, tasks, payloadVars, deliveryVars, cur, msg, out,
                   console, crashes>>

delivery_status_Optimistic(r) ==
    CASE r = "rejected"       -> "failed"
      [] r = "connect_failed" -> "retry_wait"
      [] OTHER                -> "sent"

delivery_status_Raw(r) == r

delivery_status_for_result(r) ==
    CASE r = "sent"            -> "sent"
      [] r = "rejected"        -> "failed"
      [] r = "connect_failed"  -> "retry_wait"
      [] r = "unknown_outcome" -> "unknown"

AfterDelivery_NoCleanup(r) ==
    IF r = "sent" THEN Completed ELSE Failed(FALSE, r = "connect_failed", "other")

AfterDelivery(r) ==
    IF r = "sent" THEN Advanced("pending_cleanup")
    ELSE Failed(FALSE, r = "connect_failed", "other")

RecordDelivery ==
    /\ pc = "answered"
    /\ delivery' = [delivery EXCEPT ![msg] = delivery_status_for_result(result)]
    /\ Reports(AfterDelivery(result))
    /\ UNCHANGED <<oaVars, tasks, payloadVars, newest, console, accepted, crashes>>
-----------------------------------------------------------------------------
(* pending_cleanup.                                                        *)

Delivered == newest # NoMessage /\ delivery[newest] = "sent"

\* Every snapshot and summary of the item goes, whichever was delivered.
ErasePayload == snapshots' = << >> /\ parses' = 0 /\ summaries' = << >>

Erase ==
    /\ ErasePayload
    /\ occurrence' = [occurrence EXCEPT !.status = "cleaned", !.cleanup = "cleaned"]

\* cleaned is never reset: the erasure of an item happens once.
AlreadyCleaned ==
    /\ At("pending_cleanup")
    /\ occurrence.cleanup = "cleaned"
    /\ Reports(Completed)
    /\ UNCHANGED <<oaVars, tasks, payloadVars, deliveryVars, console, accepted,
                   crashes>>

CleanupRefused ==
    /\ At("pending_cleanup")
    /\ occurrence.cleanup # "cleaned"
    /\ ~Delivered
    /\ Reports(Failed(FALSE, TRUE, "other"))
    /\ UNCHANGED <<oaVars, tasks, payloadVars, deliveryVars, console, accepted,
                   crashes>>

Cleanup ==
    /\ At("pending_cleanup")
    /\ occurrence.cleanup # "cleaned"
    /\ Delivered
    /\ Erase
    /\ Reports(Completed)
    /\ UNCHANGED <<shown, notify, tasks, deliveryVars, console, accepted, crashes>>

\* An error while files are deleted is committed together with what was deleted
\* before it: nothing yet, or the snapshots and with them their summaries.
CleanupFails ==
    /\ At("pending_cleanup")
    /\ occurrence.cleanup # "cleaned"
    /\ Delivered
    /\ UNCHANGED payloadVars \/ ErasePayload
    /\ occurrence' = [occurrence EXCEPT !.cleanup = "cleanup_failed"]
    /\ Reports(Failed(FALSE, TRUE, "other"))
    /\ UNCHANGED <<shown, notify, tasks, deliveryVars, console, accepted, crashes>>
-----------------------------------------------------------------------------
(* The console.                                                            *)

ConsoleCleanup ==
    /\ occurrence.cleanup # "cleaned"
    /\ Delivered
    /\ Erase
    /\ UNCHANGED <<shown, notify, tasks, deliveryVars, workerVars, console,
                   accepted, crashes>>

\* The operator has looked into Feishu and records what is there.
Reconcile ==
    /\ newest # NoMessage
    /\ delivery[newest] = "unknown"
    /\ delivery' = [delivery EXCEPT ![newest] =
                       IF accepted[newest] > 0 THEN "sent" ELSE "failed"]
    /\ UNCHANGED <<oaVars, tasks, payloadVars, newest, workerVars, console,
                   accepted, crashes>>

\* retry_pending_delivery sends the newest summary again, marks nothing while it
\* does, and records the answer on the delivery the user saw as failed.
ConsoleRetry(t) ==
    /\ console[t].pc = "idle"
    /\ newest # NoMessage
    /\ delivery[newest] = "failed"
    /\ "ready" \in FeishuStates
    /\ summaries # << >>
    /\ console' = [console EXCEPT ![t] =
                      [NoRequest EXCEPT !.pc = "posting", !.entry = newest,
                                        !.msg = Newest(summaries)]]
    /\ UNCHANGED <<oaVars, tasks, payloadVars, deliveryVars, workerVars,
                   accepted, crashes>>

ConsolePost(t, r, n) ==
    /\ console[t].pc = "posting"
    /\ n \in MayShow(r)
    /\ Show(console[t].msg, n)
    /\ console' = [console EXCEPT ![t].pc = "answered", ![t].result = r]
    /\ UNCHANGED <<oaVars, tasks, payloadVars, deliveryVars, workerVars, crashes>>

ConsoleRecord(t) ==
    /\ console[t].pc = "answered"
    /\ delivery' = [delivery EXCEPT ![console[t].entry] =
                       delivery_status_for_result(console[t].result)]
    /\ console' = [console EXCEPT ![t] = NoRequest]
    /\ UNCHANGED <<oaVars, tasks, payloadVars, newest, workerVars, accepted,
                   crashes>>
-----------------------------------------------------------------------------
Handler ==
    \/ Capture
    \/ ParseOne
    \/ ParsesDone
    \/ NoSnapshot
    \/ \E e \in Evidence : KnownSummary(e) \/ BeginSummary(e)
    \/ EndSummary
    \/ \E f \in FeishuStates : SkipNotify(f)
    \/ AlreadySent
    \/ ParkUnknown
    \/ BeginDelivery
    \/ \E r \in Results, n \in {0, 1} : Post(r, n)
    \/ RecordDelivery
    \/ AlreadyCleaned
    \/ CleanupRefused
    \/ Cleanup
    \/ CleanupFails

WorkerStep ==
    \/ StartWorker
    \/ \E d \in Discoveries : Claim(d)
    \/ Handler
    \/ Report
    \/ \E transient \in Faults : Raise(transient)

ConsoleStep ==
    \/ RetryFailed
    \/ ConsoleCleanup
    \/ Reconcile
    \/ \E t \in Threads : ConsoleRetry(t) \/ ConsoleRecord(t)
    \/ \E t \in Threads, r \in Results, n \in {0, 1} : ConsolePost(t, r, n)

Next ==
    \/ \E d \in Discoveries : OaChanges(d)
    \/ \E mode \in ScanModes : Scan(mode)
    \/ ScanMissing
    \/ WorkerStep
    \/ ConsoleStep
    \/ \E d \in Discoveries : BackoffElapses(d)
    \/ Crash

Spec == Init /\ [][Next]_vars

\* The worker is supervised and no call of a handler blocks for ever.
Fairness ==
    /\ WF_vars(WorkerStep)
    /\ \A d \in Discoveries : WF_vars(BackoffElapses(d))

FairSpec == Spec /\ Fairness
-----------------------------------------------------------------------------
(* Properties.                                                             *)

\* The variables have the types the code's columns and fields have.
TypeOK ==
    /\ shown \in Discoveries
    /\ occurrence \in
          [status : {"unseen", "active", "inactive", "cleaned"},
           hash : Discoveries \cup {NoDiscovery},
           cleanup : {"not_eligible", "cleaned", "cleanup_failed"}]
    /\ tasks \in [Discoveries -> Row]
    /\ notify \subseteq Discoveries
    /\ snapshots \in Seq(Contents)
    /\ parses \in 0..MaxParses
    /\ summaries \in Seq(Messages)
    /\ delivery \in [Messages -> DeliveryStatuses]
    /\ newest \in Messages \cup {NoMessage}
    /\ pc \in PCs
    /\ cur \in Discoveries \cup {NoDiscovery}
    /\ msg \in Messages \cup {NoMessage}
    /\ result \in Results \cup {"none"}
    /\ out \in Outcome
    /\ console \in [Threads -> Request]
    /\ accepted \in [Messages -> 0..2]
    /\ crashes \in 0..MaxCrashes

\* The Feishu group sees a version of the item at most once, however often
\* the item is rediscovered, the task retried, the worker killed between the
\* POST and the commit of its answer, or the payload erased and captured again
\* (worker.py:1384-1387; docs/superpowers/specs/
\* 2026-09-04-oaradar-v2-rc-closure-design.md:137-139).
AtMostOnce == \A m \in Messages : accepted[m] <= 1

\* A delivery recorded as sent, which is what permits the erasure of the
\* payload and silences every later task of the same version, was shown by
\* Feishu.
SentMeansShown == \A m \in Messages : delivery[m] = "sent" => accepted[m] > 0

Parked(d) == tasks[d].status = "failed"

\* An item whose notification was asked for is shown in Feishu in the end or its
\* task stays failed where the console lists it; neither a crash nor a
\* console cleanup makes it disappear silently.
NotifiedOrParked ==
    \A d \in Discoveries :
        (d \in notify) ~>
            \/ \E e \in Evidence : accepted[<<ContentOf[d], e>>] > 0
            \/ Parked(d)

\* pending_cleanup.py:3-7: "Once Feishu confirms a successful delivery, the
\* business payload ... is erased", unless a failed task tells the operator.
DeliveredIsErased ==
    \A m \in Messages :
        delivery[m] = "sent" ~>
            \/ m[1] \notin In(snapshots)
            \/ \E d \in Discoveries : Parked(d)

\* docs/plan-0807-1.md:390-398: what has not been delivered, or is still being
\* summarised, must not be erased.
UndeliveredIsKept ==
    [][\A c \in Contents :
          c \in In(snapshots) /\ c \notin In(snapshots') =>
              \E e \in Evidence : accepted[<<c, e>>] > 0]_vars
=============================================================================
