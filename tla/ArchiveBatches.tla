--------------------------- MODULE ArchiveBatches ---------------------------
(***************************************************************************)
(* A batch of done items that an operator plans, discovers and archives,   *)
(* from the console, whose requests become jobs of the worker, and from a  *)
(* terminal.  Every command is a process of its own that keeps what it     *)
(* read while it works in the browser, of which there is one: the second   *)
(* to open the profile fails.  A worker that dies leaves its child, whose  *)
(* job is then given to another.  Each session with the database is one    *)
(* step.                                                                   *)
(*                                                                         *)
(* Sources: batches.py, state.py, cli.py (batch ...), web/status.py,       *)
(* web/worker.py (_execute_discovery).  The campaign that makes its own    *)
(* batches is BackfillCampaign.                                            *)
(***************************************************************************)
EXTENDS Integers, FiniteSets, FiniteSetsExt

CONSTANTS
    Items,       \* done items, the newest the greatest; the order of the list
    Limit,       \* planned_limit
    Elsewhere,   \* items another batch has archived
    Configured,  \* items the configured title patterns exclude
    Commands,    \* processes of the command line
    None,
    MaxFaults, MaxChanges

VARIABLES
    batch,     \* [status, frozen, discovered, skipped]
    item,      \* item -> its status in the batch, "none" when it is not in it
    source,    \* items in the window of the OA
    policies,  \* items an enabled exclusion policy matches
    jobs,      \* the discovery job and the last archive job
    worker,    \* [job, child]: what the worker waits for
    procs,     \* command -> [pc, doing, found, todo, item, outcome, code]
    notes,     \* auxiliary: [again, freed, relisted, screened]
    spent      \* how much of the bounds was used: [faults, changes]

vars == <<batch, item, source, policies, jobs, worker, procs, notes, spent>>

Idle == [pc |-> "idle", doing |-> "none", found |-> {}, todo |-> {}, item |-> None,
         outcome |-> "none", code |-> 0]

Free == [job |-> "none", child |-> None]

Init ==
    /\ batch = [status |-> "planned", frozen |-> FALSE, discovered |-> 0, skipped |-> 0]
    /\ item = [i \in Items |-> "none"]
    /\ source \in {{i \in Items : i <= n} : n \in Items}
    /\ policies = {}
    /\ jobs = [discovery |-> "none", archive |-> "none"]
    /\ worker = Free
    /\ procs = [c \in Commands |-> Idle]
    /\ notes = [again |-> {}, freed |-> {}, relisted |-> FALSE, screened |-> FALSE]
    /\ spent = [faults |-> 0, changes |-> 0]

-----------------------------------------------------------------------------
Listed == {i \in Items : item[i] # "none"}
In(statuses) == {i \in Items : item[i] \in statuses}
Settled == {"archived", "confirmed_skip"}
Discovered == {"ready", "running", "paused", "completed"}

\* BATCH_TRANSITIONS, for the states a batch of the operator takes.
May(from, to) ==
    <<from, to>> \in {<<"planned", "discovering">>, <<"planned", "cancelled">>,
                      <<"ready", "running">>, <<"running", "paused">>,
                      <<"paused", "discovering">>, <<"paused", "running">>}

At(c, pc) == procs[c].pc = pc
Step(c, changes) == procs' = [procs EXCEPT ![c] = changes]
Move(c, pc) == Step(c, [procs[c] EXCEPT !.pc = pc])
Exit(c, code, outcome) == Step(c, [Idle EXCEPT !.pc = "exited", !.doing = procs[c].doing,
                                               !.code = code, !.outcome = outcome])

\* The browser profile is in use.
Browsing(c) == procs[c].pc \in {"run", "capture", "sample", "related"}
Taken == \E c \in Commands : Browsing(c)

Fault == spent.faults < MaxFaults /\ spent' = [spent EXCEPT !.faults = @ + 1]
Change == spent.changes < MaxChanges /\ spent' = [spent EXCEPT !.changes = @ + 1]

Skip(set) == [i \in Items |-> IF i \in set THEN "confirmed_skip" ELSE item[i]]

\* _apply_policy_to_pending: what waits and matches is skipped, and counted in
\* the batch.
Pending == In({"pending"})

ApplyPolicies(matched) ==
    /\ item' = Skip(Pending \cap matched)
    /\ batch' = IF Pending \cap matched = {} THEN batch
                ELSE [batch EXCEPT !.skipped = Cardinality(In({"confirmed_skip"})
                                                           \cup (Pending \cap matched))]

-----------------------------------------------------------------------------
(* batch discover                                                          *)
StartDiscover(c) ==
    /\ At(c, "start") /\ procs[c].doing = "discover"
    /\ IF \E d \in Commands : At(d, "scan") THEN Exit(c, 2, "none")
       ELSE IF ~batch.frozen THEN Exit(c, 1, "none")
       ELSE IF batch.status \in Discovered THEN Exit(c, 0, "none")
       ELSE Move(c, "scan")
    /\ UNCHANGED <<batch, item, source, policies, jobs, worker, notes, spent>>

\* The items of the window, in the order of the list, up to the limit.
Accepted == {i \in source : Cardinality({j \in source : j > i}) < Limit}

\* The lock of the discovery is held for the scan, and not any longer.
Scan(c) ==
    /\ At(c, "scan")
    /\ \/ /\ ~Taken
          /\ Step(c, [procs[c] EXCEPT !.pc = "apply", !.found = Accepted])
          /\ UNCHANGED spent
       \/ Taken /\ Exit(c, 1, "none") /\ UNCHANGED spent
       \/ Fault /\ Exit(c, 3, "none")
    /\ UNCHANGED <<batch, item, source, policies, jobs, worker, notes>>

\* apply_discovery; an item that is listed already violates a constraint.
Reapplied(status) == status = "ready"

Apply(c) ==
    LET found == procs[c].found
    IN  /\ At(c, "apply")
        /\ IF Reapplied(batch.status)
           THEN Exit(c, 0, "none") /\ UNCHANGED <<batch, item, notes>>
           ELSE IF May(batch.status, "discovering") /\ found \cap Listed = {}
           THEN /\ item' = [i \in Items |-> IF i \in found THEN "pending" ELSE item[i]]
                /\ batch' = [batch EXCEPT !.status = "ready", !.discovered = Cardinality(found)]
                /\ notes' = [notes EXCEPT !.relisted = batch.status # "planned"]
                /\ Exit(c, 0, "none")
           ELSE Exit(c, 1, "none") /\ UNCHANGED <<batch, item, notes>>
        /\ UNCHANGED <<source, policies, jobs, worker, spent>>

-----------------------------------------------------------------------------
(* batch run                                                               *)

\* Exclusions first, then what another batch has archived, then what an
\* interrupted run left in work.
StartRun(c) ==
    LET skips == Pending \cap Configured
        reused == (Pending \ Configured) \cap Elsewhere
    IN  /\ At(c, "start") /\ procs[c].doing = "run"
        /\ IF batch.status \in {"ready", "running"}
           THEN /\ batch' = [batch EXCEPT !.status = "running"]
                /\ item' = [i \in Items |-> CASE i \in skips -> "confirmed_skip"
                                              [] i \in reused -> "archived"
                                              [] item[i] = "archiving" -> "pending"
                                              [] OTHER -> item[i]]
                /\ notes' = [notes EXCEPT !.freed = @ \cup In({"archiving"})]
                /\ Move(c, "open")
           ELSE Exit(c, 1, "none") /\ UNCHANGED <<batch, item, notes>>
        /\ UNCHANGED <<source, policies, jobs, worker, spent>>

Closing(c, outcome) == Step(c, [procs[c] EXCEPT !.pc = "close", !.outcome = outcome, !.item = None])

Open(c) ==
    /\ At(c, "open")
    /\ LET fails(outcome) == IF procs[c].doing = "run" THEN Closing(c, outcome)
                             ELSE Exit(c, 2, "none")
       IN  \/ Taken /\ fails("interrupted") /\ UNCHANGED spent
           \/ ~Taken /\ Move(c, procs[c].doing) /\ UNCHANGED spent
           \/ ~Taken /\ Fault /\ fails("auth_required")
    /\ UNCHANGED <<batch, item, source, policies, jobs, worker, notes>>

\* The next waiting item; the command ends without one, when the batch was
\* paused, when enough items were processed or its time is over.
Take(c) ==
    /\ At(c, "run")
    /\ IF batch.status = "paused" THEN Closing(c, "paused") /\ UNCHANGED item
       ELSE IF Pending = {} THEN Closing(c, "drained") /\ UNCHANGED item
       ELSE \/ /\ item' = [item EXCEPT ![Max(Pending)] = "archiving"]
               /\ Step(c, [procs[c] EXCEPT !.pc = "capture", !.item = Max(Pending)])
            \/ Closing(c, "paused") /\ UNCHANGED item
    /\ UNCHANGED <<batch, source, policies, jobs, worker, notes, spent>>

\* A capture of an item that had come to its end meanwhile.
Noted(i) == [notes EXCEPT !.again = IF item[i] \in Settled THEN @ \cup {i} ELSE @]

\* archive_collaboration_detail: files that failed, or deeper pages, leave
\* the item open.
Archive(c) ==
    LET i == procs[c].item
    IN  /\ At(c, "capture")
        /\ \/ /\ item' = [item EXCEPT ![i] = "archived"]
              /\ Step(c, [procs[c] EXCEPT !.pc = "run", !.item = None])
              /\ UNCHANGED spent
           \/ /\ item' = [item EXCEPT ![i] = "failed"]
              /\ Fault /\ \E outcome \in {"item_failed", "paused"} : Closing(c, outcome)
           \/ /\ item' = [item EXCEPT ![i] = "depth_limit_reached"]
              /\ Fault /\ Step(c, [procs[c] EXCEPT !.pc = "run", !.item = None])
        /\ notes' = Noted(i)
        /\ UNCHANGED <<batch, source, policies, jobs, worker>>

\* The finally clause counts, and closes the batch or leaves it paused.
AllDone_NoneWaits == In({"pending", "archiving"}) = {}

AllDone == Cardinality(In(Settled)) = batch.discovered

Close(c) ==
    LET outcome == IF AllDone THEN "completed" ELSE procs[c].outcome
    IN  /\ At(c, "close")
        /\ batch' = [batch EXCEPT !.skipped = Cardinality(In({"confirmed_skip"})),
                                  !.status = IF AllDone THEN "completed" ELSE "paused"]
        /\ Exit(c, IF outcome \in {"auth_required", "interrupted"} THEN 2 ELSE 0, outcome)
        /\ UNCHANGED <<item, source, policies, jobs, worker, notes, spent>>

-----------------------------------------------------------------------------
(* batch archive-samples and batch archive-related, for the terminal       *)
StartSamples(c) ==
    /\ At(c, "start") /\ procs[c].doing = "sample"
    /\ IF batch.status \in {"ready", "running"} /\ Pending # {}
       THEN Step(c, [procs[c] EXCEPT !.pc = "open", !.todo = Pending])
       ELSE Exit(c, 1, "none")
    /\ UNCHANGED <<batch, item, source, policies, jobs, worker, notes, spent>>

StartRelated(c) ==
    /\ At(c, "start") /\ procs[c].doing = "related"
    /\ \E i \in Listed : Step(c, [procs[c] EXCEPT !.pc = "open", !.todo = {i}])
    /\ UNCHANGED <<batch, item, source, policies, jobs, worker, notes, spent>>

\* A capture makes the batch running; an exception fails a sample.
Capture(c) ==
    LET i == Max(procs[c].todo)
        captured(status) == /\ item' = [item EXCEPT ![i] = status]
                            /\ batch' = [batch EXCEPT !.status = "running"]
    IN  /\ procs[c].pc \in {"sample", "related"}
        /\ IF procs[c].todo = {} THEN Exit(c, 0, "none") /\ UNCHANGED <<batch, item, notes, spent>>
           ELSE /\ \/ captured("archived") /\ UNCHANGED spent
                   \/ captured("failed") /\ Fault
                   \/ /\ Fault /\ UNCHANGED batch
                      /\ item' = [item EXCEPT ![i] = IF procs[c].doing = "sample" THEN "failed" ELSE @]
                /\ Step(c, [procs[c] EXCEPT !.todo = @ \ {i}])
                /\ notes' = Noted(i)
        /\ UNCHANGED <<source, policies, jobs, worker>>

-----------------------------------------------------------------------------
(* The worker and its children.                                            *)
Unused(c) == At(c, "idle")

Child(c, doing) == Step(c, [Idle EXCEPT !.pc = "start", !.doing = doing])

\* _execute_discovery: the batch is frozen, unless it was cancelled.
ClaimDiscovery(c) ==
    /\ worker = Free /\ jobs.discovery = "queued"
    /\ Unused(c)
    /\ IF ~batch.frozen /\ batch.status # "planned"
       THEN /\ jobs' = [jobs EXCEPT !.discovery = "failed"]
            /\ UNCHANGED <<batch, worker, procs>>
       ELSE /\ batch' = [batch EXCEPT !.frozen = TRUE]
            /\ jobs' = [jobs EXCEPT !.discovery = "running"]
            /\ worker' = [job |-> "discovery", child |-> c]
            /\ Child(c, "discover")
    /\ UNCHANGED <<item, source, policies, notes, spent>>

ClaimArchive(c) ==
    /\ worker = Free /\ jobs.archive = "queued"
    /\ Unused(c)
    /\ jobs' = [jobs EXCEPT !.archive = "running"]
    /\ worker' = [job |-> "archive", child |-> c]
    /\ Child(c, "run")
    /\ UNCHANGED <<batch, item, source, policies, notes, spent>>

DiscoveryStatus(code) == CASE code = 3 -> "auth_required" [] code = 0 -> "completed" [] OTHER -> "failed"

ArchiveStatus(code, outcome) ==
    CASE outcome = "auth_required" -> "auth_required"
      [] outcome = "item_failed" -> "failed"
      [] outcome = "paused" -> "paused"
      [] OTHER -> IF code = 0 THEN "completed" ELSE "failed"

\* A discovery that went well is followed by the enabled policies.
Collect ==
    LET c == worker.child
        status == IF worker.job = "discovery" THEN DiscoveryStatus(procs[c].code)
                  ELSE ArchiveStatus(procs[c].code, procs[c].outcome)
    IN  /\ worker # Free /\ At(c, "exited")
        /\ jobs' = [jobs EXCEPT ![worker.job] = status]
        /\ IF worker.job = "discovery" /\ status = "completed"
           THEN /\ ApplyPolicies(policies)
                /\ notes' = [notes EXCEPT !.screened = TRUE]
           ELSE UNCHANGED <<batch, item, notes>>
        /\ worker' = Free /\ Step(c, Idle)
        /\ UNCHANGED <<source, policies, spent>>

\* The timeout of a job kills its child.
Expire ==
    /\ worker # Free /\ Fault
    /\ jobs' = [jobs EXCEPT ![worker.job] = "failed"]
    /\ worker' = Free /\ Step(worker.child, Idle)
    /\ UNCHANGED <<batch, item, source, policies, notes>>

\* The worker dies, and the next one finds a job of a dead owner.
WorkerDies ==
    /\ worker # Free /\ Fault
    /\ jobs' = [jobs EXCEPT ![worker.job] = "queued"]
    /\ worker' = Free
    /\ UNCHANGED <<batch, item, source, policies, procs, notes>>

\* A command dies; its parent sees a code that is not 0.
CommandDies(c) ==
    /\ procs[c].pc \notin {"idle", "exited"} /\ Fault
    /\ Exit(c, 9, "none")
    /\ UNCHANGED <<batch, item, source, policies, jobs, worker, notes>>

\* Nobody waits for a command of the terminal or of a dead worker.
Forget(c) ==
    /\ At(c, "exited") /\ worker.child # c
    /\ Step(c, Idle)
    /\ UNCHANGED <<batch, item, source, policies, jobs, worker, notes, spent>>

-----------------------------------------------------------------------------
(* The console and the terminal.                                           *)
Terminal(c) ==
    /\ Unused(c) /\ Change
    /\ \E doing \in {"discover", "run", "sample", "related"} : Child(c, doing)
    /\ UNCHANGED <<batch, item, source, policies, jobs, worker, notes>>

Control(status) ==
    /\ batch' = [batch EXCEPT !.status = status]
    /\ UNCHANGED <<item, source, policies, jobs, worker, procs, notes>>

Freeze ==
    /\ batch.status = "planned" /\ ~batch.frozen
    /\ batch' = [batch EXCEPT !.frozen = TRUE]
    /\ UNCHANGED <<item, source, policies, jobs, worker, procs, notes, spent>>

Cancel == ~batch.frozen /\ May(batch.status, "cancelled") /\ Change /\ Control("cancelled")

\* The console resumes what is paused; batch resume also starts what is ready.
Pause == batch.status = "running" /\ Change /\ Control("paused")

Resume == batch.status = "paused" /\ Change /\ Control("running")

CommandPause == May(batch.status, "paused") /\ Change /\ Control("paused")

CommandResume == May(batch.status, "running") /\ Change /\ Control("running")

\* create_discovery_job: one job per plan, queued again after a failure.
CreateDiscovery ==
    /\ jobs.discovery \in {"none", "failed", "auth_required"}
    /\ jobs.discovery # "none" => Change
    /\ jobs.discovery = "none" => UNCHANGED spent
    /\ jobs' = [jobs EXCEPT !.discovery = "queued"]
    /\ UNCHANGED <<batch, item, source, policies, worker, procs, notes>>

\* start_archive_job resumes a paused batch.
StartArchive ==
    /\ batch.status \in {"paused", "ready", "running"}
    /\ jobs.archive \notin {"queued", "running"}
    /\ jobs.archive # "none" => Change
    /\ jobs.archive = "none" => UNCHANGED spent
    /\ jobs' = [jobs EXCEPT !.archive = "queued"]
    /\ batch' = IF batch.status = "paused" THEN [batch EXCEPT !.status = "running"] ELSE batch
    /\ UNCHANGED <<item, source, policies, worker, procs, notes>>

\* What failed waits again, whatever the batch does.
Retry(set) ==
    /\ set # {} /\ Change
    /\ item' = [i \in Items |-> IF i \in set THEN "pending" ELSE item[i]]
    /\ notes' = [notes EXCEPT !.freed = @ \cup set]
    /\ UNCHANGED <<batch, source, policies, jobs, worker, procs>>

RetryItem(i) == Retry({i})

RetryFailed == Retry(In({"failed"}))

\* A policy is applied to what waits at the moment it is saved, in one place
\* or many; one that is gone, or matches something else now, leaves the items
\* of a batch skipped.
SavePolicies(enabled, matched) ==
    /\ Change
    /\ policies' = enabled
    /\ ApplyPolicies(matched)
    /\ notes' = [notes EXCEPT !.freed = @ \ matched]
    /\ UNCHANGED <<source, jobs, worker, procs>>

CreatePolicy(i) == i \notin policies /\ SavePolicies(policies \cup {i}, {i})

CreatePolicies ==
    \E new \in SUBSET Items : new # {} /\ SavePolicies(policies \cup new, new)

UpdatePolicy(old, i) == old \in policies /\ SavePolicies((policies \ {old}) \cup {i}, {i})

DeletePolicy(i) == i \in policies /\ SavePolicies(policies \ {i}, {})

Arrive(i) ==
    /\ i \notin source /\ Change
    /\ source' = source \cup {i}
    /\ UNCHANGED <<batch, item, policies, jobs, worker, procs, notes>>

Next ==
    \/ \E c \in Commands :
           \/ StartDiscover(c) \/ Scan(c) \/ Apply(c)
           \/ StartRun(c) \/ Open(c) \/ Take(c) \/ Archive(c) \/ Close(c)
           \/ StartSamples(c) \/ StartRelated(c) \/ Capture(c)
           \/ ClaimDiscovery(c) \/ ClaimArchive(c) \/ CommandDies(c) \/ Forget(c) \/ Terminal(c)
    \/ Collect \/ Expire \/ WorkerDies
    \/ Freeze \/ Cancel \/ Pause \/ Resume \/ CommandPause \/ CommandResume
    \/ CreateDiscovery \/ StartArchive
    \/ RetryFailed \/ \E i \in In({"failed"}) : RetryItem(i)
    \/ CreatePolicies
    \/ \E i \in Items : CreatePolicy(i) \/ DeletePolicy(i) \/ Arrive(i)
    \/ \E old, i \in Items : UpdatePolicy(old, i)

Spec == Init /\ [][Next]_vars

-----------------------------------------------------------------------------
\* validate_batch: the rows that are archived, the number that was stored as
\* skipped, and the number that was stored as discovered.
Reconciled == batch.discovered = Cardinality(In({"archived"})) + batch.skipped

\* batch validate, for a batch that was discovered.
Validates == batch.status \in Discovered /\ Reconciled

\* A batch that validates, and one that is completed, has no open item: unless
\* one was captured again after it had been skipped or archived, or the batch
\* was listed twice.
SettledWhenReconciled ==
    notes.again = {} /\ ~notes.relisted /\ (Validates \/ batch.status = "completed") =>
        Listed = In(Settled)

\* The list of a batch is made once and counted right, by whichever of the
\* discoveries comes first: unless a late one met a batch that was paused.
ListedOnce == ~notes.relisted => batch.discovered = Cardinality(Listed)

\* After the job of a discovery no item waits that an enabled policy excludes,
\* unless it waits because it failed or because a run was interrupted.
PoliciesHold == notes.screened /\ ~notes.relisted => Pending \cap policies \subseteq notes.freed

BatchesAreTrue == SettledWhenReconciled /\ ListedOnce /\ PoliciesHold

-----------------------------------------------------------------------------
(***************************************************************************)
(* Why they are: the inductive invariant of the proofs.                    *)
(***************************************************************************)
Recorded(c) ==
    /\ DOMAIN procs[c] = DOMAIN Idle
    /\ procs[c].doing \in {"none", "discover", "run", "sample", "related"}

ItemsOrdered == IsFiniteSet(Items) /\ Items \subseteq Int

Records ==
    /\ DOMAIN batch = {"status", "frozen", "discovered", "skipped"}
    /\ DOMAIN item = Items /\ source \subseteq Items /\ policies \subseteq Items
    /\ DOMAIN worker = {"job", "child"} /\ (worker # Free => worker.child \in Commands)
    /\ DOMAIN procs = Commands
    /\ \A c \in Commands : Recorded(c)
    /\ DOMAIN notes = {"again", "freed", "relisted", "screened"}
    /\ batch.discovered \in Nat /\ batch.skipped \in Nat

\* A command captures what is listed; once one works, or has ended well, the
\* batch is not planned any more.
KnowsTheList(c) ==
    /\ procs[c].found \subseteq Items
    /\ procs[c].todo \subseteq Listed
    /\ At(c, "capture") => procs[c].item \in Listed
    /\ procs[c].pc \notin {"idle", "start", "scan", "apply", "exited"} => batch.status # "planned"
    /\ At(c, "exited") /\ procs[c].code = 0 => batch.status # "planned"

\* Before the discovery there is nothing to list, to repeat or to exclude.
PlannedIsEmpty ==
    batch.status = "planned" =>
        Listed = {} /\ batch.discovered = 0 /\ ~notes.relisted /\ ~notes.screened

\* What was stored as skipped is still skipped, and a completed batch is settled.
SkippedStays == notes.again = {} => batch.skipped <= Cardinality(In({"confirmed_skip"}))

CompletedStays ==
    notes.again = {} /\ ~notes.relisted /\ batch.status = "completed" => Listed = In(Settled)

BatchInv ==
    /\ Records /\ \A c \in Commands : KnowsTheList(c)
    /\ PlannedIsEmpty /\ SkippedStays /\ CompletedStays /\ ListedOnce /\ PoliciesHold
=============================================================================
