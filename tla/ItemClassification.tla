------------------------- MODULE ItemClassification -------------------------
(***************************************************************************)
(* The classification of archived items.  An item has a chain of decisions *)
(* of which one is current; decisions are made by runs, which freeze their *)
(* items when they are created and adopt one decision for each.  Four      *)
(* programs write: the pipeline, when an item was archived or changed; the *)
(* candidate backfill, over all items; the semantic review, with a model;  *)
(* and the console, for a manual decision, which is locked.                *)
(*                                                                         *)
(* Reads take no lock: a transaction holds one from its first write on, so *)
(* what a program reads and what it writes are two steps.  The index on    *)
(* is_current lets a swap succeed only if the decision that was read is    *)
(* still the current one (db/models.py); otherwise the attempt fails.      *)
(* That a run is completed by then, nothing tells it.                      *)
(***************************************************************************)
EXTENDS Naturals, Sequences, FiniteSets

CONSTANTS
    Items,
    LockWhileThinking,   \* whether a manual decision may come while a model is asked
    MaxChanges,          \* bound: changes of an item's material or exclusion, manual decisions
    MaxFaults,           \* bound: failed attempts and crashes
    MaxDecisions,        \* bound: decisions made
    MaxBusy              \* bound: programs at work at the same time

VARIABLES
    decisions,   \* a sequence; a decision is known by its place in it
    current,     \* item -> the current decision, 0 if there is none
    runs,        \* run -> [status, why, stage, adopted, sealed]
    excluded,    \* item -> whether a policy excludes it
    material,    \* item -> the version of its verified originals
    procs,       \* program -> [pc, run, item, seen, material, status]
    spent        \* how much of the bounds was used: [changes, faults]

tables == <<decisions, current, runs>>
archive == <<excluded, material>>
vars == <<tables, archive, procs, spent>>

Programs == {"pipeline", "backfill", "semantic", "web"}

RunIds == {<<"backfill">>, <<"semantic">>} \cup {<<"manual", n>> : n \in 1..MaxChanges}
          \cup {<<"pipeline", i, m>> : i \in Items, m \in 0..MaxChanges + 1}

\* The rules a run was created with; a pipeline and a manual run have the same.
Rules(run) == IF run[1] = "manual" THEN "pipeline" ELSE run[1]

Absent == [status |-> "none", why |-> [i \in Items |-> "none"], stage |-> [i \in Items |-> "none"],
           adopted |-> [i \in Items |-> 0], sealed |-> [i \in Items |-> 0]]

Idle == [pc |-> "idle", run |-> <<"backfill">>, item |-> CHOOSE i \in Items : TRUE, seen |-> 0,
         material |-> 0, status |-> "none"]

Init ==
    /\ decisions = <<>>
    /\ current = [i \in Items |-> 0]
    /\ runs = [r \in RunIds |-> Absent]
    /\ excluded = [i \in Items |-> FALSE]
    /\ material = [i \in Items |-> 1]
    /\ procs = [p \in Programs |-> Idle]
    /\ spent = [changes |-> 0, faults |-> 0]

-----------------------------------------------------------------------------
Frozen(run) == {i \in Items : runs[run].why[i] # "none"}

InStage(run, stage) == {i \in Frozen(run) : runs[run].stage[i] = stage}

CurrentOf(i) == decisions[current[i]]

Has(i) == current[i] # 0

Move(p, pc) == procs' = [procs EXCEPT ![p].pc = pc]
Go(p, changes) == procs' = [procs EXCEPT ![p] = changes]
Return(p) == Go(p, Idle)

\* Back to the loop over the items of the run.
Loop(p, pc) == Go(p, [Idle EXCEPT !.pc = pc, !.run = procs[p].run, !.item = procs[p].item])

At(p, pc) == procs[p].pc = pc

Free(p) == At(p, "idle") /\ Cardinality({q \in Programs : ~At(q, "idle")}) < MaxBusy

SetStage(run, i, stage) == runs' = [runs EXCEPT ![run].stage[i] = stage]

Settle(run, i, d) ==
    runs' = [runs EXCEPT ![run].stage[i] = "decided", ![run].adopted[i] = d]

Fault == spent.faults < MaxFaults /\ spent' = [spent EXCEPT !.faults = @ + 1]

\* _swap_current, in the transaction that also settles the run item: the
\* index refuses it when the decision that was read is no longer current.
Swappable_NoIndex(i, seen) == TRUE

Swappable(i, seen) == current[i] = seen

Swap(i, decision) ==
    /\ Len(decisions) < MaxDecisions
    /\ decisions' = Append(decisions, decision)
    /\ current' = [current EXCEPT ![i] = Len(decisions) + 1]

Decision(i, run, status, input, base) ==
    [item |-> i, run |-> run, status |-> status, locked |-> FALSE, rules |-> Rules(run),
     input |-> input, material |-> 0, base |-> base]

\* _decision_input_sha: the item, its manifest row and archive, the rules.
decision_input(i, run) == <<"metadata", runs[run].why[i], excluded[i], material[i], Rules(run)>>

-----------------------------------------------------------------------------
(***************************************************************************)
(* ClassificationService: runs.                                            *)
(***************************************************************************)
inclusion_reason(i) == IF excluded[i] THEN "excluded" ELSE "target"

Created(targets) ==
    [Absent EXCEPT !.status = "created",
        !.why = [i \in Items |-> IF i \in targets THEN inclusion_reason(i) ELSE "none"],
        !.stage = [i \in Items |-> IF i \in targets THEN "queued" ELSE "none"]]

\* create_run: the same run again only for the same items, each included for
\* the same reason.
SameInputs(run, targets) ==
    runs[run].why = Created(targets).why

create_run(run, targets) ==
    IF runs[run].status = "none" THEN runs' = [runs EXCEPT ![run] = Created(targets)]
    ELSE SameInputs(run, targets) /\ UNCHANGED runs

\* _claim_next: a completed run, or one without queued items, has no next.
NoNext(run) == runs[run].status = "completed" \/ InStage(run, "queued") = {}

Claim(p, after) ==
    LET run == procs[p].run
    IN  /\ At(p, "process")
        /\ IF NoNext(run)
           THEN /\ runs' = [runs EXCEPT ![run].status = IF @ = "created" THEN "running" ELSE @]
                /\ Move(p, after)
           ELSE \E i \in InStage(run, "queued") :
                    /\ runs' = [runs EXCEPT ![run].status = "running", ![run].stage[i] = "metadata"]
                    /\ Go(p, [procs[p] EXCEPT !.pc = "decide", !.item = i])
        /\ UNCHANGED <<decisions, current, archive, spent>>

\* What _decide_claimed makes of an item from what it reads: nothing new if a
\* person decided, or for the same input.
KeepsCurrent_IgnoresLock(i, run) == Has(i) /\ CurrentOf(i).input = decision_input(i, run)

KeepsCurrent(i, run) ==
    /\ Has(i)
    /\ \/ runs[run].why[i] = "target" /\ CurrentOf(i).locked
       \/ CurrentOf(i).input = decision_input(i, run)

Decide(p) ==
    LET i == procs[p].item
        run == procs[p].run
    IN  /\ At(p, "decide")
        /\ IF KeepsCurrent(i, run)
           THEN Go(p, [procs[p] EXCEPT !.pc = "keep", !.seen = current[i]])
           ELSE \E status \in IF runs[run].why[i] = "excluded" THEN {"excluded"}
                              ELSE {"classified", "needs_review"} :
                    Go(p, [procs[p] EXCEPT !.pc = "swap", !.seen = current[i],
                                           !.material = material[i], !.status = status])
        /\ UNCHANGED <<tables, archive, spent>>

\* The run adopts the decision that was read.
Keep(p, after) ==
    /\ At(p, "keep")
    /\ Settle(procs[p].run, procs[p].item, procs[p].seen)
    /\ Loop(p, after)
    /\ UNCHANGED <<decisions, current, archive, spent>>

\* The decision is recorded with the input as it was read.
Adopt(p) ==
    LET i == procs[p].item
        run == procs[p].run
    IN  /\ At(p, "swap")
        /\ IF Swappable(i, procs[p].seen)
           THEN /\ Swap(i, Decision(i, run, procs[p].status,
                                    [decision_input(i, run) EXCEPT ![4] = procs[p].material],
                                    procs[p].seen))
                /\ Settle(run, i, Len(decisions) + 1)
           ELSE SetStage(run, i, "failed") /\ UNCHANGED <<decisions, current>>
        /\ Loop(p, "process")
        /\ UNCHANGED <<archive, spent>>

\* _mark_failed, after any exception of an attempt.
Fail(p) ==
    /\ procs[p].pc \in {"decide", "keep", "swap"}
    /\ Fault
    /\ SetStage(procs[p].run, procs[p].item, "failed")
    /\ Loop(p, "process")
    /\ UNCHANGED <<decisions, current, archive>>

-----------------------------------------------------------------------------
(***************************************************************************)
(* The candidate backfill: one run, processed once and completed.  Its run *)
(* is the full one here, which freezes excluded items too; the service     *)
(* offers it, as it offers resume, and its tests use both, while the       *)
(* backfill names its targets and so freezes none that is excluded.        *)
(***************************************************************************)
StartBackfill ==
    /\ Free("backfill")
    /\ create_run(<<"backfill">>, Items)
    /\ Go("backfill", [Idle EXCEPT !.pc = "process", !.run = <<"backfill">>])
    /\ UNCHANGED <<decisions, current, archive, spent>>

Resume ==
    LET run == <<"backfill">>
    IN  /\ Free("backfill") /\ runs[run].status # "none"
        /\ runs' = [runs EXCEPT ![run].stage =
                        [i \in Items |-> IF @[i] = "failed" THEN "queued" ELSE @[i]]]
        /\ Go("backfill", [Idle EXCEPT !.pc = "process", !.run = run])
        /\ UNCHANGED <<decisions, current, archive, spent>>

\* build_classification_run_report: what the run adopted for each item, and
\* whether the sums come out: an excluded item counts whatever it adopted, a
\* target only if it was classified or left for review.
Report(run) ==
    [i \in Items |-> IF runs[run].adopted[i] = 0 THEN "none"
                     ELSE decisions[runs[run].adopted[i]].status]

Reconciled(run) ==
    \A i \in Frozen(run) :
        /\ runs[run].adopted[i] # 0
        /\ runs[run].why[i] = "target" => Report(run)[i] \in {"classified", "needs_review"}

Completable_AnyStage(run) == InStage(run, "queued") = {} /\ InStage(run, "failed") = {}

Completable(run) == InStage(run, "decided") = Frozen(run) /\ Reconciled(run)

\* The first half of complete: the report is built before the transaction
\* that closes the run.
BuildReport ==
    LET run == <<"backfill">>
    IN  /\ At("backfill", "report")
        /\ IF runs[run].status # "completed" /\ Completable(run)
           THEN Move("backfill", "close")
           ELSE Return("backfill")
        /\ UNCHANGED <<tables, archive, spent>>

\* sealed remembers what was adopted at that moment.
Complete ==
    LET run == <<"backfill">>
    IN  /\ At("backfill", "close")
        /\ runs' = [runs EXCEPT ![run].status = "completed", ![run].sealed = runs[run].adopted]
        /\ Return("backfill")
        /\ UNCHANGED <<decisions, current, archive, spent>>

-----------------------------------------------------------------------------
(***************************************************************************)
(* The pipeline: _classify_archived_item, then refine_current_dossier.     *)
(***************************************************************************)
\* The current decision was made by these rules from these originals.
UpToDate(i) == Has(i) /\ CurrentOf(i).rules = "pipeline" /\ CurrentOf(i).material = material[i]

\* Nothing to do for an excluded item, a manual decision, an up-to-date one;
\* a run of its own for a new item or new originals, otherwise only another
\* look at the evidence.
Look(i) ==
    /\ Free("pipeline")
    /\ ~excluded[i]
    /\ ~(Has(i) /\ CurrentOf(i).locked)
    /\ ~(UpToDate(i) /\ CurrentOf(i).status = "classified")
    /\ Go("pipeline",
          [Idle EXCEPT !.item = i, !.pc = IF UpToDate(i) THEN "refine" ELSE "create",
                       !.run = <<"pipeline", i, IF Has(i) THEN material[i] ELSE 0>>])
    /\ UNCHANGED <<tables, archive, spent>>

\* A scoped run refuses an item that is excluded by now.
CreatePipelineRun ==
    LET i == procs["pipeline"].item
        run == procs["pipeline"].run
    IN  /\ At("pipeline", "create")
        /\ IF excluded[i] \/ (runs[run].status # "none" /\ ~SameInputs(run, {i}))
           THEN UNCHANGED runs /\ Return("pipeline")
           ELSE create_run(run, {i}) /\ Move("pipeline", "process")
        /\ UNCHANGED <<decisions, current, archive, spent>>

\* process_next is called once; then the evidence is read.
Refine ==
    LET i == procs["pipeline"].item
    IN  /\ At("pipeline", "refine")
        /\ IF ~Has(i) \/ CurrentOf(i).locked \/ CurrentOf(i).status = "excluded"
              \/ (CurrentOf(i).status = "classified" /\ CurrentOf(i).material = material[i])
           THEN Return("pipeline")
           ELSE \E status \in {"classified", "needs_review"} :
                    Go("pipeline", [procs["pipeline"] EXCEPT !.pc = "refined", !.seen = current[i],
                                        !.material = material[i], !.status = status])
        /\ UNCHANGED <<tables, archive, spent>>

\* The refined decision belongs to the run of the decision it refines, unless
\* that run was completed when it was looked at.
Refinable(i, seen, input) ==
    /\ current[i] = seen
    /\ ~CurrentOf(i).locked /\ CurrentOf(i).status # "excluded"
    /\ CurrentOf(i).input # input
    /\ runs[CurrentOf(i).run].status # "completed"

CheckRefined ==
    LET p == procs["pipeline"]
    IN  /\ At("pipeline", "refined")
        /\ IF Refinable(p.item, p.seen, <<"dossier", p.material>>)
           THEN Go("pipeline", [p EXCEPT !.pc = "adopt", !.run = CurrentOf(p.item).run])
           ELSE Return("pipeline")
        /\ UNCHANGED <<tables, archive, spent>>

\* The swap asks for the decision only: the run may be completed by now.
AdoptRefined ==
    LET p == procs["pipeline"]
        i == p.item
    IN  /\ At("pipeline", "adopt")
        /\ IF Swappable(i, p.seen)
           THEN /\ Swap(i, [Decision(i, p.run, p.status, <<"dossier", p.material>>, p.seen)
                               EXCEPT !.material = p.material])
                /\ runs' = [runs EXCEPT ![p.run].adopted[i] = Len(decisions) + 1]
           ELSE UNCHANGED tables
        /\ Return("pipeline")
        /\ UNCHANGED <<archive, spent>>

-----------------------------------------------------------------------------
(***************************************************************************)
(* The semantic review: a run over the items left for review.              *)
(***************************************************************************)
semantic_target_keys ==
    {i \in Items : Has(i) /\ CurrentOf(i).status = "needs_review" /\ ~CurrentOf(i).locked
                          /\ ~excluded[i]}

\* create_run returns an existing run as it is; recover_interrupted queues
\* again what a dead program was working on.
StartReview ==
    LET run == <<"semantic">>
        fresh == [Created(semantic_target_keys) EXCEPT
                     !.why = [i \in Items |-> IF i \in semantic_target_keys
                                              THEN "semantic_review" ELSE "none"]]
    IN  /\ Free("semantic")
        /\ IF runs[run].status = "none"
           THEN semantic_target_keys # {} /\ runs' = [runs EXCEPT ![run] = fresh]
           ELSE runs' = [runs EXCEPT ![run].stage =
                            [i \in Items |-> IF @[i] = "content" THEN "queued" ELSE @[i]]]
        /\ Go("semantic", [Idle EXCEPT !.pc = "claim", !.run = run])
        /\ UNCHANGED <<decisions, current, archive, spent>>

\* progress, then _claim: the run is complete when nothing waits or failed.
ClaimReview ==
    LET run == <<"semantic">>
    IN  /\ At("semantic", "claim")
        /\ IF InStage(run, "queued") = {}
           THEN /\ runs' = IF InStage(run, "failed") = {} /\ runs[run].status # "completed"
                           THEN [runs EXCEPT ![run].status = "completed",
                                             ![run].sealed = runs[run].adopted]
                           ELSE runs
                /\ Return("semantic")
           ELSE \E i \in InStage(run, "queued") :
                    /\ runs' = [runs EXCEPT ![run].status = "running", ![run].stage[i] = "content"]
                    /\ Go("semantic", [procs["semantic"] EXCEPT !.pc = "gate", !.item = i])
        /\ UNCHANGED <<decisions, current, archive, spent>>

\* An item that was locked since, or has no text, keeps its decision.
Gate ==
    LET i == procs["semantic"].item
    IN  /\ At("semantic", "gate")
        /\ \/ Go("semantic", [procs["semantic"] EXCEPT !.pc = "keep", !.seen = current[i]])
           \/ ~CurrentOf(i).locked /\ Move("semantic", "thinking")
        /\ UNCHANGED <<tables, archive, spent>>

\* _adoptable: a review gets an answer from any sure one; another decision is
\* replaced only when the model says so.  The lock is not looked at again.
Adoptable(i, answer) ==
    IF CurrentOf(i).status = "needs_review" THEN answer \in {"classified", "replace"}
    ELSE answer = "replace"

Answer ==
    LET i == procs["semantic"].item
    IN  /\ At("semantic", "thinking")
        /\ \E answer \in {"rejected", "classified", "replace"} :
               Go("semantic", [procs["semantic"] EXCEPT
                                  !.pc = IF Adoptable(i, answer) THEN "adopt" ELSE "keep",
                                  !.seen = current[i]])
        /\ UNCHANGED <<tables, archive, spent>>

AdoptAnswer ==
    LET p == procs["semantic"]
        run == <<"semantic">>
    IN  /\ At("semantic", "adopt")
        /\ IF Swappable(p.item, p.seen)
           THEN /\ Swap(p.item, Decision(p.item, run, "classified", <<"semantic">>, p.seen))
                /\ Settle(run, p.item, Len(decisions) + 1)
           ELSE SetStage(run, p.item, "failed") /\ UNCHANGED <<decisions, current>>
        /\ Loop("semantic", "claim")
        /\ UNCHANGED <<archive, spent>>

\* retry_rejected: items whose answer was refused are queued again, also those
\* of a completed run; any that kept a decision of another run may be one.  Only
\* the tests of the service call it.
RetryRejected(items) ==
    LET run == <<"semantic">>
    IN  /\ items \subseteq {i \in InStage(run, "decided") :
                              decisions[runs[run].adopted[i]].run # run}
        /\ runs' = [runs EXCEPT ![run].stage =
                        [i \in Items |-> IF i \in items THEN "queued" ELSE @[i]]]
        /\ UNCHANGED <<decisions, current, archive, procs, spent>>

FailReview ==
    /\ procs["semantic"].pc \in {"gate", "thinking", "keep", "adopt"}
    /\ Fault
    /\ SetStage(<<"semantic">>, procs["semantic"].item, "failed")
    /\ Loop("semantic", "claim")
    /\ UNCHANGED <<decisions, current, archive>>

-----------------------------------------------------------------------------
(***************************************************************************)
(* The console, the archive, and crashes.                                  *)
(***************************************************************************)
Change == spent.changes < MaxChanges /\ spent' = [spent EXCEPT !.changes = @ + 1]

\* update_item_classification: a run of its own for each manual decision.
StartManual(i) ==
    LET run == <<"manual", spent.changes + 1>>
    IN  /\ Free("web")
        /\ ~excluded[i]
        /\ LockWhileThinking \/ procs["semantic"].pc # "thinking"
        /\ Change
        /\ create_run(run, {i})
        /\ Go("web", [Idle EXCEPT !.pc = "set", !.run = run, !.item = i])
        /\ UNCHANGED <<decisions, current, archive>>

\* set_manual_decision.
SetManual ==
    LET i == procs["web"].item
        run == procs["web"].run
    IN  /\ At("web", "set")
        /\ LockWhileThinking \/ procs["semantic"].pc # "thinking"
        /\ Swap(i, [Decision(i, run, "classified", run, current[i]) EXCEPT !.locked = TRUE])
        /\ Settle(run, i, Len(decisions) + 1)
        /\ Return("web")
        /\ UNCHANGED <<archive, spent>>

\* Originals are replaced; a policy begins or ceases to exclude the item.
Recapture(i) ==
    /\ Change
    /\ material' = [material EXCEPT ![i] = @ + 1]
    /\ UNCHANGED <<tables, excluded, procs>>

ChangePolicy(i) ==
    /\ Change
    /\ excluded' = [excluded EXCEPT ![i] = ~@]
    /\ UNCHANGED <<tables, material, procs>>

Crash(p) ==
    /\ ~At(p, "idle")
    /\ Fault
    /\ Return(p)
    /\ UNCHANGED <<tables, archive>>

Next ==
    \/ Claim("pipeline", "refine") \/ Claim("backfill", "report")
    \/ Keep("pipeline", "process") \/ Keep("backfill", "process") \/ Keep("semantic", "claim")
    \/ \E p \in {"pipeline", "backfill"} : Decide(p) \/ Adopt(p) \/ Fail(p)
    \/ StartBackfill \/ Resume \/ BuildReport \/ Complete
    \/ \E i \in Items : Look(i) \/ StartManual(i) \/ Recapture(i) \/ ChangePolicy(i)
    \/ CreatePipelineRun \/ Refine \/ CheckRefined \/ AdoptRefined
    \/ StartReview \/ ClaimReview \/ Gate \/ Answer \/ AdoptAnswer \/ FailReview
    \/ \E items \in SUBSET Items \ {{}} : RetryRejected(items)
    \/ SetManual
    \/ \E p \in Programs : Crash(p)

Spec == Init /\ [][Next]_vars

-----------------------------------------------------------------------------
Ids == 1..Len(decisions)

\* What a person decided is replaced only by a person, or by an exclusion that
\* a run froze (service.py:534-541).
LocksHold ==
    \A d \in Ids :
        decisions[d].base # 0 /\ decisions[decisions[d].base].locked =>
            decisions[d].locked \/ decisions[d].status = "excluded"

\* The decisions of an item form one chain that ends in the current one: no
\* decision is superseded twice, and none is lost beside it.
OneChain ==
    /\ \A a, b \in Ids : decisions[a].item = decisions[b].item /\ decisions[a].base = decisions[b].base
                             => a = b
    /\ \A i \in Items : \A d \in Ids :
           decisions[d].item = i /\ d # current[i] => \E e \in Ids : decisions[e].base = d

\* A completed run has decided every item it froze, has adopted a decision of
\* that very item, and excluded the items it froze as excluded and no other.
\* It is immutable (service.py:398) but for two things: retry_rejected queues
\* items of a semantic run again, and a refinement that found the run open may
\* write when it is closed.  That one replaces what the run had adopted by
\* what was made of it, and no item is changed so a second time.
CompletedRunsStand ==
    \A run \in RunIds : runs[run].status = "completed" =>
        \A i \in Frozen(run) :
            LET r == runs[run]
                d == decisions[r.adopted[i]]
            IN  /\ r.stage[i] = "decided" \/ (run = <<"semantic">> /\ r.stage[i] = "queued")
                /\ r.adopted[i] \in Ids /\ d.item = i
                /\ r.adopted[i] = r.sealed[i] \/ (d.input[1] = "dossier" /\ d.base = r.sealed[i])
                /\ run = <<"backfill">> => (d.status = "excluded") = (r.why[i] = "excluded")

ClassificationIsSound == LocksHold /\ OneChain /\ CompletedRunsStand

\* A claimed item is being worked on, so that it can be "reviewed or resumed
\* without losing its place" (service.py:5).  Not so after a crash.
NothingIsStranded ==
    \A run \in RunIds : \A i \in InStage(run, "metadata") :
        \E p \in {"pipeline", "backfill"} :
            procs[p].run = run /\ procs[p].item = i /\ procs[p].pc \in {"decide", "keep", "swap"}
-----------------------------------------------------------------------------
(***************************************************************************)
(* Why they are: the inductive invariant of the proofs.                    *)
(***************************************************************************)
Statuses == {"excluded", "classified", "needs_review"}
RunStatuses == {"none", "created", "running", "completed"}
Whys == {"none", "target", "excluded", "semantic_review"}
RuleNames == {"pipeline", "backfill", "semantic"}
StageNames == {"none", "queued", "metadata", "content", "decided", "failed"}

InputKinds == ({"metadata"} \X Whys \X BOOLEAN \X Nat \X RuleNames)
              \cup ({"dossier"} \X Nat) \cup {<<"semantic">>} \cup ({"manual"} \X Nat)

DecisionRows ==
    [item : Items, run : RunIds, status : Statuses, locked : BOOLEAN, rules : RuleNames,
     input : InputKinds, material : Nat, base : Nat]

RunRows ==
    [status : RunStatuses, why : [Items -> Whys], stage : [Items -> StageNames],
     adopted : [Items -> Nat], sealed : [Items -> Nat]]

ProcRows ==
    [pc : {"idle", "process", "decide", "keep", "swap", "report", "close", "create", "refine",
           "refined", "adopt", "claim", "gate", "thinking", "set"},
     run : RunIds, item : Items, seen : Nat, material : Nat, status : Statuses \cup {"none"}]

Typed ==
    /\ decisions \in Seq(DecisionRows)
    /\ current \in [Items -> Nat]
    /\ runs \in [RunIds -> RunRows]
    /\ excluded \in [Items -> BOOLEAN]
    /\ material \in [Items -> Nat]
    /\ procs \in [Programs -> ProcRows]
    /\ spent \in [changes : 0..MaxChanges, faults : Nat]
    /\ \A i \in Items : material[i] <= spent.changes + 1

\* A decision is excluded exactly if its run froze the item so.
Matches(d, why) == (d.status = "excluded") = (why = "excluded")

\* What is known of a decision from the moment it is made.
Sound(d) ==
    /\ runs[d.run].status # "none"
    /\ d.run = <<"backfill">> => Matches(d, runs[d.run].why[d.item])
    /\ d.locked => d.status = "classified"
    /\ d.input[1] = "metadata" => Matches(d, d.input[2])

\* The decisions of an item, from the first to the current one.
Chained ==
    /\ \A i \in Items :
           current[i] # 0 => current[i] \in Ids /\ decisions[current[i]].item = i
    /\ \A d \in Ids :
           /\ decisions[d].base < d
           /\ current[decisions[d].item] \notin {0, decisions[d].base}
    /\ LocksHold /\ OneChain

\* A run that decided an item is done with it, and goes with its chain as
\* long as the decision there is its own.
Owned ==
    \A d \in Ids :
        LET i == decisions[d].item
            r == runs[decisions[d].run]
        IN  /\ r.stage[i] = "decided" /\ decisions[r.adopted[i]].run = decisions[d].run
            /\ current[i] = d => r.adopted[i] = d

\* The only runs that are ever completed.
Completing == {<<"backfill">>, <<"semantic">>}

\* What a refinement made of a closed run.
Refined(r, i) ==
    /\ decisions[r.adopted[i]].input[1] = "dossier"
    /\ decisions[r.adopted[i]].base = r.sealed[i]

\* A closed run: what it has decided, and what it adopted.
Closed(run) ==
    LET r == runs[run]
    IN  /\ run \in Completing
        /\ \A i \in Frozen(run) :
               /\ \/ r.stage[i] = "decided"
                  \/ run = <<"semantic">> /\ r.stage[i] = "queued"
               /\ r.adopted[i] # 0
               /\ r.adopted[i] = r.sealed[i] \/ Refined(r, i)

RunIsSound(run) ==
    LET r == runs[run]
    IN  /\ \A i \in Items :
               /\ r.adopted[i] # 0 => /\ r.adopted[i] \in Ids /\ decisions[r.adopted[i]].item = i
                                      /\ run = <<"backfill">> =>
                                             Matches(decisions[r.adopted[i]], r.why[i])
               /\ r.stage[i] = "decided" => r.adopted[i] # 0
               /\ IF run = <<"semantic">>
                  THEN /\ r.why[i] \in {"none", "semantic_review"}
                       /\ r.why[i] # "none" =>
                              current[i] # 0
                                  /\ r.stage[i] \in {"queued", "content", "decided", "failed"}
                  ELSE r.why[i] # "semantic_review"
        /\ r.status = "none" => r.why = Absent.why
        /\ r.status = "completed" => Closed(run)

\* The run an attempt works for is still open, and its item is claimed.
Attempts(q) ==
    /\ runs[q.run].status \notin {"none", "completed"}
    /\ runs[q.run].why[q.item] \in {"target", "excluded"}
    /\ runs[q.run].stage[q.item] = "metadata"

\* What a program read is a decision of its item.
Saw(q) == q.seen \in Ids /\ decisions[q.seen].item = q.item

Knows(p) ==
    LET q == procs[p]
    IN  /\ q.pc \in CASE p = "pipeline" -> {"idle", "create", "process", "decide", "keep", "swap",
                                             "refine", "refined", "adopt"}
                      [] p = "backfill" -> {"idle", "process", "decide", "keep", "swap", "report",
                                             "close"}
                      [] p = "semantic" -> {"idle", "claim", "gate", "thinking", "keep", "adopt"}
                      [] p = "web" -> {"idle", "set"}
        /\ p = "pipeline" /\ q.pc \in {"create", "process", "decide", "keep", "swap"} =>
               q.run[1] = "pipeline"
        /\ p = "backfill" => q.run = <<"backfill">>
        /\ q.pc \in {"process", "report"} => runs[q.run].status # "none"
        /\ p # "semantic" /\ q.pc \in {"decide", "keep", "swap"} => Attempts(q)
        /\ q.pc = "swap" =>
               /\ q.seen # 0 => /\ q.seen \in Ids
                                /\ decisions[q.seen].locked => q.status = "excluded"
               /\ q.status # "none" /\ Matches(q, runs[q.run].why[q.item])
        /\ q.pc = "keep" =>
               /\ Saw(q)
               /\ q.run = <<"backfill">> => Matches(decisions[q.seen], runs[q.run].why[q.item])
        /\ q.pc = "refined" => q.seen # 0 /\ q.status \in {"classified", "needs_review"}
        /\ q.pc = "adopt" => Saw(q) /\ ~decisions[q.seen].locked
        /\ p = "pipeline" /\ q.pc = "adopt" =>
               /\ decisions[q.seen].run = q.run /\ decisions[q.seen].status # "excluded"
               /\ q.status \in {"classified", "needs_review"}
               /\ runs[q.run].status = "completed" /\ current[q.item] = q.seen =>
                      runs[q.run].sealed[q.item] = q.seen
        /\ q.pc = "close" => /\ runs[q.run].status \notin {"none", "completed"}
                             /\ InStage(q.run, "decided") = Frozen(q.run)
        /\ q.pc = "set" => q.run[1] = "manual" /\ runs[q.run].status # "none"
        /\ p = "semantic" /\ q.pc # "idle" =>
               /\ q.run = <<"semantic">> /\ runs[q.run].status # "none"
               /\ InStage(q.run, "content") = IF q.pc = "claim" THEN {} ELSE {q.item}
               /\ q.pc # "claim" => runs[q.run].status = "running"
               /\ q.pc = "thinking" => ~CurrentOf(q.item).locked

ClassificationInv ==
    /\ Typed
    /\ \A d \in Ids : Sound(decisions[d])
    /\ Chained /\ Owned
    /\ \A run \in RunIds : RunIsSound(run)
    /\ \A p \in Programs : Knows(p)
=============================================================================
